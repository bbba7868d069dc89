----------------------------- MODULE ListProofs -----------------------------
(***************************************************************************)
(* The list of CircularList for every size N and every set of values: it    *)
(* stays one ring, its iterator stays on it, and it implements the bounded  *)
(* sequence of BoundedList, step by step.  Then the race in currentTask()    *)
(* on a level's queue, module TaskQueue, for every set of tasks.            *)
(***************************************************************************)
EXTENDS TaskQueue, FiniteSetTheorems, SequenceTheorems, TLAPS

(***************************************************************************)
(* Numbers                                                                  *)
(***************************************************************************)

\* Every set of naturals that is not empty has a least element.
LEMMA LeastElement ==
  ASSUME NEW S \in SUBSET Nat, S # {}
  PROVE  \E d \in S : \A e \in S : d <= e
<1>1. PICK d \in S : \A e \in S : ~(<<e, d>> \in OpToRel(<, Nat))
  BY WFMin, NatLessThanWellFounded
<1>2. \A e \in S : ~(e < d)
  BY <1>1 DEF OpToRel
<1> QED
  BY <1>2

\* One step round a ring of n places.
LEMMA OneRound ==
  ASSUME NEW n \in Nat, NEW k \in 1..n
  PROVE  (k % n) + 1 = IF k = n THEN 1 ELSE k + 1
<1>1. CASE k = n
  BY <1>1
<1>2. CASE k < n
  BY <1>2
<1> QED
  BY <1>1, <1>2

\* The remainder of a number that is a node's, or N more.
LEMMA NodeOf ==
  ASSUME NEW m \in Nodes
  PROVE  m % N = m /\ (m + N) % N = m
<1>1. N \in Nat \ {0} /\ m \in 0..(N - 1)
  BY ListAssumption DEF Nodes
<1>2. m % N = m
  BY <1>1
<1>3. (m + N) % N = m
  BY <1>1
<1> QED
  BY <1>2, <1>3

\* Every node is so many steps above another one and so many below it.
LEMMA StepsRound ==
  ASSUME NEW n \in Nodes, NEW m \in Nodes
  PROVE  /\ \E d \in Nodes : (n + d) % N = m
         /\ \E d \in Nodes : (n + N - d) % N = m
<1>1. N \in Nat \ {0} /\ n \in 0..(N - 1) /\ m \in 0..(N - 1) /\ Nodes = 0..(N - 1)
  BY ListAssumption DEF Nodes
<1>2. CASE m >= n
  <2> DEFINE up == m - n
             down == n + N - m
  <2>1. up \in Nodes /\ n + up = m
    BY <1>1, <1>2
  <2>2. CASE m = n
    <3>1. 0 \in Nodes /\ n + N - 0 = m + N
      BY <1>1, <2>2
    <3> QED
      BY <2>1, <3>1, NodeOf
  <2>3. CASE m # n
    <3>1. down \in Nodes /\ n + N - down = m
      BY <1>1, <1>2, <2>3
    <3> HIDE DEF up, down
    <3> QED
      BY <2>1, <3>1, NodeOf
  <2> QED
    BY <2>2, <2>3
<1>3. CASE m < n
  <2> DEFINE up == m + N - n
             down == n - m
  <2>1. up \in Nodes /\ n + up = m + N
    BY <1>1, <1>3
  <2>2. down \in Nodes /\ n + N - down = m + N
    BY <1>1, <1>3
  <2> HIDE DEF up, down
  <2> QED
    BY <2>1, <2>2, NodeOf
<1> QED
  BY <1>1, <1>2, <1>3

(***************************************************************************)
(* The pieces of the list                                                   *)
(***************************************************************************)
\* What the list keeps, and what is needed to prove it.
ListInv == TypeOK /\ RingIsExact /\ IteratorInRing

\* The nodes of the list are not all the nodes there are, unless it is full.
LEMMA FreeNode ==
  ASSUME TypeOK, RingIsExact, num_ < N
  PROVE  \E m \in Nodes : ~isAllocated[m]
<1>1. N \in Nat \ {0} /\ num_ \in Nat
  BY ListAssumption DEF TypeOK
<1> SUFFICES ASSUME \A m \in Nodes : isAllocated[m]
             PROVE  FALSE
  OBVIOUS
<1> DEFINE f == [m \in Nodes |-> CHOOSE k \in 1..num_ : nodes[k] = m]
<1>2. \A m \in Nodes : f[m] \in 1..num_ /\ nodes[f[m]] = m
  BY DEF RingIsExact
<1>3. f \in [Nodes -> 1..num_]
  BY <1>2
<1>4. IsFiniteSet(Nodes) /\ Cardinality(Nodes) = N
  <2>1. 0 \in Int /\ N - 1 \in Int
    BY <1>1
  <2>2. Cardinality(0..(N - 1)) = IF 0 > N - 1 THEN 0 ELSE (N - 1) - 0 + 1
    BY <2>1, FS_Interval
  <2> QED
    BY <1>1, <2>1, <2>2, FS_Interval DEF Nodes
<1>5. IsFiniteSet(1..num_) /\ Cardinality(1..num_) = num_
  <2>1. Cardinality(1..num_) = IF 1 > num_ THEN 0 ELSE num_ - 1 + 1
    BY <1>1, FS_Interval
  <2> QED
    BY <1>1, <2>1, FS_Interval
<1> HIDE DEF f
<1>6. PICK x, y \in Nodes : x # y /\ f[x] = f[y]
  BY <1>3, <1>4, <1>5, FS_PigeonHole
<1> QED
  BY <1>2, <1>6

\* FreeAbove and FreeBelow find one of them.
LEMMA FreeFound ==
  ASSUME TypeOK, RingIsExact, num_ < N, NEW n \in Nodes
  PROVE  /\ FreeAbove(n) \in Nodes /\ ~isAllocated[FreeAbove(n)]
         /\ FreeBelow(n) \in Nodes /\ ~isAllocated[FreeBelow(n)]
<1>0. N \in Nat \ {0} /\ Nodes = 0..(N - 1) /\ Nodes \subseteq Nat
  BY ListAssumption DEF Nodes
<1>1. PICK m \in Nodes : ~isAllocated[m]
  BY FreeNode
<1>2. /\ FreeAbove(n) \in Nodes /\ ~isAllocated[FreeAbove(n)]
  <2> DEFINE free == {d \in Nodes : ~isAllocated[(n + d) % N]}
             d0 == CHOOSE d \in free : \A e \in free : d <= e
  <2>1. free # {}
    BY <1>1, StepsRound
  <2>2. free \in SUBSET Nat
    BY <1>0
  <2>3. \E d \in free : \A e \in free : d <= e
    <3> HIDE DEF free
    <3> QED
      BY <2>1, <2>2, LeastElement
  <2>4. d0 \in free
    BY <2>3
  <2>5. d0 \in Nat /\ ~isAllocated[(n + d0) % N] /\ FreeAbove(n) = (n + d0) % N
    BY <2>4, <1>0 DEF FreeAbove
  <2> HIDE DEF free, d0
  <2> QED
    BY <2>5, <1>0
<1>3. /\ FreeBelow(n) \in Nodes /\ ~isAllocated[FreeBelow(n)]
  <2> DEFINE free == {d \in Nodes : ~isAllocated[(n + N - d) % N]}
             d0 == CHOOSE d \in free : \A e \in free : d <= e
  <2>1. free # {}
    BY <1>1, StepsRound
  <2>2. free \in SUBSET Nat
    BY <1>0
  <2>3. \E d \in free : \A e \in free : d <= e
    <3> HIDE DEF free
    <3> QED
      BY <2>1, <2>2, LeastElement
  <2>4. d0 \in free
    BY <2>3
  <2>5. /\ d0 \in Nodes /\ ~isAllocated[(n + N - d0) % N]
        /\ FreeBelow(n) = (n + N - d0) % N
    BY <2>4, <1>0 DEF FreeBelow
  <2> HIDE DEF free, d0
  <2> QED
    BY <2>5, <1>0
<1> QED
  BY <1>2, <1>3

\* A free node is the first that is found from itself on.
LEMMA FreeItself ==
  ASSUME NEW n \in Nodes, ~isAllocated[n]
  PROVE  FreeAbove(n) = n /\ FreeBelow(n) = n
<1>0. N \in Nat \ {0} /\ Nodes = 0..(N - 1) /\ n \in Nat
  BY ListAssumption DEF Nodes
<1>1. 0 \in Nodes /\ n + 0 = n /\ n + N - 0 = n + N /\ n % N = n /\ (n + N) % N = n
  BY <1>0, NodeOf
<1>2. FreeAbove(n) = n
  <2> DEFINE free == {d \in Nodes : ~isAllocated[(n + d) % N]}
             d0 == CHOOSE d \in free : \A e \in free : d <= e
  <2>1. 0 \in free
    BY <1>1
  <2>2. free \subseteq Nat
    BY <1>0
  <2>3. \E d \in free : \A e \in free : d <= e
    <3> HIDE DEF free
    <3> QED
      BY <2>1, <2>2
  <2>4. d0 \in free /\ d0 <= 0
    BY <2>1, <2>3
  <2>5. FreeAbove(n) = (n + d0) % N
    BY DEF FreeAbove
  <2>6. d0 = 0
    BY <2>2, <2>4
  <2> HIDE DEF d0, free
  <2> QED
    BY <1>1, <2>5, <2>6
<1>3. FreeBelow(n) = n
  <2> DEFINE free == {d \in Nodes : ~isAllocated[(n + N - d) % N]}
             d0 == CHOOSE d \in free : \A e \in free : d <= e
  <2>1. 0 \in free
    BY <1>1
  <2>2. free \subseteq Nat
    BY <1>0
  <2>3. \E d \in free : \A e \in free : d <= e
    <3> HIDE DEF free
    <3> QED
      BY <2>1, <2>2
  <2>4. d0 \in free /\ d0 <= 0
    BY <2>1, <2>3
  <2>5. FreeBelow(n) = (n + N - d0) % N
    BY DEF FreeBelow
  <2>6. d0 = 0
    BY <2>2, <2>4
  <2> HIDE DEF d0, free
  <2> QED
    BY <1>1, <2>5, <2>6
<1> QED
  BY <1>2, <1>3

\* Where the iterator is in the list; the node before it.
LEMMA PlaceOfNode ==
  ASSUME TypeOK, RingIsExact, NEW n \in Nodes, isAllocated[n]
  PROVE  placeOf(n) \in 1..num_ /\ nodes[placeOf(n)] = n
<1>1. \E k \in 1..num_ : nodes[k] = n
  BY DEF RingIsExact
<1> QED
  BY <1>1 DEF placeOf

LEMMA InitInv == Init => ListInv
<1> SUFFICES ASSUME Init PROVE ListInv
  OBVIOUS
<1>1. 0 \in Nodes /\ N \in Nat
  BY ListAssumption DEF Nodes
<1>2. TypeOK
  BY <1>1, ListAssumption DEF Init, TypeOK
<1>3. RingIsExact
  BY <1>1 DEF Init, RingIsExact
<1> QED
  BY <1>2, <1>3 DEF ListInv, IteratorInRing, Init, inLoop

(***************************************************************************)
(* Rings: Ring says of any values what RingIsExact says of the variables.   *)
(***************************************************************************)
following(k, n) == IF k = n THEN 1 ELSE k + 1
preceding(k, n) == IF k = 1 THEN n ELSE k - 1

Ring(h, t, n, nx, al, s) ==
  /\ n \in Nat /\ s \in [1..n -> Nodes]
  /\ \A j, k \in 1..n : s[j] = s[k] => j = k
  /\ \A m \in Nodes : al[m] <=> \E k \in 1..n : s[k] = m
  /\ \A k \in 1..n : nx[s[k]] = s[following(k, n)]
  /\ n = 0 => h = t
  /\ n # 0 => h = s[1] /\ t = s[n]

LEMMA RingOfList ==
  TypeOK => (Len(nodes) = num_ /\ Ring(head_, tail_, num_, next_, isAllocated, nodes)
               <=> RingIsExact)
<1> SUFFICES ASSUME TypeOK, Len(nodes) = num_
             PROVE  Ring(head_, tail_, num_, next_, isAllocated, nodes) <=> RingIsExact
  BY DEF RingIsExact
<1>1. num_ \in Nat /\ nodes \in [1..num_ -> Nodes]
  BY LenProperties, ListAssumption DEF TypeOK
<1>2. \A k \in 1..num_ : (k % num_) + 1 = following(k, num_)
  BY <1>1, OneRound DEF following
<1>3. (\A k \in 1..num_ : next_[nodes[k]] = nodes[(k % num_) + 1])
        <=> (\A k \in 1..num_ : next_[nodes[k]] = nodes[following(k, num_)])
  BY <1>2
<1> QED
  BY <1>1, <1>3 DEF Ring, RingIsExact

\* The links of a push, between the last node and the first.
Linked(nx, m, h, t) == [nx EXCEPT ![m] = h, ![t] = m]

LEMMA LinkedIs ==
  ASSUME NEW nx \in [Nodes -> Nodes], NEW m \in Nodes, NEW h \in Nodes, NEW t \in Nodes
  PROVE  /\ Linked(nx, m, h, t) \in [Nodes -> Nodes]
         /\ \A x \in Nodes : Linked(nx, m, h, t)[x] =
              IF x = t THEN m ELSE IF x = m THEN h ELSE nx[x]
BY DEF Linked

LEMMA RingAppend ==
  ASSUME NEW nx \in [Nodes -> Nodes], NEW al \in [Nodes -> BOOLEAN],
         NEW h \in Nodes, NEW t \in Nodes, NEW n, NEW s, NEW u,
         Ring(h, t, n, nx, al, s),
         NEW m \in Nodes, ~al[m], n = 0 => m = t,
         u \in [1..(n + 1) -> Nodes], u[n + 1] = m, \A k \in 1..n : u[k] = s[k]
  PROVE  Ring(h, m, n + 1, Linked(nx, m, h, t), [al EXCEPT ![m] = TRUE], u)
<1>a. \A x \in Nodes : Linked(nx, m, h, t)[x] =
              IF x = t THEN m ELSE IF x = m THEN h ELSE nx[x]
  BY DEF Linked
<1>b. Linked(nx, m, h, t) \in [Nodes -> Nodes]
  BY LinkedIs
<1>0. n \in Nat /\ s \in [1..n -> Nodes] /\ n + 1 \in 1..(n + 1)
  BY DEF Ring
<1>1. \A k \in 1..(n + 1) : k \in 1..n \/ k = n + 1
  BY <1>0
<1>2. \A k \in 1..n : k \in 1..(n + 1) /\ s[k] \in Nodes /\ s[k] # m
  BY <1>0 DEF Ring
<1>3. \A j, k \in 1..(n + 1) : u[j] = u[k] => j = k
  <2> TAKE j, k \in 1..(n + 1)
  <2>1. CASE j \in 1..n /\ k \in 1..n
    BY <2>1 DEF Ring
  <2> QED
    BY <1>1, <1>2, <2>1
<1>4. \A x \in Nodes : [al EXCEPT ![m] = TRUE][x] <=> \E k \in 1..(n + 1) : u[k] = x
  <2> TAKE x \in Nodes
  <2>1. [al EXCEPT ![m] = TRUE][x] <=> al[x] \/ x = m
    OBVIOUS
  <2>2. al[x] <=> \E k \in 1..n : s[k] = x
    BY DEF Ring
  <2>3. (\E k \in 1..(n + 1) : u[k] = x) <=> (\E k \in 1..n : s[k] = x) \/ x = m
    BY <1>0, <1>1, <1>2
  <2> QED
    BY <2>1, <2>2, <2>3
<1>5. h = u[1]
  <2>1. CASE n = 0
    BY <2>1 DEF Ring
  <2>2. CASE n # 0
    <3>1. 1 \in 1..n
      BY <1>0, <2>2
    <3> QED
      BY <3>1, <2>2 DEF Ring
  <2> QED
    BY <2>1, <2>2
<1>6. ASSUME NEW k \in 1..(n + 1)
      PROVE  Linked(nx, m, h, t)[u[k]] = u[following(k, n + 1)]
  <2>1. CASE k = n + 1
    <3>1. Linked(nx, m, h, t)[m] = h
      <4>1. CASE n = 0
        BY <4>1, <1>a DEF Ring
      <4>2. CASE n # 0
        <5>1. t # m
          BY <1>0, <1>2, <4>2 DEF Ring
        <5> QED
          BY <5>1, <1>a
      <4> QED
        BY <4>1, <4>2
    <3> QED
      BY <2>1, <3>1, <1>5 DEF following
  <2>2. CASE k = n /\ k # n + 1
    <3>1. n # 0 /\ n \in 1..n /\ u[k] = t
      BY <1>0, <2>2 DEF Ring
    <3>2. Linked(nx, m, h, t)[u[k]] = m
      BY <3>1, <1>a
    <3> QED
      BY <3>2, <2>2 DEF following
  <2>3. CASE k # n /\ k # n + 1
    <3>1. k \in 1..n /\ k + 1 \in 1..n /\ n \in 1..n /\ n # 0
      BY <1>0, <1>1, <2>3
    <3>2. s[k] # t /\ s[k] # m /\ s[k] \in Nodes
      BY <1>2, <2>3, <3>1 DEF Ring
    <3>3. Linked(nx, m, h, t)[s[k]] = nx[s[k]]
      BY <3>2, <1>a
    <3>4. nx[s[k]] = s[k + 1]
      BY <3>1, <2>3 DEF Ring, following
    <3> QED
      BY <3>1, <3>3, <3>4, <2>3 DEF following
  <2> QED
    BY <2>1, <2>2, <2>3
<1> HIDE DEF Linked
<1> QED
  BY <1>0, <1>3, <1>4, <1>5, <1>6 DEF Ring

LEMMA RingPrepend ==
  ASSUME NEW nx \in [Nodes -> Nodes], NEW al \in [Nodes -> BOOLEAN],
         NEW h \in Nodes, NEW t \in Nodes, NEW n, NEW s, NEW u,
         Ring(h, t, n, nx, al, s),
         NEW m \in Nodes, ~al[m], n = 0 => m = t,
         u \in [1..(n + 1) -> Nodes], u[1] = m, \A k \in 1..n : u[k + 1] = s[k]
  PROVE  Ring(m, t, n + 1, Linked(nx, m, h, t), [al EXCEPT ![m] = TRUE], u)
<1>a. \A x \in Nodes : Linked(nx, m, h, t)[x] =
              IF x = t THEN m ELSE IF x = m THEN h ELSE nx[x]
  BY DEF Linked
<1>0. n \in Nat /\ s \in [1..n -> Nodes] /\ 1 \in 1..(n + 1)
  BY DEF Ring
<1>1. \A k \in 1..(n + 1) : k # 1 => k - 1 \in 1..n /\ u[k] = s[k - 1]
  <2> TAKE k \in 1..(n + 1)
  <2> HAVE k # 1
  <2>1. k - 1 \in 1..n /\ (k - 1) + 1 = k
    BY <1>0
  <2> QED
    BY <2>1
<1>2. \A k \in 1..n : k + 1 \in 1..(n + 1) /\ s[k] \in Nodes /\ s[k] # m
  BY <1>0 DEF Ring
<1>3. \A j, k \in 1..(n + 1) : u[j] = u[k] => j = k
  <2> TAKE j, k \in 1..(n + 1)
  <2>1. CASE j # 1 /\ k # 1
    <3>1. u[j] = u[k] => j - 1 = k - 1
      BY <1>1, <2>1 DEF Ring
    <3> QED
      BY <1>0, <3>1
  <2> QED
    BY <1>1, <1>2, <2>1
<1>4. \A x \in Nodes : [al EXCEPT ![m] = TRUE][x] <=> \E k \in 1..(n + 1) : u[k] = x
  <2> TAKE x \in Nodes
  <2>1. [al EXCEPT ![m] = TRUE][x] <=> al[x] \/ x = m
    OBVIOUS
  <2>2. al[x] <=> \E k \in 1..n : s[k] = x
    BY DEF Ring
  <2>3. (\E k \in 1..(n + 1) : u[k] = x) <=> (\E k \in 1..n : s[k] = x) \/ x = m
    BY <1>0, <1>1, <1>2
  <2> QED
    BY <2>1, <2>2, <2>3
<1>5. t = u[n + 1]
  <2>1. CASE n = 0
    BY <2>1
  <2>2. CASE n # 0
    <3>1. n \in 1..n
      BY <1>0, <2>2
    <3> QED
      BY <3>1, <2>2 DEF Ring
  <2> QED
    BY <2>1, <2>2
<1>6. ASSUME NEW k \in 1..(n + 1)
      PROVE  Linked(nx, m, h, t)[u[k]] = u[following(k, n + 1)]
  <2>1. CASE k = n + 1
    <3>1. Linked(nx, m, h, t)[u[k]] = m
      BY <1>5, <1>a, <2>1
    <3> QED
      BY <3>1, <2>1 DEF following
  <2>2. CASE k = 1 /\ k # n + 1
    <3>1. n # 0 /\ 1 \in 1..n /\ n \in 1..n
      BY <1>0, <2>2
    <3>2. t # m /\ h = s[1]
      BY <1>2, <3>1 DEF Ring
    <3>3. Linked(nx, m, h, t)[m] = h
      BY <3>2, <1>a
    <3>4. u[2] = s[1]
      BY <3>1
    <3> QED
      BY <3>2, <3>3, <3>4, <2>2 DEF following
  <2>3. CASE k # 1 /\ k # n + 1
    <3>1. k - 1 \in 1..n /\ k \in 1..n /\ k - 1 # n /\ n \in 1..n /\ n # 0
          /\ (k - 1) + 1 = k
      BY <1>0, <2>3
    <3>2. s[k - 1] # t /\ s[k - 1] # m /\ s[k - 1] \in Nodes /\ u[k] = s[k - 1]
      BY <1>1, <1>2, <2>3, <3>1 DEF Ring
    <3>3. Linked(nx, m, h, t)[s[k - 1]] = nx[s[k - 1]]
      BY <3>2, <1>a
    <3>4. nx[s[k - 1]] = s[k]
      BY <3>1 DEF Ring, following
    <3>5. u[k + 1] = s[k]
      BY <3>1
    <3> QED
      BY <3>2, <3>3, <3>4, <3>5, <2>3 DEF following
  <2> QED
    BY <2>1, <2>2, <2>3
<1> HIDE DEF Linked
<1> QED
  BY <1>0, <1>3, <1>4, <1>5, <1>6 DEF Ring

\* A node is taken out: the one before it is linked to the one behind it.
LEMMA RingRemove ==
  ASSUME NEW nx \in [Nodes -> Nodes], NEW al \in [Nodes -> BOOLEAN],
         NEW h \in Nodes, NEW t \in Nodes, NEW n, NEW s, NEW u,
         Ring(h, t, n, nx, al, s),
         NEW p \in 1..n, NEW b \in Nodes, b = s[preceding(p, n)],
         u \in [1..(n - 1) -> Nodes],
         \A k \in 1..(n - 1) : u[k] = IF k < p THEN s[k] ELSE s[k + 1]
  PROVE  Ring(IF s[p] = h THEN nx[s[p]] ELSE h, IF s[p] = t THEN b ELSE t,
              n - 1, [nx EXCEPT ![b] = nx[s[p]]], [al EXCEPT ![s[p]] = FALSE], u)
<1> DEFINE was(k) == IF k < p THEN k ELSE k + 1
           nx2 == [nx EXCEPT ![b] = nx[s[p]]]
<1>0. /\ n \in Nat \ {0} /\ p \in Nat /\ s \in [1..n -> Nodes]
      /\ preceding(p, n) \in 1..n /\ following(p, n) \in 1..n
  BY DEF Ring, preceding, following
<1>1. \A k \in 1..(n - 1) : was(k) \in 1..n /\ was(k) # p /\ u[k] = s[was(k)]
  BY <1>0
<1>2. \A j, k \in 1..(n - 1) : was(j) = was(k) => j = k
  BY <1>0
<1>3. \A i \in 1..n : i # p => \E k \in 1..(n - 1) : was(k) = i
  <2> TAKE i \in 1..n
  <2> HAVE i # p
  <2>1. CASE i < p
    <3>1. i \in 1..(n - 1) /\ was(i) = i
      BY <1>0, <2>1
    <3> QED
      BY <3>1
  <2>2. CASE ~(i < p)
    <3>1. i - 1 \in 1..(n - 1) /\ was(i - 1) = i
      BY <1>0, <2>2
    <3> QED
      BY <3>1
  <2> QED
    BY <2>1, <2>2
<1>4. \A j, k \in 1..(n - 1) : u[j] = u[k] => j = k
  <2> HIDE DEF was
  <2> QED
    BY <1>1, <1>2 DEF Ring
<1>5. \A x \in Nodes : [al EXCEPT ![s[p]] = FALSE][x] <=> \E k \in 1..(n - 1) : u[k] = x
  <2> TAKE x \in Nodes
  <2>1. [al EXCEPT ![s[p]] = FALSE][x] <=> al[x] /\ x # s[p]
    BY <1>0
  <2>2. al[x] <=> \E k \in 1..n : s[k] = x
    BY DEF Ring
  <2>3. (\E k \in 1..n : s[k] = x) /\ x # s[p] <=> \E k \in 1..(n - 1) : u[k] = x
    <3> HIDE DEF was
    <3>1. \A i \in 1..n : s[i] = s[p] => i = p
      BY DEF Ring
    <3> QED
      BY <1>1, <1>3, <3>1
  <2> QED
    BY <2>1, <2>2, <2>3
<1>6. nx[s[p]] = s[following(p, n)] /\ nx[s[p]] \in Nodes
  BY <1>0 DEF Ring
<1>7. \A x \in Nodes : nx2[x] = IF x = b THEN s[following(p, n)] ELSE nx[x]
  BY <1>6
<1>8. \A k \in 1..n : s[k] = b <=> k = preceding(p, n)
  BY <1>0 DEF Ring
<1>9. ASSUME NEW k \in 1..(n - 1)
      PROVE  nx2[u[k]] = u[following(k, n - 1)]
  <2>1. following(k, n - 1) \in 1..(n - 1)
    BY <1>0 DEF following
  <2>2. nx[s[was(k)]] = s[following(was(k), n)]
    BY <1>1 DEF Ring
  <2>3. s[was(k)] \in Nodes
    BY <1>0, <1>1
  <2>4. CASE was(k) = preceding(p, n)
    <3>1. nx2[u[k]] = s[following(p, n)]
      BY <1>1, <1>7, <1>8, <2>3, <2>4
    <3>2. was(following(k, n - 1)) = following(p, n)
      BY <1>0, <2>4 DEF preceding, following
    <3> QED
      BY <1>1, <2>1, <3>1, <3>2
  <2>5. CASE was(k) # preceding(p, n)
    <3>1. nx2[u[k]] = s[following(was(k), n)]
      BY <1>1, <1>7, <1>8, <2>2, <2>3, <2>5
    <3>2. was(following(k, n - 1)) = following(was(k), n)
      BY <1>0, <2>5 DEF preceding, following
    <3> QED
      BY <1>1, <2>1, <3>1, <3>2
  <2> QED
    BY <2>4, <2>5
<1> DEFINE h2 == IF s[p] = h THEN nx[s[p]] ELSE h
           t2 == IF s[p] = t THEN b ELSE t
<1>10. /\ s[p] = h <=> p = 1
       /\ s[p] = t <=> p = n
       /\ h = s[1] /\ t = s[n]
  BY <1>0 DEF Ring
<1>11. n - 1 = 0 => h2 = t2
  BY <1>0, <1>6, <1>10 DEF preceding, following
<1>12. ASSUME n - 1 # 0
       PROVE  h2 = u[1] /\ t2 = u[n - 1]
  <2>1. 1 \in 1..(n - 1) /\ n - 1 \in 1..(n - 1)
    BY <1>0, <1>12
  <2>2. h2 = s[was(1)]
    BY <1>0, <1>6, <1>10, <1>12 DEF following
  <2>3. t2 = s[was(n - 1)]
    BY <1>0, <1>10, <1>12 DEF preceding
  <2> QED
    BY <1>1, <2>1, <2>2, <2>3
<1> HIDE DEF h2, t2, was, nx2
<1>13. n - 1 \in Nat
  BY <1>0
<1>14. Ring(h2, t2, n - 1, nx2, [al EXCEPT ![s[p]] = FALSE], u)
  BY <1>4, <1>5, <1>9, <1>11, <1>12, <1>13 DEF Ring
<1> QED
  BY <1>14 DEF h2, t2, nx2

(***************************************************************************)
(* What the list stands for                                                 *)
(***************************************************************************)
ring == Ring(head_, tail_, num_, next_, isAllocated, nodes)
values == [k \in 1..num_ |-> data_[nodes[k]]]
cursor == IF inLoop THEN placeOf(itr_) ELSE 0

LEMMA RingKept ==
  ListInv => ring /\ Len(nodes) = num_
BY RingOfList DEF ListInv, RingIsExact, ring

LEMMA ValuesOf ==
  ListInv => /\ values \in Seq(Value) /\ Len(values) = num_
             /\ \A k \in 1..num_ : values[k] = data_[nodes[k]] /\ nodes[k] \in Nodes
<1> SUFFICES ASSUME ListInv
             PROVE  /\ values \in Seq(Value) /\ Len(values) = num_
                    /\ \A k \in 1..num_ : values[k] = data_[nodes[k]] /\ nodes[k] \in Nodes
  OBVIOUS
<1>1. num_ \in Nat /\ nodes \in [1..num_ -> Nodes] /\ data_ \in [Nodes -> Value]
  BY RingKept DEF ring, Ring, ListInv, TypeOK
<1>2. \A k \in 1..num_ : data_[nodes[k]] \in Value
  BY <1>1
<1> QED
  BY <1>1, <1>2 DEF values

LEMMA ValuesNext ==
  ASSUME ListInv'
  PROVE  /\ values' \in Seq(Value) /\ Len(values') = num_'
         /\ \A k \in 1..num_' : values'[k] = data_'[nodes'[k]] /\ nodes'[k] \in Nodes
<1>1. (ListInv => /\ values \in Seq(Value) /\ Len(values) = num_
             /\ \A k \in 1..num_ : values[k] = data_[nodes[k]] /\ nodes[k] \in Nodes)'
  BY ValuesOf, PTL
<1> QED
  BY <1>1

\* A node has one place.
LEMMA OnePlace ==
  ListInv => \A p \in 1..num_ : placeOf(nodes[p]) = p
<1> SUFFICES ASSUME ListInv, NEW p \in 1..num_
             PROVE  placeOf(nodes[p]) = p
  OBVIOUS
<1>1. \A k \in 1..num_ : nodes[k] = nodes[p] => k = p
  BY DEF ListInv, RingIsExact
<1> QED
  BY <1>1 DEF placeOf

\* Where the iterator is in a loop, and the nodes round it.
LEMMA IteratorPlaces ==
  ASSUME ListInv, inLoop
  PROVE  /\ num_ \in Nat \ {0} /\ cursor \in 1..num_ /\ cursor = placeOf(itr_)
         /\ itr_ = nodes[cursor]
         /\ prev_itr_ = nodes[preceding(cursor, num_)]
         /\ next_[itr_] = nodes[following(cursor, num_)]
         /\ preceding(cursor, num_) \in 1..num_
         /\ following(cursor, num_) \in 1..num_
<1>1. num_ \in Nat \ {0} /\ ring
  BY RingKept DEF inLoop, ring, Ring
<1>2. PICK p \in 1..num_ : nodes[p] = itr_
  BY <1>1 DEF ListInv, IteratorInRing, TypeOK, ring, Ring
<1>3. PICK q \in 1..num_ : nodes[q] = prev_itr_
  BY <1>1 DEF ListInv, IteratorInRing, TypeOK, ring, Ring
<1>4. following(p, num_) \in 1..num_ /\ following(q, num_) \in 1..num_
      /\ preceding(p, num_) \in 1..num_
  BY <1>1 DEF following, preceding
<1>5. nodes[following(q, num_)] = nodes[p]
  BY <1>1, <1>2, <1>3 DEF ListInv, IteratorInRing, ring, Ring
<1>6. following(q, num_) = p
  BY <1>1, <1>4, <1>5 DEF ring, Ring
<1>7. q = preceding(p, num_)
  BY <1>1, <1>6 DEF following, preceding
<1>8. cursor = p /\ cursor = placeOf(itr_)
  BY <1>2, OnePlace DEF cursor
<1> QED
  BY <1>1, <1>2, <1>3, <1>4, <1>7, <1>8 DEF ring, Ring

(***************************************************************************)
(* One step of each operation                                               *)
(***************************************************************************)
\* The next state keeps ListInv when its values have their types and are a ring.
LEMMA RingAgain ==
  ASSUME TypeOK', Len(nodes') = num_',
         Ring(head_', tail_', num_', next_', isAllocated', nodes'),
         IteratorInRing'
  PROVE  ListInv'
<1>1. (TypeOK => (Len(nodes) = num_ /\ Ring(head_, tail_, num_, next_, isAllocated, nodes)
               <=> RingIsExact))'
  BY RingOfList, PTL
<1> QED
  BY <1>1 DEF ListInv

\* A step that leaves the nodes alone.
sameNodes == UNCHANGED <<head_, tail_, num_, nodeVars, nodes>>

LEMMA SameNodes ==
  ASSUME ListInv, sameNodes, itr_' \in Nodes, prev_itr_' \in Nodes,
         begun' \in BOOLEAN, (result \in {<<>>} \cup {<<v>> : v \in Value})',
         IteratorInRing'
  PROVE  ListInv'
<1>1. TypeOK'
  BY DEF ListInv, TypeOK, sameNodes, nodeVars
<1>2. RingIsExact'
  BY DEF ListInv, RingIsExact, sameNodes, nodeVars
<1> QED
  BY <1>1, <1>2 DEF ListInv

LEMMA PushBackStep ==
  ASSUME ListInv, NEW v \in Value, push_back(v)
  PROVE  ListInv' /\ Abstract!PushBack(v)
<1>0. /\ N \in Nat \ {0} /\ num_ \in Nat /\ num_ <= N /\ ring /\ Len(nodes) = num_
      /\ values \in Seq(Value) /\ Len(values) = num_
      /\ \A k \in 1..num_ : values[k] = data_[nodes[k]] /\ nodes[k] \in Nodes
  BY ListAssumption, RingKept, ValuesOf DEF ListInv, TypeOK
<1>1. CASE num_ >= N
  <2>1. UNCHANGED vars
    BY <1>1 DEF push_back, vars, nodeVars, itrVars
  <2>2. ListInv'
    BY <2>1 DEF vars, ListInv, TypeOK, RingIsExact, IteratorInRing, inLoop
  <2>3. UNCHANGED <<values, cursor>> /\ ~(Len(values) < N)
    BY <1>0, <1>1, <2>1 DEF values, cursor, vars, inLoop, placeOf
  <2>4. Abstract!PushBack(v)
    BY <2>1, <2>3 DEF Abstract!PushBack, values, cursor, vars
  <2> QED
    BY <2>2, <2>4
<1>2. CASE num_ < N
  <2> DEFINE n == FreeAbove(tail_)
  <2>1. n \in Nodes /\ ~isAllocated[n]
    BY <1>2, FreeFound DEF ListInv, TypeOK
  <2>2. num_ = 0 => n = tail_
    <3> SUFFICES ASSUME num_ = 0 PROVE n = tail_
      OBVIOUS
    <3>1. ~isAllocated[tail_] /\ tail_ \in Nodes
      BY DEF ListInv, RingIsExact, TypeOK
    <3> QED
      BY <3>1, FreeItself
  <2>3. /\ data_' = [data_ EXCEPT ![n] = v]
        /\ next_' = Linked(next_, n, head_, tail_)
        /\ num_' = num_ + 1
        /\ isAllocated' = [isAllocated EXCEPT ![n] = TRUE]
        /\ tail_' = n /\ nodes' = Append(nodes, n) /\ begun' = FALSE
        /\ UNCHANGED <<head_, prev_itr_, itr_, result>>
    BY <1>0, <1>2 DEF push_back, insertNode, itrVars, Linked
  <2> HIDE DEF n
  <2>4. /\ nodes' \in Seq(Nodes) /\ Len(nodes') = num_'
        /\ nodes'[num_ + 1] = n /\ \A k \in 1..num_ : nodes'[k] = nodes[k]
    BY <1>0, <2>1, <2>3, AppendProperties DEF ListInv, TypeOK
  <2>5. /\ next_ \in [Nodes -> Nodes] /\ isAllocated \in [Nodes -> BOOLEAN]
        /\ head_ \in Nodes /\ tail_ \in Nodes /\ data_ \in [Nodes -> Value]
    BY DEF ListInv, TypeOK
  <2>6. TypeOK'
    <3>1. next_' \in [Nodes -> Nodes]
      BY <2>1, <2>3, <2>5, LinkedIs
    <3>2. data_' \in [Nodes -> Value] /\ isAllocated' \in [Nodes -> BOOLEAN]
      BY <2>1, <2>3, <2>5
    <3>3. num_' \in 0..N
      BY <1>0, <1>2, <2>3
    <3> QED
      BY <2>1, <2>3, <2>4, <3>1, <3>2, <3>3 DEF ListInv, TypeOK
  <2>7. nodes' \in [1..(num_ + 1) -> Nodes]
    BY <2>3, <2>4, LenProperties
  <2>8. Ring(head_', tail_', num_', next_', isAllocated', nodes')
    <3>1. Ring(head_, tail_, num_, next_, isAllocated, nodes)
      BY <1>0 DEF ring
    <3>2. Ring(head_, n, num_ + 1, Linked(next_, n, head_, tail_),
               [isAllocated EXCEPT ![n] = TRUE], nodes')
      BY <2>1, <2>2, <2>4, <2>5, <2>7, <3>1, RingAppend
    <3> QED
      BY <2>3, <3>2
  <2>9. IteratorInRing' /\ cursor' = 0
    BY <2>3 DEF IteratorInRing, inLoop, cursor
  <2>10. ListInv'
    BY <2>4, <2>6, <2>8, <2>9, RingAgain
  <2>11. values' = Append(values, v)
    <3>1. /\ values' \in Seq(Value) /\ Len(values') = num_'
          /\ \A k \in 1..num_' : values'[k] = data_'[nodes'[k]]
      BY <2>10, ValuesNext
    <3>2. \A k \in 1..num_ : nodes[k] # n
      BY <1>0, <2>1 DEF ring, Ring
    <3>3. \A k \in 1..num_ : values'[k] = values[k]
      BY <1>0, <2>1, <2>3, <2>4, <2>5, <2>10, <3>1, <3>2
    <3>4. values'[num_ + 1] = v
      BY <1>0, <2>1, <2>3, <2>4, <2>5, <2>10, <3>1
    <3>5. /\ Append(values, v) \in Seq(Value) /\ Len(Append(values, v)) = num_ + 1
          /\ \A k \in 1..num_ : Append(values, v)[k] = values[k]
          /\ Append(values, v)[num_ + 1] = v
      BY <1>0, AppendProperties
    <3>6. \A k \in 1..(num_ + 1) : values'[k] = Append(values, v)[k]
      <4>1. \A k \in 1..(num_ + 1) : k \in 1..num_ \/ k = num_ + 1
        BY <1>0
      <4> QED
        BY <3>3, <3>4, <3>5, <4>1
    <3> QED
      BY <2>3, <2>10, <3>1, <3>5, <3>6, SeqEqual
  <2>12. Abstract!PushBack(v)
    BY <1>0, <1>2, <2>3, <2>9, <2>11 DEF Abstract!PushBack, values, cursor
  <2> QED
    BY <2>10, <2>12
<1> QED
  BY <1>0, <1>1, <1>2

LEMMA FunctionIsSeq ==
  ASSUME NEW S, NEW n \in Nat, NEW f \in [1..n -> S]
  PROVE  f \in Seq(S) /\ Len(f) = n
OBVIOUS

LEMMA PushFrontStep ==
  ASSUME ListInv, NEW v \in Value, push_front(v)
  PROVE  ListInv' /\ Abstract!PushFront(v)
<1>0. /\ N \in Nat \ {0} /\ num_ \in Nat /\ num_ <= N /\ ring /\ Len(nodes) = num_
      /\ values \in Seq(Value) /\ Len(values) = num_
      /\ \A k \in 1..num_ : values[k] = data_[nodes[k]] /\ nodes[k] \in Nodes
  BY ListAssumption, RingKept, ValuesOf DEF ListInv, TypeOK
<1>1. CASE num_ >= N
  <2>1. UNCHANGED vars
    BY <1>1 DEF push_front, vars, nodeVars, itrVars
  <2>2. ListInv'
    BY <2>1 DEF vars, ListInv, TypeOK, RingIsExact, IteratorInRing, inLoop
  <2>3. UNCHANGED <<values, cursor>> /\ ~(Len(values) < N)
    BY <1>0, <1>1, <2>1 DEF values, cursor, vars, inLoop, placeOf
  <2>4. Abstract!PushFront(v)
    BY <2>1, <2>3 DEF Abstract!PushFront, values, cursor, vars
  <2> QED
    BY <2>2, <2>4
<1>2. CASE num_ < N
  <2> DEFINE n == FreeBelow(head_)
  <2>1. n \in Nodes /\ ~isAllocated[n]
    BY <1>2, FreeFound DEF ListInv, TypeOK
  <2>2. num_ = 0 => n = tail_
    <3> SUFFICES ASSUME num_ = 0 PROVE n = tail_
      OBVIOUS
    <3>1. ~isAllocated[head_] /\ head_ \in Nodes /\ head_ = tail_
      BY DEF ListInv, RingIsExact, TypeOK
    <3> QED
      BY <3>1, FreeItself
  <2>3. /\ data_' = [data_ EXCEPT ![n] = v]
        /\ next_' = Linked(next_, n, head_, tail_)
        /\ num_' = num_ + 1
        /\ isAllocated' = [isAllocated EXCEPT ![n] = TRUE]
        /\ head_' = n /\ nodes' = <<n>> \o nodes /\ begun' = FALSE
        /\ UNCHANGED <<tail_, prev_itr_, itr_, result>>
    BY <1>0, <1>2 DEF push_front, insertNode, itrVars, Linked
  <2> HIDE DEF n
  <2>4. /\ nodes' \in Seq(Nodes) /\ Len(nodes') = num_'
        /\ nodes'[1] = n /\ \A k \in 1..num_ : nodes'[k + 1] = nodes[k]
    <3>1. nodes \in Seq(Nodes) /\ <<n>> \in Seq(Nodes) /\ Len(<<n>>) = 1 /\ <<n>>[1] = n
      BY <2>1 DEF ListInv, TypeOK
    <3>2. /\ nodes' \in Seq(Nodes) /\ Len(nodes') = 1 + num_
          /\ \A i \in 1..(1 + num_) : nodes'[i] = IF i <= 1 THEN <<n>>[i] ELSE nodes[i - 1]
      BY <1>0, <2>3, <3>1, ConcatProperties
    <3>3. 1 \in 1..(1 + num_) /\ \A k \in 1..num_ : k + 1 \in 1..(1 + num_)
                                  /\ ~(k + 1 <= 1) /\ (k + 1) - 1 = k
      BY <1>0
    <3> QED
      BY <1>0, <2>3, <3>1, <3>2, <3>3
  <2>5. /\ next_ \in [Nodes -> Nodes] /\ isAllocated \in [Nodes -> BOOLEAN]
        /\ head_ \in Nodes /\ tail_ \in Nodes /\ data_ \in [Nodes -> Value]
    BY DEF ListInv, TypeOK
  <2>6. TypeOK'
    <3>1. next_' \in [Nodes -> Nodes]
      BY <2>1, <2>3, <2>5, LinkedIs
    <3>2. data_' \in [Nodes -> Value] /\ isAllocated' \in [Nodes -> BOOLEAN]
      BY <2>1, <2>3, <2>5
    <3>3. num_' \in 0..N
      BY <1>0, <1>2, <2>3
    <3> QED
      BY <2>1, <2>3, <2>4, <3>1, <3>2, <3>3 DEF ListInv, TypeOK
  <2>7. nodes' \in [1..(num_ + 1) -> Nodes]
    BY <2>3, <2>4, LenProperties
  <2>8. Ring(head_', tail_', num_', next_', isAllocated', nodes')
    <3>1. Ring(head_, tail_, num_, next_, isAllocated, nodes)
      BY <1>0 DEF ring
    <3>2. Ring(n, tail_, num_ + 1, Linked(next_, n, head_, tail_),
               [isAllocated EXCEPT ![n] = TRUE], nodes')
      BY <2>1, <2>2, <2>4, <2>5, <2>7, <3>1, RingPrepend
    <3> QED
      BY <2>3, <3>2
  <2>9. IteratorInRing' /\ cursor' = 0
    BY <2>3 DEF IteratorInRing, inLoop, cursor
  <2>10. ListInv'
    BY <2>4, <2>6, <2>8, <2>9, RingAgain
  <2>11. values' = <<v>> \o values
    <3>1. /\ values' \in Seq(Value) /\ Len(values') = num_ + 1
          /\ \A k \in 1..(num_ + 1) : values'[k] = data_'[nodes'[k]]
      BY <2>3, <2>10, ValuesNext
    <3>2. \A k \in 1..num_ : nodes[k] # n
      BY <1>0, <2>1 DEF ring, Ring
    <3>3. \A k \in 1..num_ : values'[k + 1] = values[k]
      <4> TAKE k \in 1..num_
      <4>1. k + 1 \in 1..(num_ + 1)
        BY <1>0
      <4>2. values'[k + 1] = data_'[nodes[k]]
        BY <2>4, <3>1, <4>1
      <4> QED
        BY <1>0, <2>1, <2>3, <2>5, <3>2, <4>2
    <3>4. values'[1] = v
      <4>1. 1 \in 1..(num_ + 1)
        BY <1>0
      <4> QED
        BY <2>1, <2>3, <2>4, <2>5, <3>1, <4>1
    <3>5. /\ <<v>> \o values \in Seq(Value) /\ Len(<<v>> \o values) = 1 + num_
          /\ \A i \in 1..(1 + num_) :
               (<<v>> \o values)[i] = IF i <= 1 THEN <<v>>[i] ELSE values[i - 1]
      <4>1. <<v>> \in Seq(Value) /\ Len(<<v>>) = 1
        OBVIOUS
      <4> QED
        BY <1>0, <4>1, ConcatProperties
    <3>6. \A k \in 1..(num_ + 1) : values'[k] = (<<v>> \o values)[k]
      <4> TAKE k \in 1..(num_ + 1)
      <4>1. CASE k = 1
        BY <1>0, <3>4, <3>5, <4>1
      <4>2. CASE k # 1
        <5>1. k - 1 \in 1..num_ /\ (k - 1) + 1 = k /\ k \in 1..(1 + num_) /\ ~(k <= 1)
          BY <1>0, <4>2
        <5>2. values'[k] = values[k - 1]
          BY <3>3, <5>1
        <5> QED
          BY <3>5, <5>1, <5>2
      <4> QED
        BY <4>1, <4>2
    <3>7. Len(values') = Len(<<v>> \o values)
      BY <1>0, <3>1, <3>5
    <3> QED
      BY <3>1, <3>5, <3>6, <3>7, SeqEqual
  <2>12. Abstract!PushFront(v)
    BY <1>0, <1>2, <2>3, <2>9, <2>11 DEF Abstract!PushFront, values, cursor
  <2> QED
    BY <2>10, <2>12
<1> QED
  BY <1>0, <1>1, <1>2

\* What the three removals do to the ring and to the values.
LEMMA TakeOut ==
  ASSUME ListInv, num_ # 0, NEW p \in 1..num_,
         num_' = num_ - 1, isAllocated' = [isAllocated EXCEPT ![nodes[p]] = FALSE],
         next_' = [next_ EXCEPT ![nodes[preceding(p, num_)]] = nodes[following(p, num_)]],
         head_' = (IF p = 1 THEN nodes[following(p, num_)] ELSE head_),
         tail_' = (IF p = num_ THEN nodes[preceding(p, num_)] ELSE tail_),
         nodes' = WithoutAt(nodes, p), UNCHANGED <<data_, prev_itr_, result>>,
         itr_' \in Nodes, begun' \in BOOLEAN
  PROVE  /\ TypeOK'
         /\ Len(nodes') = num_'
         /\ Ring(head_', tail_', num_', next_', isAllocated', nodes')
         /\ IteratorInRing' => ListInv' /\ values' = WithoutAt(values, p)
<1>0. /\ num_ \in Nat \ {0} /\ num_ <= N /\ N \in Nat
      /\ Ring(head_, tail_, num_, next_, isAllocated, nodes) /\ Len(nodes) = num_
      /\ values \in Seq(Value) /\ Len(values) = num_
      /\ \A k \in 1..num_ : values[k] = data_[nodes[k]] /\ nodes[k] \in Nodes
      /\ next_ \in [Nodes -> Nodes] /\ isAllocated \in [Nodes -> BOOLEAN]
      /\ head_ \in Nodes /\ tail_ \in Nodes /\ data_ \in [Nodes -> Value]
  BY ListAssumption, RingKept, ValuesOf DEF ListInv, TypeOK, ring
<1>1. preceding(p, num_) \in 1..num_ /\ following(p, num_) \in 1..num_
  BY <1>0 DEF preceding, following
<1> DEFINE x == nodes[p]
           b == nodes[preceding(p, num_)]
           f == nodes[following(p, num_)]
<1>2. x \in Nodes /\ b \in Nodes /\ f \in Nodes /\ next_[x] = f
  BY <1>0, <1>1 DEF Ring
<1>3. /\ (x = head_ <=> p = 1) /\ (x = tail_ <=> p = num_)
  BY <1>0 DEF Ring
<1>4. /\ nodes' = [j \in 1..(num_ - 1) |-> IF j < p THEN nodes[j] ELSE nodes[j + 1]]
      /\ nodes' \in [1..(num_ - 1) -> Nodes]
  <2>1. nodes' = [j \in 1..(num_ - 1) |-> IF j < p THEN nodes[j] ELSE nodes[j + 1]]
    BY <1>0 DEF WithoutAt
  <2>2. \A j \in 1..(num_ - 1) : j \in 1..num_ /\ j + 1 \in 1..num_
    BY <1>0
  <2>3. \A j \in 1..(num_ - 1) : nodes[j] \in Nodes /\ nodes[j + 1] \in Nodes
    BY <1>0, <2>2
  <2> QED
    BY <2>1, <2>3
<1>5. nodes' \in Seq(Nodes) /\ Len(nodes') = num_ - 1
  <2>1. num_ - 1 \in Nat
    BY <1>0
  <2> QED
    BY <1>4, <2>1, FunctionIsSeq
<1>6. TypeOK'
  <2>1. num_' \in 0..N
    BY <1>0
  <2>2. next_' \in [Nodes -> Nodes] /\ isAllocated' \in [Nodes -> BOOLEAN]
    BY <1>0, <1>2
  <2>3. head_' \in Nodes /\ tail_' \in Nodes
    BY <1>0, <1>2
  <2> QED
    BY <1>5, <2>1, <2>2, <2>3 DEF ListInv, TypeOK
<1>7. Ring(head_', tail_', num_', next_', isAllocated', nodes')
  <2>1. \A k \in 1..(num_ - 1) : nodes'[k] = IF k < p THEN nodes[k] ELSE nodes[k + 1]
    BY <1>4
  <2>2. Ring(IF nodes[p] = head_ THEN next_[nodes[p]] ELSE head_,
             IF nodes[p] = tail_ THEN b ELSE tail_, num_ - 1,
             [next_ EXCEPT ![b] = next_[nodes[p]]],
             [isAllocated EXCEPT ![nodes[p]] = FALSE], nodes')
    BY <1>0, <1>2, <1>4, <2>1, RingRemove
  <2>3. /\ head_' = (IF nodes[p] = head_ THEN next_[nodes[p]] ELSE head_)
        /\ tail_' = (IF nodes[p] = tail_ THEN b ELSE tail_)
        /\ next_' = [next_ EXCEPT ![b] = next_[nodes[p]]]
    BY <1>2, <1>3
  <2> QED
    BY <2>2, <2>3
<1>8. ASSUME IteratorInRing'
      PROVE  ListInv' /\ values' = WithoutAt(values, p)
  <2>1. ListInv'
    BY <1>5, <1>6, <1>7, <1>8, RingAgain
  <2>2. /\ values' \in Seq(Value) /\ Len(values') = num_ - 1
        /\ \A k \in 1..(num_ - 1) : values'[k] = data_[nodes'[k]]
    BY <2>1, ValuesNext
  <2>3. \A k \in 1..(num_ - 1) :
          values'[k] = IF k < p THEN values[k] ELSE values[k + 1]
    <3> TAKE k \in 1..(num_ - 1)
    <3>1. k \in 1..num_ /\ k + 1 \in 1..num_
      BY <1>0
    <3> QED
      BY <1>0, <1>4, <2>2, <3>1
  <2>4. values' = [k \in 1..(num_ - 1) |-> values'[k]]
    BY <2>2, LenProperties
  <2>5. WithoutAt(values, p)
          = [k \in 1..(num_ - 1) |-> IF k < p THEN values[k] ELSE values[k + 1]]
    BY <1>0 DEF WithoutAt
  <2> HIDE DEF values
  <2>6. values' = WithoutAt(values, p)
    BY <2>3, <2>4, <2>5
  <2> QED
    BY <2>1, <2>6
<1> QED
  BY <1>5, <1>6, <1>7, <1>8

\* To take the first or the last of a sequence.
LEMMA WithoutEnds ==
  ASSUME NEW S, NEW s \in Seq(S), Len(s) # 0
  PROVE  /\ Tail(s) = WithoutAt(s, 1)
         /\ SubSeq(s, 1, Len(s) - 1) = WithoutAt(s, Len(s))
<1>0. Len(s) \in Nat \ {0} /\ s # <<>>
  OBVIOUS
<1>1. Tail(s) = WithoutAt(s, 1)
  <2>1. \A k \in 1..(Len(s) - 1) : ~(k < 1)
    OBVIOUS
  <2>2. WithoutAt(s, 1) = [k \in 1..(Len(s) - 1) |-> s[k + 1]]
    BY <2>1 DEF WithoutAt
  <2>3. /\ Tail(s) \in Seq(S) /\ Len(Tail(s)) = Len(s) - 1
        /\ \A k \in 1..(Len(s) - 1) : Tail(s)[k] = s[k + 1]
    BY <1>0, HeadTailProperties
  <2>4. Tail(s) = [k \in 1..(Len(s) - 1) |-> Tail(s)[k]]
    BY <2>3, LenProperties
  <2> QED
    BY <2>2, <2>3, <2>4
<1>2. SubSeq(s, 1, Len(s) - 1) = WithoutAt(s, Len(s))
  <2> DEFINE w == SubSeq(s, 1, Len(s) - 1)
  <2>1. \A k \in 1..(Len(s) - 1) : k < Len(s)
    BY <1>0
  <2>2. WithoutAt(s, Len(s)) = [k \in 1..(Len(s) - 1) |-> s[k]]
    BY <2>1 DEF WithoutAt
  <2>3. /\ w \in Seq(S) /\ Len(w) = Len(s) - 1
        /\ \A k \in 1..(Len(s) - 1) : w[k] = s[k]
    <3>1. \A k \in 1..(Len(s) - 1) : s[k] \in S
      BY <1>0, ElementOfSeq
    <3>2. /\ w \in Seq(S)
          /\ Len(w) = IF 1 <= Len(s) - 1 THEN (Len(s) - 1) - 1 + 1 ELSE 0
          /\ \A k \in 1..((Len(s) - 1) - 1 + 1) : w[k] = s[1 + k - 1]
      BY <1>0, <3>1, SubSeqProperties
    <3> HIDE DEF w
    <3>3. Len(w) = Len(s) - 1 /\ (Len(s) - 1) - 1 + 1 = Len(s) - 1
      <4>1. \A l \in Nat \ {0} : /\ (l - 1) - 1 + 1 = l - 1
                                 /\ l - 1 = IF 1 <= l - 1 THEN (l - 1) - 1 + 1 ELSE 0
        OBVIOUS
      <4> QED
        BY <1>0, <3>2, <4>1
    <3>4. \A k \in 1..(Len(s) - 1) : 1 + k - 1 = k
      OBVIOUS
    <3> QED
      BY <3>2, <3>3, <3>4
  <2>4. w = [k \in 1..(Len(s) - 1) |-> w[k]]
    BY <2>3, LenProperties
  <2> HIDE DEF w
  <2>5. w = WithoutAt(s, Len(s))
    BY <2>2, <2>3, <2>4
  <2> QED
    BY <2>5 DEF w
<1> QED
  BY <1>1, <1>2

\* The list has the same end nodes however it is looked at.
LEMMA EndNodes ==
  ASSUME ListInv, num_ # 0
  PROVE  /\ num_ \in Nat \ {0} /\ 1 \in 1..num_ /\ num_ \in 1..num_
         /\ head_ = nodes[1] /\ tail_ = nodes[num_]
         /\ next_[head_] = nodes[following(1, num_)]
         /\ head_ \in Nodes /\ tail_ \in Nodes
         /\ nodes \in Seq(Nodes) /\ Len(nodes) = num_
         /\ values \in Seq(Value) /\ Len(values) = num_
BY RingKept, ValuesOf DEF ring, Ring, ListInv, TypeOK

LEMMA PopFrontStep ==
  ASSUME ListInv, pop_front
  PROVE  ListInv' /\ Abstract!PopFront
<1>1. CASE num_ = 0
  <2>1. UNCHANGED vars
    BY <1>1 DEF pop_front, vars, nodeVars, itrVars
  <2>2. ListInv'
    BY <2>1 DEF vars, ListInv, TypeOK, RingIsExact, IteratorInRing, inLoop
  <2>3. UNCHANGED <<values, cursor>> /\ values = <<>>
    BY <1>1, <2>1, ValuesOf DEF values, cursor, vars, inLoop, placeOf
  <2>4. Abstract!PopFront
    BY <2>1, <2>3 DEF Abstract!PopFront, values, cursor, vars
  <2> QED
    BY <2>2, <2>4
<1>2. CASE num_ # 0
  <2>1. /\ num_' = num_ - 1 /\ isAllocated' = [isAllocated EXCEPT ![head_] = FALSE]
        /\ head_' = next_[head_] /\ next_' = [next_ EXCEPT ![tail_] = next_[head_]]
        /\ nodes' = Tail(nodes) /\ begun' = FALSE
        /\ UNCHANGED <<tail_, data_, prev_itr_, itr_, result>>
    BY <1>2 DEF pop_front, itrVars
  <2>2. preceding(1, num_) = num_ /\ (1 = num_ => tail_ = nodes[1])
    BY <1>2, EndNodes DEF preceding
  <2>3. Tail(nodes) = WithoutAt(nodes, 1) /\ Tail(values) = WithoutAt(values, 1)
    BY <1>2, EndNodes, WithoutEnds
  <2>4. IteratorInRing' /\ cursor' = 0
    BY <2>1 DEF IteratorInRing, inLoop, cursor
  <2>5. itr_' \in Nodes
    BY <2>1 DEF ListInv, TypeOK
  <2>6. ListInv' /\ values' = WithoutAt(values, 1)
    BY <1>2, <2>1, <2>2, <2>3, <2>4, <2>5, EndNodes, TakeOut
  <2>7. values # <<>>
    BY <1>2, EndNodes
  <2>8. Abstract!PopFront
    BY <2>1, <2>3, <2>4, <2>6, <2>7 DEF Abstract!PopFront, values, cursor
  <2> QED
    BY <2>6, <2>8
<1> QED
  BY <1>1, <1>2

LEMMA PopBackStep ==
  ASSUME ListInv, pop_back
  PROVE  ListInv' /\ Abstract!PopBack
<1>1. CASE num_ = 0
  <2>1. UNCHANGED vars
    BY <1>1 DEF pop_back, vars, nodeVars, itrVars
  <2>2. ListInv'
    BY <2>1 DEF vars, ListInv, TypeOK, RingIsExact, IteratorInRing, inLoop
  <2>3. UNCHANGED <<values, cursor>> /\ values = <<>>
    BY <1>1, <2>1, ValuesOf DEF values, cursor, vars, inLoop, placeOf
  <2>4. Abstract!PopBack
    BY <2>1, <2>3 DEF Abstract!PopBack, values, cursor, vars
  <2> QED
    BY <2>2, <2>4
<1>2. CASE num_ # 0
  <2> DEFINE prev == CHOOSE n \in Nodes : isAllocated[n] /\ next_[n] = tail_
             q == preceding(num_, num_)
  <2>1. q \in 1..num_ /\ following(q, num_) = num_ /\ nodes[q] \in Nodes
        /\ following(num_, num_) = 1
    BY <1>2, EndNodes, ElementOfSeq DEF preceding, following
  <2>2. isAllocated[nodes[q]] /\ next_[nodes[q]] = tail_
    BY <1>2, <2>1, EndNodes, RingKept DEF ring, Ring
  <2>3. \A n \in Nodes : isAllocated[n] /\ next_[n] = tail_ => n = nodes[q]
    <3> TAKE n \in Nodes
    <3> HAVE isAllocated[n] /\ next_[n] = tail_
    <3>1. PICK k \in 1..num_ : nodes[k] = n
      BY RingKept DEF ring, Ring
    <3>2. following(k, num_) \in 1..num_
      BY <1>2, EndNodes DEF following
    <3>3. nodes[following(k, num_)] = nodes[num_]
      BY <1>2, <3>1, EndNodes, RingKept DEF ring, Ring
    <3>4. following(k, num_) = num_
      BY <1>2, <3>2, <3>3, EndNodes, RingKept DEF ring, Ring
    <3>5. k = q
      BY <1>2, <3>4, EndNodes DEF following, preceding
    <3> QED
      BY <3>1, <3>5
  <2>4. prev = nodes[q]
    BY <2>1, <2>2, <2>3
  <2>5. /\ num_' = num_ - 1 /\ isAllocated' = [isAllocated EXCEPT ![tail_] = FALSE]
        /\ tail_' = prev /\ next_' = [next_ EXCEPT ![prev] = head_]
        /\ nodes' = SubSeq(nodes, 1, Len(nodes) - 1) /\ begun' = FALSE
        /\ UNCHANGED <<head_, data_, prev_itr_, itr_, result>>
    BY <1>2 DEF pop_back, itrVars
  <2> HIDE DEF prev, q
  <2>6. /\ SubSeq(nodes, 1, Len(nodes) - 1) = WithoutAt(nodes, num_)
        /\ SubSeq(values, 1, Len(values) - 1) = WithoutAt(values, num_)
    BY <1>2, EndNodes, WithoutEnds
  <2>7. IteratorInRing' /\ cursor' = 0
    BY <2>5 DEF IteratorInRing, inLoop, cursor
  <2>8. itr_' \in Nodes
    BY <2>5 DEF ListInv, TypeOK
  <2>9. /\ next_' = [next_ EXCEPT ![nodes[preceding(num_, num_)]]
                                   = nodes[following(num_, num_)]]
        /\ tail_' = nodes[preceding(num_, num_)]
        /\ head_' = IF num_ = 1 THEN nodes[following(num_, num_)] ELSE head_
        /\ isAllocated' = [isAllocated EXCEPT ![nodes[num_]] = FALSE]
    BY <1>2, <2>1, <2>4, <2>5, EndNodes DEF q
  <2>10. ListInv' /\ values' = WithoutAt(values, num_)
    BY <1>2, <2>5, <2>6, <2>7, <2>8, <2>9, EndNodes, TakeOut
  <2>11. values # <<>>
    BY <1>2, EndNodes
  <2>12. Abstract!PopBack
    BY <2>5, <2>6, <2>7, <2>10, <2>11 DEF Abstract!PopBack, values, cursor
  <2> QED
    BY <2>10, <2>12
<1> QED
  BY <1>1, <1>2

LEMMA BeginStep ==
  ASSUME ListInv, begin
  PROVE  ListInv' /\ Abstract!Begin
<1>1. /\ itr_' = head_ /\ prev_itr_' = tail_ /\ begun' = TRUE
      /\ UNCHANGED <<head_, tail_, num_, next_, data_, isAllocated, result, nodes>>
  BY DEF begin, nodeVars
<1>2. IteratorInRing'
  <2> SUFFICES ASSUME num_ # 0
               PROVE  isAllocated[head_] /\ isAllocated[tail_] /\ next_[tail_] = head_
    BY <1>1 DEF IteratorInRing, inLoop
  <2>1. following(num_, num_) = 1
    BY DEF following
  <2> QED
    BY <2>1, EndNodes, RingKept DEF ring, Ring
<1>3. ListInv'
  BY <1>1, <1>2, SameNodes DEF sameNodes, nodeVars, ListInv, TypeOK
<1>4. values' = values
  BY <1>1 DEF values
<1>5. cursor' = IF values = <<>> THEN 0 ELSE 1
  <2>1. CASE num_ = 0
    BY <1>1, <2>1, ValuesOf DEF cursor, inLoop
  <2>2. CASE num_ # 0
    <3>1. cursor' = placeOf(head_)
      BY <1>1, <2>2 DEF cursor, inLoop, placeOf
    <3>2. placeOf(head_) = 1 /\ values # <<>>
      BY <2>2, EndNodes, OnePlace
    <3> QED
      BY <3>1, <3>2
  <2> QED
    BY <2>1, <2>2
<1> QED
  BY <1>1, <1>3, <1>4, <1>5 DEF Abstract!Begin, values, cursor

LEMMA IncrementStep ==
  ASSUME ListInv, increment
  PROVE  ListInv' /\ Abstract!Advance
<1>1. /\ inLoop /\ prev_itr_' = itr_ /\ itr_' = next_[itr_]
      /\ UNCHANGED <<head_, tail_, num_, next_, data_, isAllocated, result, nodes, begun>>
  BY DEF increment, nodeVars
<1> DEFINE f == following(cursor, num_)
<1>2. f \in 1..num_ /\ next_[itr_] = nodes[f] /\ cursor \in 1..num_ /\ num_ \in Nat \ {0}
  BY <1>1, IteratorPlaces
<1>3. isAllocated[itr_] /\ itr_ \in Nodes
  BY <1>1 DEF ListInv, IteratorInRing, TypeOK
<1>4. isAllocated[nodes[f]] /\ nodes[f] \in Nodes
  BY <1>2, RingKept DEF ring, Ring
<1> HIDE DEF f
<1>5. ListInv'
  <2>1. IteratorInRing'
    BY <1>1, <1>2, <1>3, <1>4 DEF IteratorInRing, inLoop
  <2> QED
    BY <1>1, <1>2, <1>3, <1>4, <2>1, SameNodes DEF sameNodes, nodeVars, ListInv, TypeOK
<1>6. values' = values
  BY <1>1 DEF values
<1>7. cursor' = f
  <2>1. cursor' = placeOf(nodes[f])
    BY <1>1, <1>2 DEF cursor, inLoop, placeOf
  <2> QED
    BY <1>2, <2>1, OnePlace
<1>8. f = (cursor % Len(values)) + 1 /\ cursor # 0
  <2>1. (cursor % num_) + 1 = IF cursor = num_ THEN 1 ELSE cursor + 1
    BY <1>2, OneRound
  <2>2. Len(values) = num_
    BY ValuesOf
  <2> QED
    BY <1>2, <2>1, <2>2 DEF following, f
<1> QED
  BY <1>1, <1>5, <1>6, <1>7, <1>8 DEF Abstract!Advance, values, cursor

LEMMA ReadStep ==
  ASSUME ListInv, front \/ back \/ deref
  PROVE  ListInv' /\ (Abstract!ReadFront \/ Abstract!ReadBack \/ Abstract!ReadCursor)
<1>1. /\ UNCHANGED <<head_, tail_, num_, next_, data_, isAllocated, prev_itr_, itr_,
                     nodes, begun>>
      /\ num_ # 0
  BY DEF front, back, deref, inLoop, nodeVars, itrVars
<1>2. /\ num_ \in Nat \ {0} /\ head_ = nodes[1] /\ tail_ = nodes[num_]
      /\ 1 \in 1..num_ /\ num_ \in 1..num_ /\ Len(values) = num_ /\ values \in Seq(Value)
      /\ data_ \in [Nodes -> Value] /\ head_ \in Nodes /\ tail_ \in Nodes /\ itr_ \in Nodes
  BY <1>1, EndNodes DEF ListInv, TypeOK
<1>3. values' = values /\ cursor' = cursor
  BY <1>1 DEF values, cursor, inLoop, placeOf
<1>4. ASSUME NEW v \in Value, result' = <<v>>
      PROVE  ListInv'
  <2>1. IteratorInRing'
    BY <1>1 DEF ListInv, IteratorInRing, inLoop
  <2> QED
    BY <1>1, <1>4, <2>1, SameNodes DEF sameNodes, nodeVars, ListInv, TypeOK
<1>5. CASE front
  <2>1. result' = <<data_[head_]>> /\ data_[head_] \in Value
    BY <1>2, <1>5 DEF front
  <2>2. values[1] = data_[head_] /\ Head(values) = values[1] /\ values # <<>>
    BY <1>2, ValuesOf
  <2>3. Abstract!ReadFront
    BY <1>3, <2>1, <2>2 DEF Abstract!ReadFront, values, cursor
  <2> QED
    BY <1>4, <2>1, <2>3
<1>6. CASE back
  <2>1. result' = <<data_[tail_]>> /\ data_[tail_] \in Value
    BY <1>2, <1>6 DEF back
  <2>2. values[Len(values)] = data_[tail_] /\ values # <<>>
    BY <1>2, ValuesOf
  <2>3. Abstract!ReadBack
    BY <1>3, <2>1, <2>2 DEF Abstract!ReadBack, values, cursor
  <2> QED
    BY <1>4, <2>1, <2>3
<1>7. CASE deref
  <2>1. result' = <<data_[itr_]>> /\ data_[itr_] \in Value /\ inLoop
    BY <1>2, <1>7 DEF deref
  <2>2. values[cursor] = data_[itr_] /\ cursor # 0
    BY <2>1, IteratorPlaces, ValuesOf
  <2>3. Abstract!ReadCursor
    BY <1>3, <2>1, <2>2 DEF Abstract!ReadCursor, values, cursor
  <2> QED
    BY <1>4, <2>1, <2>3
<1> QED
  BY <1>5, <1>6, <1>7

LEMMA CursorPlace ==
  ListInv /\ inLoop => cursor \in 1..num_ /\ itr_ = nodes[cursor]
BY IteratorPlaces

LEMMA RemoveStep ==
  ASSUME ListInv, remove
  PROVE  ListInv' /\ Abstract!Remove
<1> DEFINE p == cursor
<1>1. /\ num_ \in Nat \ {0} /\ p \in 1..num_ /\ p = placeOf(itr_) /\ itr_ = nodes[p]
      /\ prev_itr_ = nodes[preceding(p, num_)] /\ next_[itr_] = nodes[following(p, num_)]
      /\ preceding(p, num_) \in 1..num_ /\ following(p, num_) \in 1..num_
      /\ inLoop
  BY IteratorPlaces DEF remove
<1>2. /\ (itr_ = head_ <=> p = 1) /\ (itr_ = tail_ <=> p = num_)
  BY <1>1, EndNodes, RingKept DEF ring, Ring
<1>3. /\ head_' = (IF itr_ = head_ THEN next_[itr_] ELSE head_)
      /\ tail_' = (IF itr_ = tail_ THEN prev_itr_ ELSE tail_)
      /\ next_' = [next_ EXCEPT ![prev_itr_] = next_[itr_]]
      /\ num_' = num_ - 1
      /\ isAllocated' = [isAllocated EXCEPT ![itr_] = FALSE]
      /\ itr_' = next_[itr_]
      /\ nodes' = WithoutAt(nodes, placeOf(itr_))
      /\ UNCHANGED <<data_, prev_itr_, result, begun>>
  BY DEF remove
<1>4. itr_' \in Nodes /\ begun' \in BOOLEAN
  BY <1>3 DEF ListInv, TypeOK
<1> HIDE DEF p
<1>5. /\ TypeOK' /\ Len(nodes') = num_'
      /\ Ring(head_', tail_', num_', next_', isAllocated', nodes')
      /\ IteratorInRing' => ListInv' /\ values' = WithoutAt(values, p)
  BY <1>1, <1>2, <1>3, <1>4, TakeOut
<1>6. num_ # 1 => prev_itr_ # itr_ /\ next_[itr_] # itr_
  <2>1. num_ # 1 => preceding(p, num_) # p /\ following(p, num_) # p
    BY <1>1 DEF preceding, following
  <2>2. \A j, k \in 1..num_ : nodes[j] = nodes[k] => j = k
    BY RingKept DEF ring, Ring
  <2> QED
    BY <1>1, <2>1, <2>2
<1>7. /\ itr_ \in Nodes /\ prev_itr_ \in Nodes /\ next_[itr_] \in Nodes
      /\ isAllocated[prev_itr_] /\ isAllocated[next_[itr_]]
      /\ next_ \in [Nodes -> Nodes] /\ isAllocated \in [Nodes -> BOOLEAN]
  BY <1>1, RingKept DEF ring, Ring, ListInv, TypeOK
<1>8. IteratorInRing'
  <2> SUFFICES ASSUME num_' # 0
               PROVE  isAllocated'[itr_'] /\ isAllocated'[prev_itr_'] /\ next_'[prev_itr_'] = itr_'
    BY DEF IteratorInRing, inLoop
  <2>1. num_ # 1
    BY <1>1, <1>3
  <2> QED
    BY <1>3, <1>6, <1>7, <2>1
<1>9. ListInv' /\ values' = WithoutAt(values, p)
  BY <1>5, <1>8
<1>10. cursor' = IF num_ = 1 THEN 0 ELSE IF p = num_ THEN 1 ELSE p
  <2>1. CASE num_ = 1
    BY <1>3, <2>1 DEF cursor, inLoop
  <2>2. CASE num_ # 1
    <3> DEFINE q == IF p = num_ THEN 1 ELSE p
    <3>1. q \in 1..num_'
      BY <1>1, <1>3, <2>2
    <3>2. nodes' = [j \in 1..(num_ - 1) |-> IF j < p THEN nodes[j] ELSE nodes[j + 1]]
      BY <1>1, <1>3, EndNodes DEF WithoutAt
    <3>3. nodes'[q] = nodes[following(p, num_)]
      BY <1>1, <1>3, <2>2, <3>1, <3>2 DEF following
    <3>4. inLoop'
      BY <1>1, <1>3, <2>2 DEF inLoop
    <3>5. (ListInv /\ inLoop => cursor \in 1..num_ /\ itr_ = nodes[cursor])'
      BY CursorPlace, PTL
    <3>6. \A j, k \in 1..num_' : nodes'[j] = nodes'[k] => j = k
      BY <1>9 DEF ListInv, RingIsExact
    <3>7. nodes'[cursor'] = nodes'[q] /\ cursor' \in 1..num_'
      BY <1>1, <1>3, <1>9, <3>3, <3>4, <3>5
    <3> HIDE DEF q
    <3>8. cursor' = q
      BY <3>1, <3>6, <3>7
    <3> QED
      BY <2>2, <3>8 DEF q
  <2> QED
    BY <2>1, <2>2
<1>11. Len(values) = num_ /\ p # 0
  BY <1>1, ValuesOf
<1>12. Abstract!WithoutAt(values, p) = WithoutAt(values, p)
  BY DEF Abstract!WithoutAt, WithoutAt
<1>13. /\ cursor # 0 /\ values' = Abstract!WithoutAt(values, cursor)
       /\ cursor' = IF Len(values) = 1 THEN 0 ELSE IF cursor = Len(values) THEN 1 ELSE cursor
       /\ UNCHANGED result
  BY <1>3, <1>9, <1>10, <1>11, <1>12 DEF p
<1> QED
  BY <1>9, <1>13 DEF Abstract!Remove, values, cursor

(***************************************************************************)
(* The specification                                                        *)
(***************************************************************************)
LEMMA ListNext ==
  ASSUME ListInv, [Next]_vars
  PROVE  ListInv' /\ [Abstract!Next]_(Abstract!absVars)
<1>1. ASSUME NEW v \in Value, push_back(v)
      PROVE  ListInv' /\ Abstract!Next
  BY <1>1, PushBackStep DEF Abstract!Next
<1>2. ASSUME NEW v \in Value, push_front(v)
      PROVE  ListInv' /\ Abstract!Next
  BY <1>2, PushFrontStep DEF Abstract!Next
<1>3. CASE pop_front
  BY <1>3, PopFrontStep DEF Abstract!Next
<1>4. CASE pop_back
  BY <1>4, PopBackStep DEF Abstract!Next
<1>5. CASE front \/ back \/ deref
  BY <1>5, ReadStep DEF Abstract!Next
<1>6. CASE begin
  BY <1>6, BeginStep DEF Abstract!Next
<1>7. CASE increment
  BY <1>7, IncrementStep DEF Abstract!Next
<1>8. CASE remove
  BY <1>8, RemoveStep DEF Abstract!Next
<1>9. CASE UNCHANGED vars
  <2>1. ListInv'
    BY <1>9 DEF vars, ListInv, TypeOK, RingIsExact, IteratorInRing, inLoop
  <2>2. UNCHANGED Abstract!absVars
    BY <1>9 DEF vars, Abstract!absVars, inLoop, placeOf
  <2> QED
    BY <2>1, <2>2
<1> QED
  BY <1>1, <1>2, <1>3, <1>4, <1>5, <1>6, <1>7, <1>8, <1>9 DEF Next

LEMMA ListInvariance == Spec => []ListInv
<1>1. ListInv /\ [Next]_vars => ListInv'
  BY ListNext
<1> QED
  BY InitInv, <1>1, PTL DEF Spec

\* Every index stays in the array, however the list goes round it.
THEOREM ListTyped == Spec => []TypeOK
<1>1. ListInv => TypeOK
  BY DEF ListInv
<1> QED
  BY ListInvariance, <1>1, PTL

\* The nodes in use are one ring of num_ nodes from head_ to tail_, for every
\* size of the array and after any sequence of the operations of list.h.
THEOREM RingStaysExact == Spec => []RingIsExact
<1>1. ListInv => RingIsExact
  BY DEF ListInv
<1> QED
  BY ListInvariance, <1>1, PTL

\* In a loop the iterator and the node before it stay neighbours in the ring,
\* so that remove mends it.
THEOREM IteratorStaysInRing == Spec => []IteratorInRing
<1>1. ListInv => IteratorInRing
  BY DEF ListInv
<1> QED
  BY ListInvariance, <1>1, PTL

\* List<T, N> is the bounded sequence with a cursor that its users take it for:
\* every operation is that of BoundedList on the values, front first.
THEOREM ListIsSequence == Spec => IsBoundedList
<1>1. Init => Abstract!Init
  <2> SUFFICES ASSUME Init PROVE Abstract!Init
    OBVIOUS
  <2>1. num_ = 0 /\ ~inLoop /\ result = <<>>
    BY DEF Init, inLoop
  <2>2. values = <<>> /\ cursor = 0
    BY <2>1, InitInv, ValuesOf DEF cursor
  <2> QED
    BY <2>1, <2>2 DEF Abstract!Init, values, cursor
<1>2. ListInv /\ [Next]_vars => [Abstract!Next]_(Abstract!absVars)
  BY ListNext
<1> QED
  BY <1>1, <1>2, ListInvariance, PTL DEF Spec, IsBoundedList, Abstract!Spec

(***************************************************************************)
(* The free nodes between the last node and another                         *)
(***************************************************************************)
gap(n, t) == (n + N - t - 1) % N
FreeBetween(n, t, al) == {d \in 1..gap(n, t) : ~al[(t + d) % N]}

LEMMA RoundOnce ==
  ASSUME NEW x \in 0..(2 * N - 1)
  PROVE  x % N = (IF x < N THEN x ELSE x - N) /\ x % N \in Nodes
<1>0. N \in Nat \ {0} /\ Nodes = 0..(N - 1)
  BY ListAssumption DEF Nodes
<1>1. CASE x < N
  <2>1. x \in Nodes
    BY <1>0, <1>1
  <2> QED
    BY <1>1, <2>1, NodeOf
<1>2. CASE ~(x < N)
  <2>1. x - N \in Nodes /\ (x - N) + N = x
    BY <1>0, <1>2
  <2>2. x % N = x - N
    BY <2>1, NodeOf
  <2> QED
    BY <1>2, <2>1, <2>2
<1> QED
  BY <1>1, <1>2

LEMMA GapIs ==
  ASSUME NEW n \in Nodes, NEW t \in Nodes
  PROVE  /\ gap(n, t) = IF n > t THEN n - t - 1 ELSE n + N - t - 1
         /\ gap(n, t) \in 0..(N - 1)
         /\ \A d \in 0..(N - 1) : /\ (t + d) % N = IF t + d < N THEN t + d ELSE t + d - N
                                  /\ (t + d) % N \in Nodes
<1>0. N \in Nat \ {0} /\ n \in 0..(N - 1) /\ t \in 0..(N - 1)
  BY ListAssumption DEF Nodes
<1>1. /\ n + N - t - 1 \in 0..(2 * N - 1)
      /\ \A d \in 0..(N - 1) : t + d \in 0..(2 * N - 1)
  BY <1>0
<1>2. gap(n, t) = IF n + N - t - 1 < N THEN n + N - t - 1 ELSE n + N - t - 1 - N
  <2> DEFINE x == n + N - t - 1
  <2>1. x \in 0..(2 * N - 1)
    BY <1>1
  <2> HIDE DEF x
  <2>2. x % N = IF x < N THEN x ELSE x - N
    BY <2>1, RoundOnce
  <2> QED
    BY <1>0, <2>2 DEF x, gap
<1>3. \A d \in 0..(N - 1) : /\ (t + d) % N = IF t + d < N THEN t + d ELSE t + d - N
                            /\ (t + d) % N \in Nodes
  <2> TAKE d \in 0..(N - 1)
  <2> DEFINE x == t + d
  <2>1. x \in 0..(2 * N - 1)
    BY <1>1
  <2> HIDE DEF x
  <2>2. x % N = (IF x < N THEN x ELSE x - N) /\ x % N \in Nodes
    BY <2>1, RoundOnce
  <2> QED
    BY <1>0, <2>2 DEF x
<1> QED
  BY <1>0, <1>2, <1>3

LEMMA FreeBetweenIsFinite ==
  ASSUME NEW n \in Nodes, NEW t \in Nodes, NEW al
  PROVE  IsFiniteSet(FreeBetween(n, t, al)) /\ Cardinality(FreeBetween(n, t, al)) \in Nat
<1>0. gap(n, t) \in Int /\ 1 \in Int
  BY GapIs, ListAssumption
<1>1. IsFiniteSet(1..gap(n, t))
  BY <1>0, FS_Interval
<1>2. FreeBetween(n, t, al) \in SUBSET (1..gap(n, t))
  BY DEF FreeBetween
<1> QED
  BY <1>1, <1>2, FS_Subset, FS_CardinalityType

\* Freeing nodes leaves at least as many.
LEMMA MoreFree ==
  ASSUME NEW n \in Nodes, NEW t \in Nodes, NEW al, NEW al2,
         \A m \in Nodes : ~al[m] => ~al2[m]
  PROVE  Cardinality(FreeBetween(n, t, al)) <= Cardinality(FreeBetween(n, t, al2))
<1>1. \A d \in 1..gap(n, t) : d \in 0..(N - 1)
  BY GapIs, ListAssumption
<1>2. FreeBetween(n, t, al) \in SUBSET FreeBetween(n, t, al2)
  BY <1>1, GapIs DEF FreeBetween
<1> QED
  BY <1>2, FreeBetweenIsFinite, FS_Subset

\* A push into the first free node above t takes one of those between t and n,
\* if there is one.
LEMMA OneLess ==
  ASSUME NEW n \in Nodes, NEW t \in Nodes, NEW al \in [Nodes -> BOOLEAN],
         NEW d0 \in 1..(N - 1), NEW f, f = (t + d0) % N, ~al[f],
         \A e \in Nodes : ~al[(t + e) % N] => d0 <= e,
         Cardinality(FreeBetween(n, t, al)) >= 1
  PROVE  /\ f # n
         /\ Cardinality(FreeBetween(n, t, al)) - 1
              <= Cardinality(FreeBetween(n, f, [al EXCEPT ![f] = TRUE]))
<1> DEFINE S == FreeBetween(n, t, al)
           al2 == [al EXCEPT ![f] = TRUE]
           T == FreeBetween(n, f, al2)
           g == gap(n, t)
<1>0. /\ N \in Nat \ {0} /\ n \in 0..(N - 1) /\ t \in 0..(N - 1) /\ Nodes = 0..(N - 1)
      /\ g = (IF n > t THEN n - t - 1 ELSE n + N - t - 1) /\ g \in 0..(N - 1)
      /\ f = (IF t + d0 < N THEN t + d0 ELSE t + d0 - N) /\ f \in Nodes
  <2>1. N \in Nat \ {0} /\ Nodes = 0..(N - 1) /\ d0 \in 0..(N - 1)
    BY ListAssumption DEF Nodes
  <2>2. /\ g = (IF n > t THEN n - t - 1 ELSE n + N - t - 1) /\ g \in 0..(N - 1)
    BY GapIs
  <2>3. (t + d0) % N = (IF t + d0 < N THEN t + d0 ELSE t + d0 - N) /\ (t + d0) % N \in Nodes
    BY <2>1, GapIs
  <2> HIDE DEF g
  <2> QED
    BY <2>1, <2>2, <2>3
<1>1. IsFiniteSet(S) /\ IsFiniteSet(T) /\ Cardinality(S) \in Nat /\ Cardinality(T) \in Nat
  BY <1>0, FreeBetweenIsFinite
<1>2. PICK d \in S : TRUE
  BY <1>1, FS_EmptySet
<1>3. d \in 1..g /\ ~al[(t + d) % N]
  BY <1>2 DEF FreeBetween
<1>4. d0 <= d /\ d0 <= g
  BY <1>0, <1>3
<1>5. f # n
  BY <1>0, <1>4
<1>6. gap(n, f) = g - d0
  <2>1. gap(n, f) = IF n > f THEN n - f - 1 ELSE n + N - f - 1
    BY <1>0, GapIs
  <2> HIDE DEF g
  <2> QED
    BY <1>0, <1>4, <1>5, <2>1
<1>7. \A e \in S : d0 <= e
  BY <1>0 DEF FreeBetween
<1>8. ASSUME NEW e \in S \ {d0}
      PROVE  e - d0 \in T
  <2>1. e \in (d0 + 1)..g /\ ~al[(t + e) % N]
    BY <1>0, <1>7 DEF FreeBetween
  <2>2. e - d0 \in 1..(g - d0) /\ e - d0 \in 0..(N - 1) /\ e \in 0..(N - 1)
    BY <1>0, <2>1
  <2>3. (f + (e - d0)) % N = IF f + (e - d0) < N THEN f + (e - d0) ELSE (f + (e - d0)) - N
    <3> DEFINE y == f + (e - d0)
    <3>1. y \in 0..(2 * N - 1)
      BY <1>0, <2>2
    <3> HIDE DEF y
    <3>2. y % N = IF y < N THEN y ELSE y - N
      BY <3>1, RoundOnce
    <3> QED
      BY <3>2 DEF y
  <2>4. (t + e) % N = IF t + e < N THEN t + e ELSE t + e - N
    BY <2>2, GapIs
  <2>5. (f + (e - d0)) % N = (t + e) % N /\ (t + e) % N # f /\ (t + e) % N \in Nodes
    <3>1. (IF f + (e - d0) < N THEN f + (e - d0) ELSE (f + (e - d0)) - N)
            = (IF t + e < N THEN t + e ELSE t + e - N)
      <4>1. CASE t + d0 < N
        BY SMTT(30), <1>0, <2>1, <2>2, <4>1
      <4>2. CASE ~(t + d0 < N)
        <5>1. f = t + d0 - N /\ ~(t + e < N)
          BY <1>0, <2>1, <4>2
        <5>2. f + (e - d0) = t + e - N /\ f + (e - d0) < N
          BY SMTT(30), <1>0, <2>1, <2>2, <5>1
        <5> QED
          BY <5>1, <5>2
      <4> QED
        BY <4>1, <4>2
    <3>2. (t + e) % N # f
      BY <1>0, <2>1, <2>2, <2>4
    <3>3. (t + e) % N \in Nodes
      BY <1>0, <2>2, GapIs
    <3> QED
      BY <2>3, <2>4, <3>1, <3>2, <3>3
  <2>6. ~al2[(f + (e - d0)) % N]
    BY <2>1, <2>5
  <2> QED
    BY <1>6, <2>2, <2>6 DEF FreeBetween
<1> DEFINE down == [e \in S \ {d0} |-> e - d0]
<1>9. down \in Injection(S \ {d0}, T)
  <2>1. down \in [S \ {d0} -> T]
    BY <1>8
  <2>2. \A e \in S \ {d0} : e \in Int
    BY DEF FreeBetween
  <2>3. \A a, b \in S \ {d0} : down[a] = down[b] => a = b
    BY <2>2
  <2> HIDE DEF S, T, down
  <2> QED
    BY <2>1, <2>3 DEF Injection, IsInjective
<1>10. d0 \in S
  BY <1>0, <1>4 DEF FreeBetween
<1> HIDE DEF S, T, down
<1>11. IsFiniteSet(S \ {d0}) /\ Cardinality(S \ {d0}) = Cardinality(S) - 1
  BY <1>1, <1>10, FS_RemoveElement
<1>12. Cardinality(S \ {d0}) <= Cardinality(T)
  BY <1>1, <1>9, FS_Injection
<1> QED
  BY <1>5, <1>11, <1>12 DEF S, T

(***************************************************************************)
(* The invariant                                                            *)
(***************************************************************************)
QueueTypeOK ==
  /\ phase \in {"run", "timer", "search", "kill"} /\ taken \in Value
  /\ prog \in {"testTask", "testThread", "exitTask"}
  /\ reading \in {"no", "head", "data"} /\ node \in Nodes /\ got \in Value
  /\ room \in Int

\* The node that was read holds Me until room is used up, which is never more
\* than there is.
NodeHoldsMe ==
  reading = "head" /\ room >= 0 => data_[node] = Me /\ room <= roomBefore(node)

\* A task that is reading is in the queue, or is the one that was taken out.
MeIsThere ==
  reading # "no" => queued(Me) \/ (phase \in {"timer", "kill"} /\ taken = Me)

RoomToPutBack == phase \in {"timer", "kill"} => num_ < N

QueueInv ==
  ListInv /\ QueueTypeOK /\ NodeHoldsMe /\ MeIsThere /\ RoomToPutBack /\ ReadsOwnTask

LEMMA QueuedIs ==
  ListInv => (queued(Me) <=> \E k \in 1..Len(values) : values[k] = Me)
BY ValuesOf DEF queued

LEMMA QueuedNext ==
  ASSUME ListInv'
  PROVE  queued(Me)' <=> \E k \in 1..Len(values') : values'[k] = Me
<1>1. (ListInv => (queued(Me) <=> \E k \in 1..Len(values) : values[k] = Me))'
  BY QueuedIs, PTL
<1> QED
  BY <1>1

LEMMA RoomIs == \A n \in Nodes : roomBefore(n) = Cardinality(FreeBetween(n, tail_, isAllocated))
BY DEF roomBefore, FreeBetween, gap

\* A step that pushes nothing and leaves the last node where it is.
LEMMA RoomStays ==
  ASSUME QueueInv, UNCHANGED <<reading, node, room, tail_, data_>>,
         \A m \in Nodes : ~isAllocated[m] => ~isAllocated'[m]
  PROVE  NodeHoldsMe'
<1>1. node \in Nodes /\ tail_ \in Nodes /\ room \in Int
  BY DEF QueueInv, QueueTypeOK, ListInv, TypeOK
<1>2. Cardinality(FreeBetween(node, tail_, isAllocated))
        <= Cardinality(FreeBetween(node, tail_, isAllocated'))
  BY <1>1, MoreFree
<1>3. /\ roomBefore(node) = Cardinality(FreeBetween(node, tail_, isAllocated))
      /\ roomBefore(node)' = Cardinality(FreeBetween(node, tail_, isAllocated'))
  BY DEF roomBefore, FreeBetween, gap
<1>4. /\ Cardinality(FreeBetween(node, tail_, isAllocated)) \in Nat
      /\ Cardinality(FreeBetween(node, tail_, isAllocated')) \in Nat
  BY <1>1, FreeBetweenIsFinite
<1> QED
  BY <1>1, <1>2, <1>3, <1>4 DEF QueueInv, NodeHoldsMe

LEMMA FreeAboveLeast ==
  ASSUME ListInv, num_ < N
  PROVE  \E d \in Nodes : /\ FreeAbove(tail_) = (tail_ + d) % N
                          /\ ~isAllocated[(tail_ + d) % N]
                          /\ \A e \in Nodes : ~isAllocated[(tail_ + e) % N] => d <= e
<1> DEFINE free == {d \in Nodes : ~isAllocated[(tail_ + d) % N]}
           d0 == CHOOSE d \in free : \A e \in free : d <= e
<1>1. PICK m \in Nodes : ~isAllocated[m]
  BY FreeNode DEF ListInv
<1>2. free # {}
  BY <1>1, StepsRound DEF ListInv, TypeOK
<1>3. free \in SUBSET Nat
  BY ListAssumption DEF Nodes
<1>4. \E d \in free : \A e \in free : d <= e
  <2> HIDE DEF free
  <2> QED
    BY <1>2, <1>3, LeastElement
<1>5. d0 \in free /\ \A e \in free : d0 <= e
  BY <1>4
<1>6. FreeAbove(tail_) = (tail_ + d0) % N
  BY DEF FreeAbove
<1> HIDE DEF d0
<1> QED
  BY <1>5, <1>6

\* A push that takes the node that was read, or the last of the room before it,
\* pushes Me or uses the room up.
LEMMA PushKeepsRoom ==
  ASSUME QueueInv, NEW v \in Value, push(v), UNCHANGED <<reading, node>>,
         num_ < N, reading # "no" /\ num_ = 0 => v = Me
  PROVE  NodeHoldsMe' /\ room' \in Int
<1>0. /\ node \in Nodes /\ tail_ \in Nodes /\ room \in Int /\ num_ \in Nat /\ N \in Nat \ {0}
      /\ isAllocated \in [Nodes -> BOOLEAN] /\ data_ \in [Nodes -> Value] /\ num_ <= N
      /\ ListInv
  BY ListAssumption DEF QueueInv, QueueTypeOK, ListInv, TypeOK
<1>1. room' = IF reading = "head" /\ room >= 0 THEN room - 1 ELSE room
  BY DEF push
<1>2. room' \in Int
  BY <1>0, <1>1
<1> DEFINE f == FreeAbove(tail_)
<1>3. /\ data_' = [data_ EXCEPT ![f] = v]
      /\ isAllocated' = [isAllocated EXCEPT ![f] = TRUE] /\ tail_' = f
  BY <1>0 DEF push, push_back, insertNode
<1>4. f \in Nodes /\ ~isAllocated[f]
  BY <1>0, FreeFound DEF ListInv
<1>5. SUFFICES ASSUME reading = "head", room' >= 0
               PROVE  data_'[node] = Me /\ room' <= roomBefore(node)'
  BY <1>2 DEF NodeHoldsMe
<1>6. room >= 1 /\ room' = room - 1 /\ data_[node] = Me /\ room <= roomBefore(node)
  BY <1>0, <1>1, <1>5 DEF QueueInv, NodeHoldsMe
<1>7. /\ roomBefore(node) = Cardinality(FreeBetween(node, tail_, isAllocated))
      /\ roomBefore(node)' = Cardinality(FreeBetween(node, f, [isAllocated EXCEPT ![f] = TRUE]))
  BY <1>3 DEF roomBefore, FreeBetween, gap
<1>8. /\ Cardinality(FreeBetween(node, tail_, isAllocated)) \in Nat
      /\ Cardinality(FreeBetween(node, f, [isAllocated EXCEPT ![f] = TRUE])) \in Nat
  BY <1>0, <1>4, FreeBetweenIsFinite
<1>9. CASE num_ = 0
  <2>1. f = tail_ /\ v = Me
    BY <1>0, <1>5, <1>9, FreeItself DEF ListInv, RingIsExact
  <2>2. \A d \in 1..gap(node, tail_) : d \in 1..(N - 1)
    BY <1>0, GapIs
  <2>3. \A d \in 1..(N - 1) : (tail_ + d) % N # tail_ /\ (tail_ + d) % N \in Nodes
    <3> TAKE d \in 1..(N - 1)
    <3>1. tail_ \in 0..(N - 1) /\ d \in 0..(N - 1)
      BY <1>0 DEF Nodes
    <3>2. /\ (tail_ + d) % N = IF tail_ + d < N THEN tail_ + d ELSE tail_ + d - N
          /\ (tail_ + d) % N \in Nodes
      BY <1>0, <3>1, GapIs
    <3> QED
      BY <1>0, <3>1, <3>2
  <2>4. FreeBetween(node, f, [isAllocated EXCEPT ![f] = TRUE])
          = FreeBetween(node, tail_, isAllocated)
    BY <1>0, <2>1, <2>2, <2>3 DEF FreeBetween
  <2>5. data_'[node] = Me
    BY <1>0, <1>3, <1>4, <1>6, <2>1
  <2> QED
    BY <1>0, <1>6, <1>7, <1>8, <2>4, <2>5
<1>10. CASE num_ # 0
  <2>1. isAllocated[tail_]
    BY <1>0, <1>10, EndNodes, RingKept DEF ring, Ring
  <2>2. PICK d \in Nodes : /\ f = (tail_ + d) % N
                           /\ ~isAllocated[(tail_ + d) % N]
                           /\ \A e \in Nodes : ~isAllocated[(tail_ + e) % N] => d <= e
    BY <1>0, FreeAboveLeast
  <2>3. d \in 1..(N - 1)
    <3>1. tail_ + 0 = tail_ /\ tail_ % N = tail_
      BY <1>0, NodeOf DEF Nodes
    <3>2. d # 0
      BY <2>1, <2>2, <3>1
    <3> QED
      BY <1>0, <3>2 DEF Nodes
  <2> HIDE DEF f
  <2>4. Cardinality(FreeBetween(node, tail_, isAllocated)) >= 1
    BY <1>0, <1>6, <1>7, <1>8
  <2>5. /\ f # node
        /\ Cardinality(FreeBetween(node, tail_, isAllocated)) - 1
             <= Cardinality(FreeBetween(node, f, [isAllocated EXCEPT ![f] = TRUE]))
    BY <1>0, <1>4, <2>2, <2>3, <2>4, OneLess
  <2>6. data_'[node] = Me
    BY <1>0, <1>3, <1>4, <1>6, <2>5
  <2> QED
    BY <1>0, <1>6, <1>7, <1>8, <2>5, <2>6
<1> QED
  BY <1>9, <1>10

(***************************************************************************)
(* One step of each operation                                               *)
(***************************************************************************)
LEMMA QueueInit == InitQueue => QueueInv
<1> SUFFICES ASSUME InitQueue PROVE QueueInv
  OBVIOUS
<1>1. ListInv
  BY InitInv DEF InitQueue
<1>2. 0 \in Nodes /\ Zero \in Value /\ Me \in Value
  BY ListAssumption, MeAssumption DEF Nodes
<1> QED
  BY <1>1, <1>2 DEF InitQueue, QueueInv, QueueTypeOK, NodeHoldsMe, MeIsThere,
                    RoomToPutBack, ReadsOwnTask

\* What is queued stays queued under a push.
LEMMA PushKeepsQueued ==
  ASSUME ListInv, num_ < N, NEW v \in Value, push_back(v)
  PROVE  /\ ListInv'
         /\ queued(Me) => queued(Me)'
         /\ v = Me => queued(Me)'
<1>1. ListInv' /\ Abstract!PushBack(v)
  BY PushBackStep
<1>2. values \in Seq(Value) /\ Len(values) = num_
  BY ValuesOf
<1>3. values' = Append(values, v)
  BY <1>1, <1>2 DEF Abstract!PushBack, values
<1>4. /\ Len(values') = Len(values) + 1 /\ values'[Len(values) + 1] = v
      /\ \A k \in 1..Len(values) : values'[k] = values[k]
      /\ Len(values) \in Nat
  BY <1>2, <1>3, AppendProperties
<1>5. /\ Len(values) + 1 \in 1..Len(values')
      /\ \A k \in 1..Len(values) : k \in 1..Len(values')
  BY <1>4
<1>6. queued(Me) <=> \E k \in 1..Len(values) : values[k] = Me
  BY QueuedIs
<1>7. queued(Me)' <=> \E k \in 1..Len(values') : values'[k] = Me
  BY <1>1, QueuedNext
<1> HIDE DEF values
<1> QED
  BY <1>1, <1>4, <1>5, <1>6, <1>7

LEMMA QueueNewTask ==
  ASSUME QueueInv, NEW v \in Value, newTask(v)
  PROVE  QueueInv'
<1>1. /\ phase = "run" /\ num_ < N /\ push(v) /\ push_back(v)
      /\ prog' = prog \/ prog' \in {"testTask", "testThread"}
      /\ UNCHANGED <<phase, taken, reading, node, got>>
  BY ListAssumption DEF newTask, push, QueueInv, ListInv, TypeOK
<1>2. ListInv' /\ (queued(Me) => queued(Me)')
  BY <1>1, PushKeepsQueued DEF QueueInv
<1>3. reading # "no" => queued(Me) /\ num_ # 0
  <2> SUFFICES ASSUME reading # "no" PROVE queued(Me) /\ num_ # 0
    OBVIOUS
  <2>1. queued(Me)
    BY <1>1 DEF QueueInv, MeIsThere
  <2> QED
    BY <2>1 DEF queued
<1>4. NodeHoldsMe' /\ room' \in Int
  BY <1>1, <1>3, PushKeepsRoom
<1>5. reading = "data" => room' = room
  BY <1>1 DEF push
<1>6. QueueTypeOK' /\ RoomToPutBack' /\ ReadsOwnTask' /\ MeIsThere'
  BY <1>1, <1>2, <1>3, <1>4, <1>5
     DEF QueueInv, QueueTypeOK, RoomToPutBack, ReadsOwnTask, MeIsThere
<1> QED
  BY <1>2, <1>4, <1>6 DEF QueueInv

LEMMA QueuePutBack ==
  ASSUME QueueInv, putBack
  PROVE  QueueInv'
<1>1. /\ phase \in {"timer", "kill"} /\ num_ < N /\ taken \in Value
      /\ push(taken) /\ push_back(taken) /\ phase' = "run" /\ taken' = Zero
      /\ UNCHANGED <<prog, reading, node, got>>
  BY DEF putBack, push, QueueInv, RoomToPutBack, QueueTypeOK
<1>2. ListInv' /\ (queued(Me) => queued(Me)') /\ (taken = Me => queued(Me)')
  BY <1>1, PushKeepsQueued DEF QueueInv
<1>3. reading # "no" => (queued(Me) /\ num_ # 0) \/ taken = Me
  <2> SUFFICES ASSUME reading # "no", taken # Me PROVE queued(Me) /\ num_ # 0
    OBVIOUS
  <2>1. queued(Me)
    BY DEF QueueInv, MeIsThere
  <2> QED
    BY <2>1 DEF queued
<1>4. NodeHoldsMe' /\ room' \in Int
  BY <1>1, <1>3, PushKeepsRoom
<1>5. reading = "data" => room' = room
  BY <1>1 DEF push
<1>6. QueueTypeOK' /\ RoomToPutBack' /\ ReadsOwnTask' /\ MeIsThere'
  BY <1>1, <1>2, <1>3, <1>4, <1>5, ListAssumption
     DEF QueueInv, QueueTypeOK, RoomToPutBack, ReadsOwnTask, MeIsThere
<1> QED
  BY <1>2, <1>4, <1>6 DEF QueueInv

LEMMA QueueTakeFront ==
  ASSUME QueueInv, takeFront
  PROVE  QueueInv'
<1>0. ListInv
  BY DEF QueueInv
<1>1. /\ num_ > 0 /\ num_ # 0 /\ taken' = data_[head_] /\ pop_front /\ phase' = "timer"
      /\ UNCHANGED <<prog, reading, node, got, room>>
  BY <1>0 DEF takeFront, ListInv, TypeOK
<1>2. ListInv' /\ Abstract!PopFront
  BY <1>0, <1>1, PopFrontStep
<1>3. /\ num_ \in Nat \ {0} /\ head_ = nodes[1] /\ Len(values) = num_
      /\ values \in Seq(Value) /\ 1 \in 1..num_ /\ num_ <= N /\ N \in Nat
      /\ isAllocated \in [Nodes -> BOOLEAN] /\ head_ \in Nodes
      /\ data_ \in [Nodes -> Value]
  BY <1>0, <1>1, EndNodes, ListAssumption DEF ListInv, TypeOK
<1>4. /\ num_' = num_ - 1 /\ UNCHANGED <<tail_, data_>>
      /\ isAllocated' = [isAllocated EXCEPT ![head_] = FALSE]
  BY <1>1 DEF pop_front
<1>5. values # <<>> /\ values' = Tail(values)
  <2>1. values # <<>>
    BY <1>3
  <2> QED
    BY <1>2, <2>1 DEF Abstract!PopFront, values
<1>6. /\ Len(values') = Len(values) - 1
      /\ \A k \in 1..Len(values') : values'[k] = values[k + 1]
  BY <1>3, <1>5, HeadTailProperties
<1>7. taken' = values[1] /\ taken' \in Value
  BY <1>0, <1>1, <1>3, ValuesOf
<1>8. queued(Me) => queued(Me)' \/ taken' = Me
  <2> SUFFICES ASSUME queued(Me), taken' # Me PROVE queued(Me)'
    OBVIOUS
  <2>1. PICK k \in 1..Len(values) : values[k] = Me
    BY <1>0, QueuedIs
  <2>2. k - 1 \in 1..Len(values') /\ (k - 1) + 1 = k
    BY <1>3, <1>6, <1>7, <2>1
  <2>3. values'[k - 1] = Me
    BY <1>6, <2>1, <2>2
  <2> QED
    BY <1>2, <2>2, <2>3, QueuedNext
<1>9. NodeHoldsMe'
  BY <1>1, <1>3, <1>4, RoomStays
<1>10. MeIsThere'
  <2>1. phase \notin {"timer", "kill"}
    BY DEF takeFront
  <2> QED
    BY <1>1, <1>8, <2>1 DEF QueueInv, MeIsThere
<1>11. QueueTypeOK' /\ RoomToPutBack' /\ ReadsOwnTask'
  BY <1>1, <1>3, <1>4, <1>7 DEF QueueInv, QueueTypeOK, RoomToPutBack, ReadsOwnTask
<1> QED
  BY <1>2, <1>9, <1>10, <1>11 DEF QueueInv

LEMMA QueueFound ==
  ASSUME QueueInv, found
  PROVE  QueueInv'
<1>0. ListInv
  BY DEF QueueInv
<1>1. /\ taken' = data_[itr_] /\ remove /\ phase = "search" /\ phase' = "kill" /\ inLoop
      /\ room' = IF reading = "head" /\ itr_ = tail_ THEN -1 ELSE room
      /\ UNCHANGED <<prog, reading, node, got>>
  BY DEF found, remove
<1>2. ListInv' /\ Abstract!Remove
  BY <1>0, <1>1, RemoveStep
<1>3. /\ num_ \in Nat \ {0} /\ cursor \in 1..num_ /\ itr_ = nodes[cursor]
      /\ Len(values) = num_ /\ values \in Seq(Value) /\ num_ <= N /\ N \in Nat
      /\ isAllocated \in [Nodes -> BOOLEAN] /\ itr_ \in Nodes
      /\ data_ \in [Nodes -> Value]
  BY <1>0, <1>1, IteratorPlaces, ValuesOf, ListAssumption DEF ListInv, TypeOK
<1>4. /\ num_' = num_ - 1 /\ UNCHANGED data_
      /\ isAllocated' = [isAllocated EXCEPT ![itr_] = FALSE]
      /\ itr_ # tail_ => UNCHANGED tail_
  BY <1>1 DEF remove
<1>5. values' = [j \in 1..(Len(values) - 1) |->
                   IF j < cursor THEN values[j] ELSE values[j + 1]]
  BY <1>2 DEF Abstract!Remove, Abstract!WithoutAt, values, cursor
<1>6. Len(values') = num_ - 1
  BY <1>2, <1>4, ValuesNext
<1>7. taken' = values[cursor] /\ taken' \in Value
  BY <1>0, <1>1, <1>3, ValuesOf
<1>8. queued(Me) => queued(Me)' \/ taken' = Me
  <2> SUFFICES ASSUME queued(Me), taken' # Me PROVE queued(Me)'
    OBVIOUS
  <2>1. PICK k \in 1..Len(values) : values[k] = Me
    BY <1>0, QueuedIs
  <2>2. k # cursor
    BY <1>7, <2>1
  <2> HIDE DEF values, cursor
  <2>3. CASE k < cursor
    <3>1. k \in 1..Len(values') /\ values'[k] = Me
      BY <1>3, <1>5, <1>6, <2>1, <2>3
    <3> QED
      BY <1>2, <3>1, QueuedNext
  <2>4. CASE k > cursor
    <3>1. k - 1 \in 1..(Len(values) - 1) /\ (k - 1) + 1 = k /\ ~(k - 1 < cursor)
      BY <1>3, <2>1, <2>4
    <3>2. k - 1 \in 1..Len(values') /\ values'[k - 1] = Me
      BY <1>3, <1>5, <1>6, <2>1, <3>1
    <3> QED
      BY <1>2, <3>2, QueuedNext
  <2> QED
    BY <1>3, <2>1, <2>2, <2>3, <2>4
<1>9. NodeHoldsMe'
  <2>1. CASE reading = "head" /\ itr_ # tail_
    BY <1>1, <1>3, <1>4, <2>1, RoomStays
  <2>2. CASE ~(reading = "head" /\ itr_ # tail_)
    BY <1>1, <2>2 DEF NodeHoldsMe
  <2> QED
    BY <2>1, <2>2
<1>10. MeIsThere'
  <2>1. phase \notin {"timer", "kill"}
    BY <1>1
  <2> QED
    BY <1>1, <1>8, <2>1 DEF QueueInv, MeIsThere
<1>11. QueueTypeOK' /\ RoomToPutBack' /\ ReadsOwnTask'
  BY <1>1, <1>3, <1>4, <1>7 DEF QueueInv, QueueTypeOK, RoomToPutBack, ReadsOwnTask
<1> QED
  BY <1>2, <1>9, <1>10, <1>11 DEF QueueInv

\* The steps that change no node.
LEMMA QueueOthers ==
  ASSUME QueueInv,
         \/ newTaskFails \/ freeTaken \/ search \/ searchNext \/ notFound \/ readHead \/ readData
         \/ UNCHANGED <<vars, queueVars>>
  PROVE  QueueInv'
<1>0. ListInv /\ room \in Int /\ node \in Nodes
  BY DEF QueueInv, QueueTypeOK
<1>1. /\ UNCHANGED <<head_, tail_, num_, data_, isAllocated, nodes>>
      /\ UNCHANGED vars \/ begin \/ increment
  BY DEF newTaskFails, freeTaken, search, searchNext, notFound, readHead, readData, vars, begin,
         increment, nodeVars
<1>2. ListInv'
  <2>1. [Next]_vars
    BY <1>1 DEF Next
  <2> QED
    BY <1>0, <2>1, ListNext
<1>3. /\ queued(Me)' <=> queued(Me)
      /\ roomBefore(node)' = Cardinality({d \in 1..((node' + N - tail_ - 1) % N) :
                                            ~isAllocated[(tail_ + d) % N]})
  BY <1>1 DEF queued, roomBefore
<1>4. CASE freeTaken
  <2>1. /\ phase \in {"timer", "kill"} /\ phase' = "run" /\ taken' = Zero /\ prog' = prog
        /\ \/ taken = Me /\ reading' = "no" /\ node' = 0 /\ got' = Me /\ room' = 0
           \/ taken # Me /\ UNCHANGED <<reading, node, got, room>>
    BY <1>4 DEF freeTaken, notReading
  <2>2. 0 \in Nodes /\ Zero \in Value /\ Me \in Value
    BY ListAssumption, MeAssumption DEF Nodes
  <2>3. NodeHoldsMe'
    BY <1>1, <1>3, <2>1 DEF QueueInv, NodeHoldsMe, roomBefore
  <2>4. QueueTypeOK' /\ RoomToPutBack' /\ ReadsOwnTask' /\ MeIsThere'
    BY <1>3, <2>1, <2>2
       DEF QueueInv, QueueTypeOK, RoomToPutBack, ReadsOwnTask, MeIsThere
  <2> QED
    BY <1>2, <2>3, <2>4 DEF QueueInv
<1>5. CASE \/ newTaskFails \/ search \/ searchNext \/ notFound \/ UNCHANGED <<vars, queueVars>>
  <2>1. /\ UNCHANGED <<taken, reading, node, got, room>>
        /\ prog' = prog \/ prog' = "exitTask"
        /\ phase' = phase \/ (phase' \in {"run", "search"} /\ phase \in {"run", "search"})
    BY <1>5 DEF newTaskFails, search, searchNext, notFound, queueVars
  <2>2. NodeHoldsMe'
    BY <1>1, <1>3, <2>1 DEF QueueInv, NodeHoldsMe, roomBefore
  <2>3. QueueTypeOK' /\ RoomToPutBack' /\ ReadsOwnTask' /\ MeIsThere'
    BY <1>1, <1>3, <2>1
       DEF QueueInv, QueueTypeOK, RoomToPutBack, ReadsOwnTask, MeIsThere
  <2> QED
    BY <1>2, <2>2, <2>3 DEF QueueInv
<1>6. CASE readHead
  <2>1. /\ phase = "run" /\ num_ > 0 /\ data_[head_] = Me /\ node' = head_
        /\ reading' = "head" /\ room' = roomBefore(head_)
        /\ UNCHANGED <<phase, taken, prog, got>>
    BY <1>6 DEF readHead
  <2>2. head_ \in Nodes /\ tail_ \in Nodes
    BY <1>0 DEF ListInv, TypeOK
  <2>3. roomBefore(head_) \in Nat
    BY <2>2, RoomIs, FreeBetweenIsFinite
  <2>4. NodeHoldsMe'
    BY <1>1, <1>3, <2>1, <2>3 DEF NodeHoldsMe, roomBefore
  <2>5. queued(Me)
    BY <1>0, <2>1, EndNodes DEF queued, ListInv, TypeOK
  <2>6. QueueTypeOK' /\ RoomToPutBack' /\ ReadsOwnTask' /\ MeIsThere'
    BY <1>3, <2>1, <2>2, <2>3, <2>5
       DEF QueueInv, QueueTypeOK, RoomToPutBack, ReadsOwnTask, MeIsThere
  <2> QED
    BY <1>2, <2>4, <2>6 DEF QueueInv
<1>7. CASE readData
  <2>1. /\ phase = "run" /\ reading = "head" /\ got' = data_[node] /\ reading' = "data"
        /\ UNCHANGED <<phase, taken, prog, node, room>>
    BY <1>7 DEF readData
  <2>2. data_[node] \in Value /\ (room >= 0 => data_[node] = Me)
    BY <1>0, <2>1 DEF QueueInv, NodeHoldsMe, ListInv, TypeOK
  <2>3. QueueTypeOK' /\ RoomToPutBack' /\ ReadsOwnTask' /\ MeIsThere' /\ NodeHoldsMe'
    BY <1>3, <2>1, <2>2
       DEF QueueInv, QueueTypeOK, RoomToPutBack, ReadsOwnTask, MeIsThere, NodeHoldsMe
  <2> QED
    BY <1>2, <2>3 DEF QueueInv
<1> QED
  BY <1>4, <1>5, <1>6, <1>7

\* A task that asks currentTask() for itself with interrupts on gets itself
\* although the timer may move it to another node between the two reads, for
\* every size and length of the queue, unless more tasks are pushed in between
\* than there were free nodes up to the one it read, or the last one is killed.
THEOREM FrontReadIsOwn == SpecQueue => []ReadsOwnTask
<1>1. QueueInv /\ [NextQueue]_<<vars, queueVars>> => QueueInv'
  <2> SUFFICES ASSUME QueueInv, [NextQueue]_<<vars, queueVars>> PROVE QueueInv'
    OBVIOUS
  <2> QED
    BY QueueNewTask, QueuePutBack, QueueTakeFront, QueueFound, QueueOthers DEF NextQueue
<1>2. QueueInv => ReadsOwnTask
  BY DEF QueueInv
<1> QED
  BY QueueInit, <1>1, <1>2, PTL DEF SpecQueue
==============================================================================
