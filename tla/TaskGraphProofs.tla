---------------------------- MODULE TaskGraphProofs ----------------------------
(***************************************************************************)
(* Proofs about TaskGraph, for any number of tasks that await each other   *)
(* in any way, a gather among them, and with whatever is wrong with the    *)
(* capture.                                                                *)
(*                                                                         *)
(* What the recursive functions of the model compute is shown by induction *)
(* on sets of numbers: what tasks lead to is a least set, the nodes of the *)
(* tree are paths, and a path has a task for each of its places.           *)
(***************************************************************************)
EXTENDS TaskGraph, FiniteSetTheorems, SequenceTheorems, TLAPS

-----------------------------------------------------------------------------
(* Naturals *)

LEMMA LeastOfNaturals ==
  ASSUME NEW S, S \subseteq Nat, S # {}
  PROVE  \E m \in S : \A n \in S : m <= n
<1>1. PICK m \in S : \A n \in S : <<n, m>> \notin OpToRel(<, Nat)
  BY NatLessThanWellFounded, WFMin, Zenon
<1>2. ASSUME NEW n \in S, ~(m <= n) PROVE FALSE
  <2>1. <<n, m>> \in Nat \X Nat /\ <<n, m>>[1] < <<n, m>>[2]
    BY <1>2
  <2>2. <<n, m>> \in OpToRel(<, Nat)
    BY ONLY <2>1, Zenon DEF OpToRel
  <2> QED
    BY <1>1, <2>2
<1> QED
  BY <1>2

LEMMA GreatestOfNaturals ==
  ASSUME NEW S, S \subseteq Nat, S # {}, NEW bound \in Nat, \A n \in S : n <= bound
  PROVE  \E m \in S : \A n \in S : n <= m
<1> DEFINE T == {bound - n : n \in S}
<1>1. T \subseteq Nat /\ T # {}
  <2>1. \A n \in S : bound - n \in Nat
    OBVIOUS
  <2> QED
    BY <2>1
<1>2. PICK t \in T : \A u \in T : t <= u
  <2> HIDE DEF T
  <2> QED
    BY <1>1, LeastOfNaturals
<1>3. PICK m \in S : t = bound - m
  OBVIOUS
<1>4. ASSUME NEW n \in S PROVE n <= m
  <2>1. bound - n \in T
    OBVIOUS
  <2>2. bound - m <= bound - n
    BY <1>2, <1>3, <2>1
  <2> QED
    BY <2>2
<1> QED
  BY <1>4

(* A set that has 0, and with each number the next, has them all. *)
LEMMA InductionOnNaturals ==
  ASSUME NEW S, 0 \in S, \A n \in Nat : n \in S => n + 1 \in S
  PROVE  \A n \in Nat : n \in S
<1> SUFFICES ASSUME Nat \ S # {} PROVE FALSE
  OBVIOUS
<1> DEFINE T == Nat \ S
<1>1. PICK m \in T : \A n \in T : m <= n
  <2> HIDE DEF T
  <2>1. T \subseteq Nat /\ T # {}
    BY DEF T
  <2> QED
    BY <2>1, LeastOfNaturals
<1>2. m # 0 /\ m - 1 \in Nat
  OBVIOUS
<1>3. m - 1 \in S
  BY <1>1, <1>2
<1> QED
  BY <1>2, <1>3

-----------------------------------------------------------------------------
(* Recursive functions *)

(* H makes a better approximation of a function from D to S out of one:   *)
(* its value at a place depends on the values at places of lower rank      *)
(* alone, and ranks are bounded.                                           *)
Approximates(H, D, S, rank, bound) ==
  /\ [D -> S] # {} /\ H \in [[D -> S] -> [D -> S]]
  /\ bound \in Nat /\ rank \in [D -> Nat] /\ \A x \in D : rank[x] < bound
  /\ \A f, g \in [D -> S], x \in D :
       (\A y \in D : rank[y] < rank[x] => f[y] = g[y]) => H[f][x] = H[g][x]

(* Then the function exists. *)
LEMMA RecursionExists ==
  ASSUME NEW D, NEW S, NEW H, NEW rank, NEW bound, Approximates(H, D, S, rank, bound)
  PROVE  \E f \in [D -> S] : f = H[f]
<1> USE DEF Approximates
<1> DEFINE Good(f, n) == \A x \in D : rank[x] < n => f[x] = H[f][x]
           T == {n \in Nat : \E f \in [D -> S] : Good(f, n)}
<1>1. 0 \in T
  OBVIOUS
<1>2. ASSUME NEW n \in Nat, n \in T PROVE n + 1 \in T
  <2>1. PICK f \in [D -> S] : Good(f, n)
    BY <1>2
  <2>2. H[f] \in [D -> S]
    OBVIOUS
  <2>3. ASSUME NEW x \in D, rank[x] < n + 1 PROVE H[f][x] = H[H[f]][x]
    <3>1. \A y \in D : rank[y] < rank[x] => f[y] = H[f][y]
      <4> SUFFICES ASSUME NEW y \in D, rank[y] < rank[x] PROVE f[y] = H[f][y]
        OBVIOUS
      <4>1. rank[y] \in Nat /\ rank[x] \in Nat
        OBVIOUS
      <4>2. rank[y] < n
        BY <2>3, <4>1
      <4> QED
        BY <2>1, <4>2
    <3> QED
      BY <2>2, <3>1
  <2>4. Good(H[f], n + 1)
    BY <2>3
  <2> QED
    BY <2>2, <2>4
<1>3. bound \in T
  <2> HIDE DEF T
  <2> QED
    BY <1>1, <1>2, InductionOnNaturals
<1>4. PICK f \in [D -> S] : Good(f, bound)
  BY <1>3
<1>5. H[f] \in [D -> S] /\ \A x \in D : f[x] = H[f][x]
  BY <1>4
<1>6. f = H[f]
  BY <1>5
<1> QED
  BY <1>6

(* K steps of G from e *)
IsSteps(f, K, e, G) == f = [n \in 0..K |-> IF n = 0 THEN e ELSE G[f[n - 1]]]

LEMMA StepsExist ==
  ASSUME NEW K \in Nat, NEW S, NEW e \in S, NEW G \in [S -> S]
  PROVE  \E f \in [0..K -> S] : IsSteps(f, K, e, G)
<1> USE DEF IsSteps
<1> DEFINE D == 0..K
           H == [f \in [D -> S] |-> [n \in D |-> IF n = 0 THEN e ELSE G[f[n - 1]]]]
           rank == [n \in D |-> n]
           bound == K + 1
<1>1. [n \in D |-> e] \in [D -> S] /\ rank \in [D -> Nat] /\ bound \in Nat
  OBVIOUS
<1>2. H \in [[D -> S] -> [D -> S]]
  OBVIOUS
<1>3. \A n \in D : rank[n] < bound
  OBVIOUS
<1>4. \A f, g \in [D -> S], n \in D :
        (\A m \in D : rank[m] < rank[n] => f[m] = g[m]) => H[f][n] = H[g][n]
  <2> SUFFICES ASSUME NEW f \in [D -> S], NEW g \in [D -> S], NEW n \in D,
                      \A m \in D : rank[m] < rank[n] => f[m] = g[m]
               PROVE  H[f][n] = H[g][n]
    OBVIOUS
  <2>1. n # 0 => f[n - 1] = g[n - 1]
    OBVIOUS
  <2> QED
    BY <2>1
<1>5. \E f \in [D -> S] : f = H[f]
  <2> HIDE DEF D, H, rank, bound
  <2>1. Approximates(H, D, S, rank, bound)
    BY <1>1, <1>2, <1>3, <1>4 DEF Approximates
  <2> QED
    BY <2>1, RecursionExists
<1> QED
  BY <1>5

-----------------------------------------------------------------------------
(* Finite sets of tasks *)

LEMMA TasksAreFinite ==
  ASSUME TaskGraphAssumption, NEW S \in SUBSET Tasks
  PROVE  IsFiniteSet(S) /\ Cardinality(S) \in 0..Count
<1>1. IsFiniteSet(Tasks) /\ Cardinality(Tasks) = Count
  BY FS_Interval DEF TaskGraphAssumption, Tasks
<1>2. IsFiniteSet(S) /\ Cardinality(S) <= Count
  BY <1>1, FS_Subset
<1> QED
  BY <1>2, FS_CardinalityType DEF TaskGraphAssumption

(* A function without repetitions into a set of n elements has at most n   *)
(* arguments; if it has n, it takes every value.                           *)
LEMMA OneToOne ==
  ASSUME NEW S, IsFiniteSet(S), NEW n \in Nat, NEW f \in [1..n -> S],
         \A i, j \in 1..n : f[i] = f[j] => i = j
  PROVE  /\ n <= Cardinality(S)
         /\ n = Cardinality(S) => \A s \in S : \E i \in 1..n : f[i] = s
<1>1. IsFiniteSet(1..n) /\ Cardinality(1..n) = n /\ Cardinality(S) \in Nat
  BY FS_Interval, FS_CardinalityType
<1>2. n <= Cardinality(S)
  <2> SUFFICES ASSUME ~(n <= Cardinality(S)) PROVE FALSE
    OBVIOUS
  <2>1. Cardinality(S) < Cardinality(1..n)
    BY <1>1
  <2> QED
    BY <1>1, <2>1, FS_PigeonHole
<1>3. ASSUME n = Cardinality(S), NEW s \in S, \A i \in 1..n : f[i] # s PROVE FALSE
  <2>1. f \in [1..n -> S \ {s}]
    BY <1>3
  <2>2. IsFiniteSet(S \ {s}) /\ Cardinality(S \ {s}) = Cardinality(S) - 1
    BY FS_RemoveElement
  <2>3. Cardinality(S \ {s}) < Cardinality(1..n)
    BY <1>1, <1>3, <2>2
  <2> QED
    BY ONLY <1>1, <2>1, <2>2, <2>3, FS_PigeonHole,
            \A i, j \in 1..n : f[i] = f[j] => i = j
<1> QED
  BY <1>2, <1>3

-----------------------------------------------------------------------------
(* The order of the tasks *)

IsSorted(S, s) ==
  s \in [1..Cardinality(S) -> S] /\ \A i, j \in DOMAIN s : i < j => s[i] < s[j]

(* Tasks can be put in the order of their names. *)
LEMMA SortedExists ==
  ASSUME TaskGraphAssumption, NEW S \in SUBSET Tasks
  PROVE  \E s : IsSorted(S, s)
<1> DEFINE T == {n \in Nat : \A U \in SUBSET Tasks :
                               Cardinality(U) = n => \E s : IsSorted(U, s)}
<1>1. 0 \in T
  <2> SUFFICES ASSUME NEW U \in SUBSET Tasks, Cardinality(U) = 0 PROVE \E s : IsSorted(U, s)
    OBVIOUS
  <2>1. IsSorted(U, <<>>)
    BY DEF IsSorted
  <2> QED
    BY <2>1
<1>2. ASSUME NEW n \in Nat, n \in T PROVE n + 1 \in T
  <2> SUFFICES ASSUME NEW U \in SUBSET Tasks, Cardinality(U) = n + 1
               PROVE  \E s : IsSorted(U, s)
    OBVIOUS
  <2>1. IsFiniteSet(U)
    BY TasksAreFinite
  <2>2. U # {}
    BY FS_EmptySet
  <2>0. U \subseteq Nat
    BY DEF Tasks, TaskGraphAssumption
  <2>3. PICK m \in U : \A k \in U : k <= m
    <3>1. U \subseteq Nat /\ Count \in Nat /\ \A k \in U : k <= Count
      BY DEF Tasks, TaskGraphAssumption
    <3> QED
      BY <2>2, <3>1, GreatestOfNaturals
  <2>4. Cardinality(U \ {m}) = n
    BY <2>1, FS_RemoveElement
  <2>5. PICK s : IsSorted(U \ {m}, s)
    <3>1. U \ {m} \in SUBSET Tasks
      OBVIOUS
    <3> QED
      BY <1>2, <2>4, <3>1
  <2>6. s \in [1..n -> U \ {m}] /\ \A i, j \in 1..n : i < j => s[i] < s[j]
    BY <2>4, <2>5 DEF IsSorted
  <2> DEFINE more == [i \in 1..(n + 1) |-> IF i = n + 1 THEN m ELSE s[i]]
  <2>7. more \in [1..(n + 1) -> U]
    BY <2>6
  <2>8. ASSUME NEW i \in 1..(n + 1), NEW j \in 1..(n + 1), i < j PROVE more[i] < more[j]
    <3>1. i \in 1..n /\ more[i] = s[i] /\ s[i] \in U \ {m}
      BY <2>6, <2>8
    <3>2. CASE j = n + 1
      <4>1. more[j] = m
        BY <3>2
      <4>2. s[i] <= m /\ s[i] # m
        BY <2>3, <3>1
      <4>3. s[i] \in Nat /\ m \in Nat
        BY <2>0, <3>1
      <4> QED
        BY <3>1, <4>1, <4>2, <4>3
    <3>3. CASE j # n + 1
      <4>1. j \in 1..n /\ more[j] = s[j]
        BY <3>3
      <4> QED
        BY <2>6, <2>8, <3>1, <4>1
    <3> QED
      BY <3>2, <3>3
  <2>9. DOMAIN more = 1..(n + 1)
    OBVIOUS
  <2> HIDE DEF more
  <2>10. IsSorted(U, more)
    BY <2>7, <2>8, <2>9 DEF IsSorted
  <2> QED
    BY <2>10
<1>3. \A n \in Nat : n \in T
  <2> HIDE DEF T
  <2> QED
    BY <1>1, <1>2, InductionOnNaturals
<1>4. Cardinality(S) \in Nat
  BY TasksAreFinite
<1> QED
  BY <1>3, <1>4

(* And then each is there, once. *)
LEMMA ByNameIsAll ==
  ASSUME TaskGraphAssumption, NEW S \in SUBSET Tasks
  PROVE  /\ ByName(S) \in Seq(S)
         /\ Range(ByName(S)) = S
<1>1. IsSorted(S, ByName(S))
  <2>1. ByName(S) = CHOOSE s : IsSorted(S, s)
    BY Zenon DEF ByName, IsSorted
  <2> QED
    BY <2>1, SortedExists
<1>2. PICK n \in Nat : n = Cardinality(S)
  BY TasksAreFinite
<1>3. IsFiniteSet(S)
  BY TasksAreFinite
<1>4. PICK s : s = ByName(S)
  OBVIOUS
<1>5. s \in [1..n -> S] /\ \A i, j \in 1..n : i < j => s[i] < s[j]
  BY <1>1, <1>2, <1>4 DEF IsSorted
<1>6. \A i, j \in 1..n : s[i] = s[j] => i = j
  <2> SUFFICES ASSUME NEW i \in 1..n, NEW j \in 1..n, i # j PROVE s[i] # s[j]
    OBVIOUS
  <2>0. S \subseteq Nat
    BY DEF Tasks, TaskGraphAssumption
  <2>1. s[i] \in Nat /\ s[j] \in Nat
    BY <1>5, <2>0
  <2>2. CASE i < j
    BY <1>5, <2>1, <2>2
  <2>3. CASE j < i
    BY <1>5, <2>1, <2>3
  <2> QED
    BY <2>2, <2>3
<1>7. \A t \in S : \E i \in 1..n : s[i] = t
  BY <1>2, <1>3, <1>5, <1>6, OneToOne
<1>8. Range(s) = S
  BY <1>5, <1>7 DEF Range
<1>9. s \in Seq(S)
  BY <1>5
<1> QED
  BY <1>4, <1>8, <1>9

LEMMA SeqOfMore ==
  ASSUME NEW S, NEW T, S \subseteq T, NEW s \in Seq(S)
  PROVE  s \in Seq(T)
<1>1. Len(s) \in Nat /\ s \in [1..Len(s) -> S]
  OBVIOUS
<1>2. s \in [1..Len(s) -> T]
  BY <1>1
<1> QED
  BY <1>1, <1>2

LEMMA OrderIsAll ==
  ASSUME TaskGraphAssumption, NEW entries,
         \A e \in entries : e.id \in Tasks /\ e.done \in BOOLEAN
  PROVE  /\ OrderTasks(entries) \in Seq({e.id : e \in entries})
         /\ Range(OrderTasks(entries)) = {e.id : e \in entries}
<1> DEFINE ids == {e.id : e \in entries}
           Ids(d) == {e.id : e \in {f \in entries : f.done = d}}
           a == ByName(Ids(FALSE))
           b == ByName(Ids(TRUE))
<1>1. Ids(FALSE) \in SUBSET Tasks /\ Ids(TRUE) \in SUBSET Tasks
  OBVIOUS
<1>2. ids = Ids(FALSE) \cup Ids(TRUE)
  OBVIOUS
<1> HIDE DEF ids, Ids
<1>3. a \in Seq(Ids(FALSE)) /\ Range(a) = Ids(FALSE) /\ b \in Seq(Ids(TRUE)) /\ Range(b) = Ids(TRUE)
  BY <1>1, ByNameIsAll
<1>4. OrderTasks(entries) = a \o b
  BY DEF OrderTasks, Ids
<1> HIDE DEF a, b
<1>5. a \in Seq(ids) /\ b \in Seq(ids)
  BY <1>2, <1>3, SeqOfMore
<1>6. /\ a \o b \in Seq(ids) /\ Len(a \o b) = Len(a) + Len(b)
      /\ \A i \in 1..(Len(a) + Len(b)) :
           (a \o b)[i] = IF i <= Len(a) THEN a[i] ELSE b[i - Len(a)]
  BY <1>5
<1>7. Len(a) \in Nat /\ Len(b) \in Nat /\ DOMAIN a = 1..Len(a) /\ DOMAIN b = 1..Len(b)
      /\ DOMAIN (a \o b) = 1..Len(a \o b)
  BY <1>5, <1>6
<1>8. Range(a \o b) \subseteq ids
  BY <1>6, <1>7 DEF Range
<1>9. ASSUME NEW t \in ids PROVE t \in Range(a \o b)
  <2>1. CASE t \in Ids(FALSE)
    <3>1. PICK i \in 1..Len(a) : a[i] = t
      BY <1>3, <1>7, <2>1 DEF Range
    <3>2. i \in 1..(Len(a) + Len(b)) /\ (a \o b)[i] = t
      BY <1>6, <1>7, <3>1
    <3> QED
      BY <1>6, <1>7, <3>2 DEF Range
  <2>2. CASE t \in Ids(TRUE)
    <3>1. PICK i \in 1..Len(b) : b[i] = t
      BY <1>3, <1>7, <2>2 DEF Range
    <3>2. Len(a) + i \in 1..(Len(a) + Len(b)) /\ ~(Len(a) + i <= Len(a))
          /\ (Len(a) + i) - Len(a) = i
      BY <1>7, <3>1
    <3>3. (a \o b)[Len(a) + i] = t
      BY <1>6, <3>1, <3>2
    <3> QED
      BY <1>6, <1>7, <3>2, <3>3 DEF Range
  <2> QED
    BY <1>2, <2>1, <2>2
<1> QED
  BY <1>4, <1>6, <1>8, <1>9 DEF ids

-----------------------------------------------------------------------------
(* What tasks lead to *)

(* G makes a set larger or leaves it, within a set of at most K elements.  *)
Grows(G, all, K) ==
  /\ IsFiniteSet(all) /\ Cardinality(all) <= K
  /\ G \in [SUBSET all -> SUBSET all] /\ \A T \in SUBSET all : T \subseteq G[T]

(* Then the sets have come to their end after K steps. *)
LEMMA GrowsToEnd ==
  ASSUME NEW all, NEW G, NEW K \in Nat, Grows(G, all, K),
         NEW e, NEW f \in [0..K -> SUBSET all], IsSteps(f, K, e, G)
  PROVE  G[f[K]] = f[K]
<1> USE DEF Grows
<1> DEFINE Done(n) == G[f[n]] = f[n] \/ n <= Cardinality(f[n])
           T == {n \in Nat : n <= K => Done(n)}
<1>1. \A S \in SUBSET all : IsFiniteSet(S) /\ Cardinality(S) \in Nat
  BY FS_Subset, FS_CardinalityType
<1>2. 0 \in T
  BY <1>1
<1>3. ASSUME NEW n \in Nat, n \in T PROVE n + 1 \in T
  <2> SUFFICES ASSUME n + 1 <= K PROVE Done(n + 1)
    OBVIOUS
  <2>1. n \in 0..K /\ n + 1 \in 0..K /\ n + 1 # 0 /\ (n + 1) - 1 = n
    OBVIOUS
  <2>2. f[n + 1] = G[f[n]]
    BY <2>1 DEF IsSteps
  <2>3. Done(n) /\ f[n] \in SUBSET all /\ f[n + 1] \in SUBSET all
    BY <1>3, <2>1
  <2>4. CASE G[f[n]] = f[n]
    BY <2>2, <2>4
  <2>5. CASE G[f[n]] # f[n] /\ n <= Cardinality(f[n])
    <3>1. f[n] \subseteq f[n + 1] /\ f[n] # f[n + 1]
      BY <2>2, <2>3, <2>5
    <3>2. Cardinality(f[n]) <= Cardinality(f[n + 1])
          /\ Cardinality(f[n]) # Cardinality(f[n + 1])
      BY <1>1, <2>3, <3>1, FS_Subset
    <3>3. Cardinality(f[n]) \in Nat /\ Cardinality(f[n + 1]) \in Nat
      BY <1>1, <2>3
    <3> QED
      BY <2>5, <3>2, <3>3
  <2> QED
    BY <2>3, <2>4, <2>5
<1>4. K \in T
  <2> HIDE DEF T
  <2> QED
    BY <1>2, <1>3, InductionOnNaturals
<1>5. CASE K <= Cardinality(f[K])
  <2>1. f[K] \in SUBSET all /\ Cardinality(f[K]) <= Cardinality(all)
    BY <1>1, FS_Subset
  <2>2. Cardinality(f[K]) = Cardinality(all)
    BY <1>1, <1>5, <2>1
  <2>3. f[K] = all
    BY <2>1, <2>2, FS_Subset
  <2>4. all \in SUBSET all
    OBVIOUS
  <2>5. G[all] \in SUBSET all /\ all \subseteq G[all]
    BY <2>4
  <2> QED
    BY <2>3, <2>5
<1> QED
  BY <1>4, <1>5

(* The tasks that S leads to are the least set that has S and the tasks    *)
(* awaited by each of its own.                                             *)
LEMMA ReachIsClosure ==
  ASSUME TaskGraphAssumption, NEW ids \in SUBSET Tasks, NEW A \in [ids -> SUBSET ids],
         NEW S \in SUBSET ids
  PROVE  /\ Reach(A, S) \in SUBSET ids /\ S \subseteq Reach(A, S)
         /\ \A u \in Reach(A, S) : A[u] \subseteq Reach(A, S)
         /\ \A C \in SUBSET ids :
              S \subseteq C /\ (\A u \in C : A[u] \subseteq C) => Reach(A, S) \subseteq C
<1> DEFINE G == [T \in SUBSET ids |-> T \cup UNION {A[u] : u \in T}]
           reach[n \in 0..Count] ==
             IF n = 0 THEN S ELSE reach[n - 1] \cup UNION {A[u] : u \in reach[n - 1]}
<1>1. G \in [SUBSET ids -> SUBSET ids] /\ \A T \in SUBSET ids : T \subseteq G[T]
  OBVIOUS
<1>2. Count \in Nat /\ IsFiniteSet(ids) /\ Cardinality(ids) <= Count
  BY TasksAreFinite DEF TaskGraphAssumption
<1>3. Reach(A, S) = reach[Count]
  BY DEF Reach
<1>4. PICK f \in [0..Count -> SUBSET ids] : IsSteps(f, Count, S, G)
  <2> HIDE DEF G
  <2> QED
    BY <1>1, <1>2, StepsExist
<1>5. reach = [n \in 0..Count |->
                 IF n = 0 THEN S ELSE reach[n - 1] \cup UNION {A[u] : u \in reach[n - 1]}]
  <2>1. ASSUME NEW n \in 0..Count
        PROVE  f[n] = IF n = 0 THEN S ELSE f[n - 1] \cup UNION {A[u] : u \in f[n - 1]}
    <3>1. n # 0 => n - 1 \in 0..Count
      BY <1>2
    <3>2. n # 0 => f[n - 1] \in SUBSET ids
      BY <1>4, <3>1
    <3> QED
      BY <1>4, <3>2 DEF IsSteps
  <2>2. f = [n \in 0..Count |->
               IF n = 0 THEN S ELSE f[n - 1] \cup UNION {A[u] : u \in f[n - 1]}]
    BY <1>4, <2>1
  <2>3. \E g : g = [n \in 0..Count |->
                      IF n = 0 THEN S ELSE g[n - 1] \cup UNION {A[u] : u \in g[n - 1]}]
    BY <2>2
  <2> QED
    BY <2>3
<1> HIDE DEF reach
<1>6. \A n \in 0..Count : reach[n] \in SUBSET ids
  <2> DEFINE T == {n \in Nat : n <= Count => reach[n] \in SUBSET ids}
  <2>1. 0 \in T
    BY <1>2, <1>5
  <2>2. ASSUME NEW n \in Nat, n \in T PROVE n + 1 \in T
    <3> SUFFICES ASSUME n + 1 <= Count PROVE reach[n + 1] \in SUBSET ids
      OBVIOUS
    <3>1. n + 1 \in 0..Count /\ n + 1 # 0 /\ (n + 1) - 1 = n /\ n <= Count
      BY <1>2
    <3>2. reach[n + 1] = reach[n] \cup UNION {A[u] : u \in reach[n]}
      BY <1>5, <3>1
    <3> QED
      BY <2>2, <3>1, <3>2
  <2>3. \A n \in Nat : n \in T
    <3> HIDE DEF T
    <3> QED
      BY <2>1, <2>2, InductionOnNaturals
  <2> QED
    BY <1>2, <2>3
<1>7. reach \in [0..Count -> SUBSET ids] /\ IsSteps(reach, Count, S, G)
  <2>1. ASSUME NEW n \in 0..Count
        PROVE  reach[n] = IF n = 0 THEN S ELSE G[reach[n - 1]]
    <3>1. n # 0 => n - 1 \in 0..Count
      BY <1>2
    <3> QED
      BY <1>5, <1>6, <3>1
  <2> QED
    BY <1>5, <1>6, <2>1 DEF IsSteps
<1>8. G[reach[Count]] = reach[Count]
  <2> HIDE DEF G
  <2>1. Grows(G, ids, Count)
    BY <1>1, <1>2 DEF Grows
  <2>2. reach \in [0..Count -> SUBSET ids]
    BY <1>7
  <2>3. IsSteps(reach, Count, S, G)
    BY <1>7
  <2> QED
    BY ONLY <1>2, <2>1, <2>2, <2>3, GrowsToEnd
<1>9. Count \in 0..Count /\ 0 \in 0..Count
  BY <1>2
<1>10. \A u \in reach[Count] : A[u] \subseteq reach[Count]
  BY <1>6, <1>8, <1>9
<1>11. ASSUME NEW n \in Nat, n + 1 <= Count
       PROVE  reach[n + 1] = reach[n] \cup UNION {A[u] : u \in reach[n]}
  <2>1. n + 1 \in 0..Count /\ n + 1 # 0 /\ (n + 1) - 1 = n
    BY <1>2, <1>11
  <2> QED
    BY <1>5, <2>1
<1>12. ASSUME NEW C \in SUBSET ids, S \subseteq C, \A u \in C : A[u] \subseteq C
       PROVE  reach[Count] \subseteq C
  <2> DEFINE T == {n \in Nat : n <= Count => reach[n] \subseteq C}
  <2>1. 0 \in T
    BY <1>5, <1>9, <1>12
  <2>2. ASSUME NEW n \in Nat, n \in T PROVE n + 1 \in T
    BY <1>2, <1>11, <1>12, <2>2
  <2>3. \A n \in Nat : n \in T
    <3> HIDE DEF T
    <3> QED
      BY <2>1, <2>2, InductionOnNaturals
  <2> QED
    BY <1>2, <2>3
<1>13. S \subseteq reach[Count]
  <2> DEFINE T == {n \in Nat : n <= Count => S \subseteq reach[n]}
  <2>1. 0 \in T
    BY <1>5, <1>9
  <2>2. ASSUME NEW n \in Nat, n \in T PROVE n + 1 \in T
    BY <1>2, <1>11, <2>2
  <2>3. \A n \in Nat : n \in T
    <3> HIDE DEF T
    <3> QED
      BY <2>1, <2>2, InductionOnNaturals
  <2> QED
    BY <1>2, <2>3
<1> QED
  BY <1>3, <1>6, <1>9, <1>10, <1>12, <1>13

(* More leads to more. *)
LEMMA ReachOfMore ==
  ASSUME TaskGraphAssumption, NEW ids \in SUBSET Tasks, NEW A \in [ids -> SUBSET ids],
         NEW S \in SUBSET ids, NEW T \in SUBSET ids, S \subseteq Reach(A, T)
  PROVE  Reach(A, S) \subseteq Reach(A, T)
<1>1. /\ Reach(A, T) \in SUBSET ids
      /\ \A u \in Reach(A, T) : A[u] \subseteq Reach(A, T)
  BY ReachIsClosure
<1>2. \A C \in SUBSET ids :
        S \subseteq C /\ (\A u \in C : A[u] \subseteq C) => Reach(A, S) \subseteq C
  BY ReachIsClosure
<1> QED
  BY <1>1, <1>2

(* When every task is awaited, the roots lead to all of them. *)
LEMMA EntriesLeadToAll ==
  ASSUME TaskGraphAssumption, NEW ids \in SUBSET Tasks, NEW A \in [ids -> SUBSET ids],
         NEW order \in Seq(ids), Range(order) = ids
  PROVE  Entries(order, A) \in SUBSET ids /\ ids \subseteq Reach(A, Entries(order, A))
<1> DEFINE D == 0..Len(order)
           Pick(i, f) ==
             IF i = 0 THEN {}
             ELSE IF order[i] \in Reach(A, f[i - 1]) THEN f[i - 1]
             ELSE f[i - 1] \cup {order[i]}
           pick[i \in 0..Len(order)] ==
             IF i = 0 THEN {}
             ELSE IF order[i] \in Reach(A, pick[i - 1]) THEN pick[i - 1]
             ELSE pick[i - 1] \cup {order[i]}
           H == [f \in [D -> SUBSET ids] |-> [i \in D |-> Pick(i, f)]]
           rank == [i \in D |-> i]
           bound == Len(order) + 1
<1>1. Len(order) \in Nat /\ DOMAIN order = 1..Len(order)
      /\ \A i \in 1..Len(order) : order[i] \in ids
  OBVIOUS
<1>2. Entries(order, A) = pick[Len(order)]
  BY DEF Entries
<1>3. \A i \in D : i # 0 => i - 1 \in D /\ i \in 1..Len(order) /\ rank[i - 1] < rank[i]
  BY <1>1
<1>4. [i \in D |-> {}] \in [D -> SUBSET ids] /\ rank \in [D -> Nat] /\ bound \in Nat
      /\ \A i \in D : rank[i] < bound
  BY <1>1
<1>5. H \in [[D -> SUBSET ids] -> [D -> SUBSET ids]]
  <2>1. ASSUME NEW f \in [D -> SUBSET ids], NEW i \in D PROVE Pick(i, f) \in SUBSET ids
    BY <1>1, <1>3
  <2> QED
    BY <2>1
<1>6. \A f, g \in [D -> SUBSET ids], i \in D :
        (\A k \in D : rank[k] < rank[i] => f[k] = g[k]) => H[f][i] = H[g][i]
  <2>1. ASSUME NEW f \in [D -> SUBSET ids], NEW g \in [D -> SUBSET ids], NEW i \in D,
               \A k \in D : rank[k] < rank[i] => f[k] = g[k]
        PROVE  Pick(i, f) = Pick(i, g)
    <3>1. i # 0 => f[i - 1] = g[i - 1]
      BY <1>3, <2>1
    <3> QED
      BY <3>1
  <2> HIDE DEF Pick
  <2> QED
    BY <2>1
<1>7. \E f : f = [i \in D |-> Pick(i, f)]
  <2>1. \E f \in [D -> SUBSET ids] : f = H[f]
    <3> HIDE DEF D, H, rank, bound, Pick
    <3>1. Approximates(H, D, SUBSET ids, rank, bound)
      BY <1>4, <1>5, <1>6 DEF Approximates
    <3> QED
      BY <3>1, RecursionExists
  <2> QED
    BY <2>1
<1>8. pick = [i \in D |-> Pick(i, pick)]
  BY <1>7
<1> HIDE DEF pick
<1> DEFINE Good(i) == /\ pick[i] \in SUBSET ids
                      /\ \A k \in 1..i : order[k] \in Reach(A, pick[i])
           T == {i \in Nat : i <= Len(order) => Good(i)}
<1>9. 0 \in T
  BY <1>1, <1>8
<1>10. ASSUME NEW i \in Nat, i \in T PROVE i + 1 \in T
  <2> SUFFICES ASSUME i + 1 <= Len(order) PROVE Good(i + 1)
    OBVIOUS
  <2>1. i + 1 \in D /\ i + 1 # 0 /\ (i + 1) - 1 = i /\ i + 1 \in 1..Len(order) /\ i <= Len(order)
    BY <1>1
  <2>2. Good(i)
    BY <1>10, <2>1
  <2>3. pick[i + 1] = IF order[i + 1] \in Reach(A, pick[i]) THEN pick[i]
                      ELSE pick[i] \cup {order[i + 1]}
    BY <1>8, <2>1
  <2>4. pick[i + 1] \in SUBSET ids /\ pick[i] \subseteq pick[i + 1]
    BY <1>1, <2>1, <2>2, <2>3
  <2>5. pick[i + 1] \subseteq Reach(A, pick[i + 1])
    BY <2>4, ReachIsClosure
  <2>6. Reach(A, pick[i]) \subseteq Reach(A, pick[i + 1])
    <3>1. /\ pick[i] \in SUBSET ids /\ pick[i + 1] \in SUBSET ids
          /\ pick[i] \subseteq Reach(A, pick[i + 1])
      BY <2>2, <2>4, <2>5
    <3>2. \A U, V \in SUBSET ids : U \subseteq Reach(A, V) => Reach(A, U) \subseteq Reach(A, V)
      BY ReachOfMore
    <3> HIDE DEF Good
    <3> QED
      BY <3>1, <3>2
  <2>7. order[i + 1] \in Reach(A, pick[i + 1])
    BY <2>3, <2>5
  <2>8. \A k \in 1..(i + 1) : k = i + 1 \/ k \in 1..i
    OBVIOUS
  <2> QED
    BY <2>2, <2>4, <2>6, <2>7, <2>8
<1>11. \A i \in Nat : i \in T
  <2> HIDE DEF T
  <2> QED
    BY <1>9, <1>10, InductionOnNaturals
<1>12. Good(Len(order))
  BY <1>1, <1>11
<1>13. \A t \in ids : \E i \in 1..Len(order) : order[i] = t
  BY <1>1 DEF Range
<1> QED
  BY <1>2, <1>12, <1>13

-----------------------------------------------------------------------------
(* The nodes of the tree *)

(* Paths of n tasks from a root, without a repetition but for the last one. *)
Paths(ids, A, roots, n) ==
  {p \in [1..n -> ids] :
     /\ p[1] \in roots
     /\ \A i \in 1..(n - 1) : p[i + 1] \in A[p[i]]
     /\ \A i, j \in 1..(n - 1) : p[i] = p[j] => i = j}

(* Those without any. *)
Simple(ids, A, roots, n) ==
  {p \in Paths(ids, A, roots, n) : \A i, j \in 1..n : p[i] = p[j] => i = j}

LEMMA AppendIs ==
  ASSUME NEW S, NEW n \in Nat, NEW p \in [1..n -> S], NEW c \in S
  PROVE  /\ p \in Seq(S) /\ Len(p) = n
         /\ Append(p, c) \in [1..(n + 1) -> S]
         /\ \A i \in 1..n : Append(p, c)[i] = p[i]
         /\ Append(p, c)[n + 1] = c
<1>1. p \in Seq(S) /\ Len(p) = n
  OBVIOUS
<1>2. /\ Append(p, c) \in Seq(S) /\ Len(Append(p, c)) = n + 1
      /\ \A i \in 1..n : Append(p, c)[i] = p[i]
      /\ Append(p, c)[n + 1] = c
  BY <1>1, AppendProperties
<1>3. Append(p, c) \in [1..Len(Append(p, c)) -> S]
  BY <1>2, LenProperties
<1> QED
  BY ONLY <1>1, <1>2, <1>3

LEMMA OpenPaths ==
  ASSUME NEW ids, NEW A \in [ids -> SUBSET ids], NEW roots \in SUBSET ids,
         NEW n \in Nat \ {0}, NEW p \in Paths(ids, A, roots, n)
  PROVE  /\ Len(p) = n
         /\ ~Closes(p) <=> p \in Simple(ids, A, roots, n)
<1>1. p \in [1..n -> ids] /\ \A i, j \in 1..(n - 1) : p[i] = p[j] => i = j
  BY DEF Paths
<1>2. Len(p) = n
  BY <1>1
<1>3. ASSUME ~Closes(p), NEW i \in 1..n, NEW j \in 1..n, p[i] = p[j] PROVE i = j
  <2>1. \A k \in 1..(n - 1) : p[k] # p[n]
    BY <1>2, <1>3 DEF Closes
  <2>2. CASE i = n
    <3>1. j = n
      BY <1>3, <2>1, <2>2
    <3> QED
      BY <2>2, <3>1
  <2>3. CASE j = n
    <3>1. i = n
      BY <1>3, <2>1, <2>3
    <3> QED
      BY <2>3, <3>1
  <2>4. CASE i # n /\ j # n
    BY <1>1, <1>3, <2>4
  <2> QED
    BY <2>2, <2>3, <2>4
<1>4. ASSUME \A i, j \in 1..n : p[i] = p[j] => i = j PROVE ~Closes(p)
  <2> SUFFICES ASSUME NEW k \in 1..(n - 1), p[k] = p[n] PROVE FALSE
    BY <1>2 DEF Closes
  <2>1. k \in 1..n /\ n \in 1..n /\ k # n
    OBVIOUS
  <2> QED
    BY <1>4, <2>1
<1> QED
  BY <1>2, <1>3, <1>4 DEF Simple

LEMMA NextPaths ==
  ASSUME NEW ids, NEW A \in [ids -> SUBSET ids], NEW roots \in SUBSET ids,
         NEW n \in Nat \ {0}
  PROVE  UNION {{Append(p, c) : c \in A[p[n]]} :
                 p \in {q \in Paths(ids, A, roots, n) : ~Closes(q)}}
         = Paths(ids, A, roots, n + 1)
<1>1. ASSUME NEW p \in Paths(ids, A, roots, n), ~Closes(p), NEW c \in A[p[n]]
      PROVE  Append(p, c) \in Paths(ids, A, roots, n + 1)
  <2>0. p \in Simple(ids, A, roots, n)
    BY <1>1, OpenPaths
  <2>1. /\ p \in [1..n -> ids] /\ p[1] \in roots
        /\ \A i \in 1..(n - 1) : p[i + 1] \in A[p[i]]
        /\ \A i, j \in 1..n : p[i] = p[j] => i = j
    BY <2>0 DEF Paths, Simple
  <2>2. n \in 1..n /\ 1 \in 1..n /\ c \in ids
    BY <2>1
  <2>3. /\ Append(p, c) \in [1..(n + 1) -> ids]
        /\ \A i \in 1..n : Append(p, c)[i] = p[i]
        /\ Append(p, c)[n + 1] = c
    <3>1. n \in Nat /\ p \in [1..n -> ids] /\ c \in ids
      BY <2>1, <2>2
    <3> QED
      BY ONLY <3>1, AppendIs
  <2>4. PICK q : q = Append(p, c)
    OBVIOUS
  <2>5. ASSUME NEW i \in 1..((n + 1) - 1) PROVE q[i + 1] \in A[q[i]]
    <3>1. i \in 1..n /\ q[i] = p[i]
      BY <2>3, <2>4
    <3>2. CASE i = n
      BY <2>3, <2>4, <3>1, <3>2
    <3>3. CASE i # n
      <4>1. i \in 1..(n - 1) /\ i + 1 \in 1..n
        BY <3>1, <3>3
      <4> QED
        BY <2>1, <2>3, <2>4, <3>1, <4>1
    <3> QED
      BY <3>2, <3>3
  <2>6. \A i, j \in 1..((n + 1) - 1) : q[i] = q[j] => i = j
    <3>1. (n + 1) - 1 = n
      OBVIOUS
    <3> QED
      BY <2>1, <2>3, <2>4, <3>1
  <2> QED
    BY <2>1, <2>2, <2>3, <2>4, <2>5, <2>6 DEF Paths
<1>2. ASSUME NEW q \in Paths(ids, A, roots, n + 1)
      PROVE  \E p \in Paths(ids, A, roots, n) :
               ~Closes(p) /\ \E c \in A[p[n]] : q = Append(p, c)
  <2>1. /\ q \in [1..(n + 1) -> ids] /\ q[1] \in roots
        /\ \A i \in 1..n : q[i + 1] \in A[q[i]]
        /\ \A i, j \in 1..n : q[i] = q[j] => i = j
    <3>1. (n + 1) - 1 = n
      OBVIOUS
    <3> QED
      BY <3>1 DEF Paths
  <2> DEFINE p == [i \in 1..n |-> q[i]]
  <2>2. p \in [1..n -> ids] /\ \A i \in 1..n : p[i] = q[i]
    BY <2>1
  <2> HIDE DEF p
  <2>3. n \in 1..n /\ 1 \in 1..n /\ n + 1 \in 1..(n + 1)
    OBVIOUS
  <2>4. p \in Simple(ids, A, roots, n) /\ p \in Paths(ids, A, roots, n)
    <3>1. \A i \in 1..(n - 1) : i \in 1..n /\ i + 1 \in 1..n
      OBVIOUS
    <3>2. p \in Paths(ids, A, roots, n)
      BY <2>1, <2>2, <2>3, <3>1 DEF Paths
    <3> QED
      BY <2>1, <2>2, <3>2 DEF Simple
  <2>5. q[n + 1] \in A[p[n]] /\ q[n + 1] \in ids
    BY <2>1, <2>2, <2>3
  <2>6. q = Append(p, q[n + 1])
    <3>1. /\ Append(p, q[n + 1]) \in [1..(n + 1) -> ids]
          /\ \A i \in 1..n : Append(p, q[n + 1])[i] = p[i]
          /\ Append(p, q[n + 1])[n + 1] = q[n + 1]
      BY <2>2, <2>5, AppendIs
    <3>2. ASSUME NEW i \in 1..(n + 1) PROVE Append(p, q[n + 1])[i] = q[i]
      <4>1. i \in 1..n \/ i = n + 1
        OBVIOUS
      <4> QED
        BY <2>2, <3>1, <4>1
    <3> QED
      BY <2>1, <3>1, <3>2
  <2> QED
    BY <2>4, <2>5, <2>6, OpenPaths
<1> DEFINE Grown(p) == {Append(p, c) : c \in A[p[n]]}
           Open == {q \in Paths(ids, A, roots, n) : ~Closes(q)}
<1>3. \A p \in Open : Grown(p) \subseteq Paths(ids, A, roots, n + 1)
  BY <1>1
<1>4. \A q \in Paths(ids, A, roots, n + 1) : \E p \in Open : q \in Grown(p)
  BY <1>2
<1> HIDE DEF Open, Grown
<1>5. UNION {Grown(p) : p \in Open} = Paths(ids, A, roots, n + 1)
  BY <1>3, <1>4
<1> QED
  BY <1>5 DEF Open, Grown

LEMMA FirstPaths ==
  ASSUME NEW ids, NEW A \in [ids -> SUBSET ids], NEW roots \in SUBSET ids
  PROVE  {<<t>> : t \in roots} = Paths(ids, A, roots, 1)
<1>1. ASSUME NEW t \in roots PROVE <<t>> \in Paths(ids, A, roots, 1)
  <2>1. <<t>> \in [1..1 -> ids] /\ <<t>>[1] = t
    OBVIOUS
  <2> QED
    BY <2>1 DEF Paths
<1>2. ASSUME NEW p \in Paths(ids, A, roots, 1) PROVE p = <<p[1]>> /\ p[1] \in roots
  <2>1. p \in [1..1 -> ids] /\ p[1] \in roots
    BY DEF Paths
  <2>2. p = [i \in 1..1 |-> p[i]]
    BY <2>1
  <2>3. <<p[1]>> = [i \in 1..1 |-> p[1]]
    OBVIOUS
  <2> QED
    BY <2>1, <2>2, <2>3
<1> QED
  BY <1>1, <1>2

LEMMA NodesArePaths ==
  ASSUME TaskGraphAssumption, NEW ids, NEW A \in [ids -> SUBSET ids], NEW roots \in SUBSET ids
  PROVE  Nodes(roots, A) = UNION {Paths(ids, A, roots, n) : n \in 1..(Count + 1)}
<1> DEFINE level[n \in 1..(Count + 1)] ==
             IF n = 1 THEN {<<t>> : t \in roots}
             ELSE UNION {{Append(p, c) : c \in A[p[n - 1]]} :
                          p \in {q \in level[n - 1] : ~Closes(q)}}
           P(n) == Paths(ids, A, roots, n)
           Next1(n, before) == IF n = 1 THEN {<<t>> : t \in roots}
                               ELSE UNION {{Append(p, c) : c \in A[p[n - 1]]} :
                                            p \in {q \in before : ~Closes(q)}}
<1>1. Count \in Nat
  BY DEF TaskGraphAssumption
<1>2. ASSUME NEW n \in 1..(Count + 1), NEW before, n # 1 => before = P(n - 1)
      PROVE  Next1(n, before) = P(n)
  <2>1. CASE n = 1
    BY <2>1, FirstPaths
  <2>2. CASE n # 1
    <3>1. PICK m \in Nat \ {0} : m = n - 1 /\ n = m + 1
      BY <1>1, <2>2
    <3>2. UNION {{Append(p, c) : c \in A[p[m]]} : p \in {q \in P(m) : ~Closes(q)}} = P(m + 1)
      BY NextPaths
    <3>3. Next1(n, before) =
            UNION {{Append(p, c) : c \in A[p[m]]} : p \in {q \in P(m) : ~Closes(q)}}
      BY <1>2, <2>2, <3>1
    <3> QED
      BY <3>1, <3>2, <3>3
  <2> QED
    BY <2>1, <2>2
<1>3. level = [n \in 1..(Count + 1) |-> Next1(n, level[n - 1])]
  <2> DEFINE f == [n \in 1..(Count + 1) |-> P(n)]
  <2> HIDE DEF P
  <2>1. ASSUME NEW n \in 1..(Count + 1) PROVE f[n] = Next1(n, f[n - 1])
    <3>1. n # 1 => n - 1 \in 1..(Count + 1)
      BY <1>1
    <3>2. n # 1 => f[n - 1] = P(n - 1)
      BY <3>1
    <3>3. Next1(n, f[n - 1]) = P(n)
      <4> HIDE DEF f, Next1
      <4> QED
        BY <1>2, <3>2
    <3> QED
      BY <3>3
  <2>2. f = [n \in 1..(Count + 1) |-> Next1(n, f[n - 1])]
    <3> HIDE DEF Next1
    <3> QED
      BY <2>1
  <2>3. \E g : g = [n \in 1..(Count + 1) |-> Next1(n, g[n - 1])]
    <3> HIDE DEF f, Next1
    <3> QED
      BY <2>2
  <2> QED
    BY <2>3
<1>4. Nodes(roots, A) = UNION {level[n] : n \in 1..(Count + 1)}
  BY DEF Nodes
<1> HIDE DEF level, Next1, P
<1>5. \A n \in 1..(Count + 1) : level[n] = P(n)
  <2> DEFINE T == {n \in Nat : n < Count + 1 => level[n + 1] = P(n + 1)}
  <2>1. ASSUME NEW n \in 1..(Count + 1), n # 1 => level[n - 1] = P(n - 1)
        PROVE  level[n] = P(n)
    BY <1>2, <1>3, <2>1
  <2>2. 0 \in T
    <3>1. 1 \in 1..(Count + 1) /\ 0 + 1 = 1
      BY <1>1
    <3> QED
      BY <2>1, <3>1
  <2>3. ASSUME NEW n \in Nat, n \in T PROVE n + 1 \in T
    <3> SUFFICES ASSUME n + 1 < Count + 1 PROVE level[(n + 1) + 1] = P((n + 1) + 1)
      OBVIOUS
    <3>1. (n + 1) + 1 \in 1..(Count + 1) /\ ((n + 1) + 1) - 1 = n + 1 /\ n < Count + 1
      BY <1>1
    <3> QED
      BY <2>1, <2>3, <3>1
  <2>4. \A n \in Nat : n \in T
    <3> HIDE DEF T
    <3> QED
      BY <2>2, <2>3, InductionOnNaturals
  <2>5. ASSUME NEW n \in 1..(Count + 1) PROVE level[n] = P(n)
    <3>1. n - 1 \in Nat /\ n - 1 < Count + 1 /\ (n - 1) + 1 = n
      BY <1>1
    <3> QED
      BY <2>4, <3>1
  <2> QED
    BY <2>5
<1> QED
  BY <1>4, <1>5 DEF P

-----------------------------------------------------------------------------
(* The tree leads to all that the roots do *)

LEMMA SimpleIsShort ==
  ASSUME TaskGraphAssumption, NEW ids \in SUBSET Tasks, NEW A \in [ids -> SUBSET ids],
         NEW roots \in SUBSET ids, NEW n \in Nat \ {0}, NEW p \in Simple(ids, A, roots, n)
  PROVE  n <= Count
<1>1. p \in [1..n -> ids] /\ \A i, j \in 1..n : p[i] = p[j] => i = j
  BY DEF Simple, Paths
<1>2. IsFiniteSet(ids) /\ Cardinality(ids) \in 0..Count /\ Count \in Nat
  BY TasksAreFinite DEF TaskGraphAssumption
<1>3. n <= Cardinality(ids)
  BY <1>1, <1>2, OneToOne
<1> QED
  BY <1>2, <1>3

(* A path stays in a set that has all that its own tasks await. *)
LEMMA PathStays ==
  ASSUME NEW ids, NEW A \in [ids -> SUBSET ids], NEW n \in Nat \ {0}, NEW p \in [1..n -> ids],
         \A i \in 1..(n - 1) : p[i + 1] \in A[p[i]],
         NEW C \in SUBSET ids, p[1] \in C, \A u \in C : A[u] \subseteq C
  PROVE  \A i \in 1..n : p[i] \in C
<1> DEFINE T == {i \in Nat : i + 1 <= n => p[i + 1] \in C}
<1>1. 0 \in T
  OBVIOUS
<1>2. ASSUME NEW i \in Nat, i \in T PROVE i + 1 \in T
  <2> SUFFICES ASSUME (i + 1) + 1 <= n PROVE p[(i + 1) + 1] \in C
    OBVIOUS
  <2>1. i + 1 \in 1..(n - 1) /\ i + 1 <= n
    OBVIOUS
  <2>2. p[(i + 1) + 1] \in A[p[i + 1]] /\ p[i + 1] \in C
    BY <1>2, <2>1
  <2> QED
    BY <2>2
<1>3. \A i \in Nat : i \in T
  <2> HIDE DEF T
  <2> QED
    BY <1>1, <1>2, InductionOnNaturals
<1>4. ASSUME NEW i \in 1..n PROVE p[i] \in C
  <2>1. i - 1 \in Nat /\ (i - 1) + 1 = i /\ i <= n
    OBVIOUS
  <2> QED
    BY <1>3, <2>1
<1> QED
  BY <1>4

LEMMA PathsAreReached ==
  ASSUME TaskGraphAssumption, NEW ids \in SUBSET Tasks, NEW A \in [ids -> SUBSET ids],
         NEW roots \in SUBSET ids, NEW n \in Nat \ {0}, NEW p \in Paths(ids, A, roots, n)
  PROVE  \A i \in 1..n : p[i] \in Reach(A, {p[1]})
<1>1. /\ p \in [1..n -> ids] /\ p[1] \in ids
      /\ \A i \in 1..(n - 1) : p[i + 1] \in A[p[i]]
  BY DEF Paths
<1>2. {p[1]} \in SUBSET ids
  BY <1>1
<1>3. /\ Reach(A, {p[1]}) \in SUBSET ids /\ {p[1]} \subseteq Reach(A, {p[1]})
      /\ \A u \in Reach(A, {p[1]}) : A[u] \subseteq Reach(A, {p[1]})
  BY <1>2, ReachIsClosure
<1>4. PICK C : C = Reach(A, {p[1]})
  OBVIOUS
<1>5. C \in SUBSET ids /\ p[1] \in C /\ \A u \in C : A[u] \subseteq C
  BY <1>3, <1>4
<1>6. \A i \in 1..n : p[i] \in C
  BY ONLY <1>1, <1>5, PathStays, n \in Nat \ {0}, A \in [ids -> SUBSET ids]
<1> QED
  BY <1>4, <1>6

(* The beginning of a path without repetitions is one. *)
LEMMA CutPath ==
  ASSUME NEW ids, NEW A \in [ids -> SUBSET ids], NEW roots \in SUBSET ids,
         NEW n \in Nat \ {0}, NEW p \in Simple(ids, A, roots, n), NEW k \in 1..n
  PROVE  \E q \in Simple(ids, A, roots, k) : \A i \in 1..k : q[i] = p[i]
<1> DEFINE q == [i \in 1..k |-> p[i]]
<1>1. /\ p \in [1..n -> ids] /\ p[1] \in roots
      /\ \A i \in 1..(n - 1) : p[i + 1] \in A[p[i]]
      /\ \A i, j \in 1..n : p[i] = p[j] => i = j
  BY DEF Simple, Paths
<1>2. q \in [1..k -> ids] /\ \A i \in 1..k : q[i] = p[i]
  BY <1>1
<1> HIDE DEF q
<1>3. 1 \in 1..k /\ (\A i \in 1..(k - 1) : i \in 1..(n - 1) /\ i \in 1..k /\ i + 1 \in 1..k)
      /\ \A i \in 1..k : i \in 1..n
  OBVIOUS
<1>4. q \in Simple(ids, A, roots, k)
  BY <1>1, <1>2, <1>3 DEF Simple, Paths
<1> QED
  BY <1>2, <1>4

LEMMA ReachedByPaths ==
  ASSUME TaskGraphAssumption, NEW ids \in SUBSET Tasks, NEW A \in [ids -> SUBSET ids],
         NEW roots \in SUBSET ids, NEW t \in Reach(A, roots)
  PROVE  \E n \in 1..Count : \E p \in Simple(ids, A, roots, n) : p[n] = t
<1> DEFINE E == {u \in ids : \E n \in Nat \ {0} : \E p \in Simple(ids, A, roots, n) : p[n] = u}
<1>1. ASSUME NEW r \in roots PROVE r \in E
  <2> DEFINE p == [i \in 1..1 |-> r]
  <2>1. p \in Simple(ids, A, roots, 1) /\ p[1] = r
    BY DEF Simple, Paths
  <2> QED
    BY <2>1
<1>2. ASSUME NEW u \in E, NEW c \in A[u] PROVE c \in E
  <2>1a. PICK n \in Nat \ {0} : \E p \in Simple(ids, A, roots, n) : p[n] = u
    BY <1>2
  <2>1. PICK p \in Simple(ids, A, roots, n) : p[n] = u
    BY <2>1a
  <2>2. /\ p \in [1..n -> ids] /\ p[1] \in roots
        /\ \A i \in 1..(n - 1) : p[i + 1] \in A[p[i]]
        /\ \A i, j \in 1..n : p[i] = p[j] => i = j
    BY DEF Simple, Paths
  <2>3. c \in ids
    BY <1>2
  <2>4. CASE \E k \in 1..n : p[k] = c
    <3>1. PICK k \in 1..n : p[k] = c
      BY <2>4
    <3>2. PICK q \in Simple(ids, A, roots, k) : \A i \in 1..k : q[i] = p[i]
      BY CutPath
    <3>3. k \in Nat \ {0} /\ q[k] = c
      BY <3>1, <3>2
    <3> QED
      BY <2>3, <3>3
  <2>5. CASE \A k \in 1..n : p[k] # c
    <3> DEFINE q == [i \in 1..(n + 1) |-> IF i = n + 1 THEN c ELSE p[i]]
    <3>1. q \in [1..(n + 1) -> ids] /\ (\A i \in 1..n : q[i] = p[i]) /\ q[n + 1] = c
      BY <2>2, <2>3
    <3> HIDE DEF q
    <3>2. (n + 1) - 1 = n /\ 1 \in 1..n /\ n + 1 \in Nat \ {0}
      OBVIOUS
    <3>3. \A i \in 1..(n + 1) : i \in 1..n \/ i = n + 1
      OBVIOUS
    <3>4. \A i, j \in 1..(n + 1) : q[i] = q[j] => i = j
      BY <2>2, <2>5, <3>1, <3>3
    <3>5. ASSUME NEW i \in 1..n PROVE q[i + 1] \in A[q[i]]
      <4>1. CASE i = n
        BY <1>2, <2>1, <3>1, <4>1
      <4>2. CASE i # n
        <5>1. i \in 1..(n - 1) /\ i + 1 \in 1..n
          BY <4>2
        <5> QED
          BY <2>2, <3>1, <5>1
      <4> QED
        BY <4>1, <4>2
    <3>6. q \in Simple(ids, A, roots, n + 1)
      BY <2>2, <3>1, <3>2, <3>3, <3>4, <3>5 DEF Simple, Paths
    <3> QED
      BY <2>3, <3>1, <3>2, <3>6
  <2> QED
    BY <2>4, <2>5
<1>3. E \in SUBSET ids /\ roots \subseteq E /\ \A u \in E : A[u] \subseteq E
  BY <1>1, <1>2
<1>4. Reach(A, roots) \subseteq E
  <2> HIDE DEF E
  <2> QED
    BY <1>3, ReachIsClosure
<1>5a. PICK n \in Nat \ {0} : \E p \in Simple(ids, A, roots, n) : p[n] = t
  BY <1>4
<1>5. PICK p \in Simple(ids, A, roots, n) : p[n] = t
  BY <1>5a
<1>6. n \in 1..Count
  <2>1. n <= Count
    BY SimpleIsShort
  <2> QED
    BY <2>1 DEF TaskGraphAssumption
<1> QED
  BY <1>5, <1>6

LEMMA ReachedHaveNodes ==
  ASSUME TaskGraphAssumption, NEW ids \in SUBSET Tasks, NEW A \in [ids -> SUBSET ids],
         NEW roots \in SUBSET ids, NEW t \in Reach(A, roots)
  PROVE  \E p \in Nodes(roots, A) : p[Len(p)] = t
<1>1a. PICK n \in 1..Count : \E p \in Simple(ids, A, roots, n) : p[n] = t
  BY ReachedByPaths
<1>1. PICK p \in Simple(ids, A, roots, n) : p[n] = t
  BY <1>1a
<1>2. n \in 1..(Count + 1) /\ n \in Nat \ {0} /\ p \in Paths(ids, A, roots, n)
  BY DEF TaskGraphAssumption, Simple
<1>3. Len(p) = n
  BY <1>2, OpenPaths
<1>4. p \in Nodes(roots, A)
  BY <1>2, NodesArePaths
<1> QED
  BY <1>1, <1>3, <1>4

(* A task that no root leads to is behind a cycle. *)
LEMMA BehindCycle ==
  ASSUME TaskGraphAssumption, NEW ids \in SUBSET Tasks, NEW A \in [ids -> SUBSET ids],
         NEW roots \in SUBSET ids,
         \A w \in ids \ roots : \E u \in ids : w \in A[u],
         NEW t \in ids, t \notin Reach(A, roots)
  PROVE  \E u \in ids : \E w \in A[u] : u \in Reach(A, {w}) /\ t \in Reach(A, {u})
<1> DEFINE B(v) == Reach(A, {v})
           U == {v \in ids : t \in B(v)}
<1>1. \A v \in ids : /\ B(v) \in SUBSET ids /\ v \in B(v)
                     /\ \A u \in B(v) : A[u] \subseteq B(v)
  <2> SUFFICES ASSUME NEW v \in ids
               PROVE  B(v) \in SUBSET ids /\ v \in B(v) /\ \A u \in B(v) : A[u] \subseteq B(v)
    OBVIOUS
  <2>1. PICK S \in SUBSET ids : S = {v}
    OBVIOUS
  <2>2. /\ Reach(A, S) \in SUBSET ids /\ S \subseteq Reach(A, S)
        /\ \A u \in Reach(A, S) : A[u] \subseteq Reach(A, S)
    BY ReachIsClosure
  <2> QED
    BY <2>1, <2>2
<1>2. ASSUME NEW v \in ids, NEW u \in B(v) PROVE B(u) \subseteq B(v)
  BY <1>1, <1>2, ReachOfMore
<1>3. \A v \in U : v \notin roots
  <2> SUFFICES ASSUME NEW v \in U, v \in roots PROVE FALSE
    OBVIOUS
  <2>1. {v} \subseteq Reach(A, roots) /\ {v} \in SUBSET ids
    BY ReachIsClosure
  <2>2. B(v) \subseteq Reach(A, roots)
    BY <2>1, ReachOfMore
  <2> QED
    BY <2>2
<1>4. t \in U
  BY <1>1
<1>5. \A v \in ids : IsFiniteSet(B(v)) /\ Cardinality(B(v)) \in 0..Count
  BY <1>1, TasksAreFinite
<1> HIDE DEF B
<1> DEFINE sizes == {Cardinality(B(v)) : v \in U}
<1>6. sizes \subseteq Nat /\ sizes # {} /\ Count \in Nat /\ \A n \in sizes : n <= Count
  BY <1>4, <1>5 DEF TaskGraphAssumption
<1>7. PICK m \in sizes : \A n \in sizes : n <= m
  <2> HIDE DEF sizes
  <2> QED
    BY <1>6, GreatestOfNaturals
<1>8. PICK w \in U : \A v \in U : Cardinality(B(v)) <= Cardinality(B(w))
  BY <1>7
<1>9. PICK u \in ids : w \in A[u]
  BY <1>3, <1>8
<1>10. B(w) \subseteq B(u)
  BY <1>1, <1>2, <1>9
<1>11. u \in U
  BY <1>8, <1>10
<1>12. B(w) = B(u)
  BY <1>5, <1>8, <1>10, <1>11, FS_Subset
<1> QED
  BY <1>1, <1>9, <1>11, <1>12 DEF B

-----------------------------------------------------------------------------
(* The cycles *)

(* f goes around the tasks of S, one after the other, over edges of A.     *)
Around(S, A, f) ==
  /\ f \in [1..Cardinality(S) -> S] /\ Range(f) = S
  /\ \A i \in DOMAIN f : f[(i % Cardinality(S)) + 1] \in A[f[i]]

LEMMA CycleKeyIs ==
  ASSUME NEW ids, NEW A \in [ids -> SUBSET ids], NEW roots \in SUBSET ids,
         NEW n \in Nat \ {0}, NEW p \in Paths(ids, A, roots, n),
         NEW k \in 1..(n - 1), p[k] = p[n]
  PROVE  /\ Closes(p)
         /\ \A t : t \in CycleKey(p) <=> \E i \in k..(n - 1) : p[i] = t
<1>1. p \in [1..n -> ids] /\ \A i, j \in 1..(n - 1) : p[i] = p[j] => i = j
  BY DEF Paths
<1>2. p \in Seq(ids) /\ Len(p) = n
  BY <1>1
<1>3. Closes(p)
  BY <1>2 DEF Closes
<1>4. (CHOOSE j \in 1..(n - 1) : p[j] = p[n]) = k
  <2>1. \A j \in 1..(n - 1) : p[j] = p[n] => j = k
    BY <1>1
  <2> QED
    BY <2>1
<1>5. CycleKey(p) = Range(SubSeq(p, k, n))
  BY <1>2, <1>4 DEF CycleKey
<1>6. SubSeq(p, k, n) = [i \in 1..((n - k) + 1) |-> p[(i + k) - 1]]
  <2>1. k \in Nat \ {0} /\ n \in Nat /\ k <= n
    OBVIOUS
  <2> QED
    BY <1>2, <2>1
<1>7. \A t : t \in CycleKey(p) <=> \E i \in 1..((n - k) + 1) : p[(i + k) - 1] = t
  BY <1>5, <1>6 DEF Range
<1>8. ASSUME NEW i \in 1..((n - k) + 1)
      PROVE  \E j \in k..(n - 1) : p[j] = p[(i + k) - 1]
  <2>1. CASE i = (n - k) + 1
    <3>1. (i + k) - 1 = n /\ k \in k..(n - 1)
      BY <2>1
    <3> QED
      BY <3>1
  <2>2. CASE i # (n - k) + 1
    <3>1. (i + k) - 1 \in k..(n - 1)
      BY <2>2
    <3> QED
      BY <3>1
  <2> QED
    BY <2>1, <2>2
<1>9. ASSUME NEW i \in k..(n - 1)
      PROVE  \E j \in 1..((n - k) + 1) : p[(j + k) - 1] = p[i]
  <2>1. (i - k) + 1 \in 1..((n - k) + 1) /\ (((i - k) + 1) + k) - 1 = i
    OBVIOUS
  <2> QED
    BY <2>1
<1>10. ASSUME NEW t PROVE t \in CycleKey(p) <=> \E i \in k..(n - 1) : p[i] = t
  BY <1>7, <1>8, <1>9
<1> QED
  BY <1>3, <1>10

(* Any path that closes goes around the tasks of its cycle. *)
LEMMA KeyGoesAround ==
  ASSUME NEW ids, NEW A \in [ids -> SUBSET ids], NEW roots \in SUBSET ids,
         NEW n \in Nat \ {0}, NEW p \in Paths(ids, A, roots, n), Closes(p)
  PROVE  /\ CycleKey(p) \in SUBSET ids /\ CycleKey(p) # {}
         /\ \A t \in CycleKey(p) : \E i \in 1..n : p[i] = t
         /\ \E f : Around(CycleKey(p), A, f)
<1>1. /\ p \in [1..n -> ids]
      /\ \A i \in 1..(n - 1) : p[i + 1] \in A[p[i]]
      /\ \A i, j \in 1..(n - 1) : p[i] = p[j] => i = j
  BY DEF Paths
<1>2. PICK k \in 1..(n - 1) : p[k] = p[n]
  BY <1>1 DEF Closes
<1>3. PICK S : S = CycleKey(p)
  OBVIOUS
<1>4. \A t : t \in S <=> \E i \in k..(n - 1) : p[i] = t
  <2>1. \A t : t \in CycleKey(p) <=> \E i \in k..(n - 1) : p[i] = t
    BY <1>2, CycleKeyIs
  <2> QED
    BY <1>3, <2>1
<1>5. \A i \in k..(n - 1) : i \in 1..n /\ i \in 1..(n - 1) /\ i + 1 \in 1..n
  OBVIOUS
<1>6. S \in SUBSET ids /\ \A t \in S : \E i \in 1..n : p[i] = t
  BY <1>1, <1>4, <1>5
<1>7. p[k] \in S
  BY <1>4
<1> DEFINE c == n - k
           f == [i \in 1..c |-> p[(i + k) - 1]]
<1>8. c \in Nat \ {0} /\ n = c + k /\ \A i \in 1..c : (i + k) - 1 \in k..(n - 1)
  OBVIOUS
<1>9. \A i \in 1..c : f[i] = p[(i + k) - 1]
  OBVIOUS
<1>10. f \in [1..c -> S]
  BY <1>4, <1>8
<1> HIDE DEF f
<1>11. \A t \in S : \E i \in 1..c : f[i] = t
  <2> SUFFICES ASSUME NEW t \in S PROVE \E i \in 1..c : f[i] = t
    OBVIOUS
  <2>1. PICK i \in k..(n - 1) : p[i] = t
    BY <1>4
  <2>2. (i - k) + 1 \in 1..c /\ (((i - k) + 1) + k) - 1 = i
    OBVIOUS
  <2> QED
    BY <1>9, <2>1, <2>2
<1>12. \A i, j \in 1..c : f[i] = f[j] => i = j
  <2> SUFFICES ASSUME NEW i \in 1..c, NEW j \in 1..c, f[i] = f[j] PROVE i = j
    OBVIOUS
  <2>1. (i + k) - 1 \in 1..(n - 1) /\ (j + k) - 1 \in 1..(n - 1)
    BY <1>5, <1>8
  <2>2. (i + k) - 1 = (j + k) - 1
    BY <1>1, <1>9, <2>1
  <2> QED
    BY <2>2
<1>13. \A i \in 1..c : f[(i % c) + 1] \in A[f[i]]
  <2> SUFFICES ASSUME NEW i \in 1..c PROVE f[(i % c) + 1] \in A[f[i]]
    OBVIOUS
  <2>0. (i % c) + 1 = IF i = c THEN 1 ELSE i + 1
    BY <1>8
  <2>1. CASE i = c
    <3>1. 1 \in 1..c /\ (1 + k) - 1 = k /\ (c + k) - 1 = n - 1 /\ n - 1 \in 1..(n - 1)
          /\ (n - 1) + 1 = n
      BY <1>8
    <3>2. f[1] = p[k] /\ f[i] = p[n - 1]
      BY <1>9, <2>1, <3>1
    <3>3. p[n] \in A[p[n - 1]]
      BY <1>1, <3>1
    <3> QED
      BY <1>2, <2>0, <2>1, <3>2, <3>3
  <2>2. CASE i # c
    <3>1. i + 1 \in 1..c /\ (i + k) - 1 \in 1..(n - 1) /\ ((i + 1) + k) - 1 = ((i + k) - 1) + 1
      BY <1>8, <2>2
    <3>2. f[i + 1] = p[((i + k) - 1) + 1] /\ f[i] = p[(i + k) - 1]
      BY <1>9, <3>1
    <3> QED
      BY <1>1, <2>0, <2>2, <3>1, <3>2
  <2> QED
    BY <2>1, <2>2
<1>14. Cardinality(S) = c
  <2> HIDE DEF c
  <2>1. IsFiniteSet(1..c) /\ Cardinality(1..c) = c
    BY <1>8, FS_Interval
  <2>2. f \in Surjection(1..c, S)
    BY <1>10, <1>11 DEF Surjection
  <2>3. f \in Injection(1..c, S)
    BY <1>10, <1>12 DEF Injection, IsInjective
  <2> QED
    BY ONLY <2>1, <2>2, <2>3, FS_Surjection
<1>15. Around(S, A, f)
  <2>1. DOMAIN f = 1..c /\ Range(f) = S
    BY <1>10, <1>11 DEF Range
  <2> HIDE DEF c
  <2> QED
    BY <1>10, <1>13, <1>14, <2>1 DEF Around
<1> QED
  BY <1>3, <1>6, <1>7, <1>15

(* A path to some task of S that is the first of S on it *)
LEMMA FirstOfCycle ==
  ASSUME TaskGraphAssumption, NEW ids \in SUBSET Tasks, NEW A \in [ids -> SUBSET ids],
         NEW roots \in SUBSET ids, NEW S, NEW s \in S, s \in Reach(A, roots)
  PROVE  \E n \in Nat \ {0} : \E p \in Simple(ids, A, roots, n) :
           p[n] \in S /\ \A i \in 1..(n - 1) : p[i] \notin S
<1> DEFINE L == {n \in Nat \ {0} : \E p \in Simple(ids, A, roots, n) : p[n] \in S}
<1>1. L \subseteq Nat /\ L # {}
  <2>1. PICK n \in 1..Count : \E p \in Simple(ids, A, roots, n) : p[n] = s
    BY ReachedByPaths
  <2> QED
    BY <2>1
<1>2. PICK n \in L : \A k \in L : n <= k
  <2> HIDE DEF L
  <2> QED
    BY <1>1, LeastOfNaturals
<1>3. PICK p \in Simple(ids, A, roots, n) : p[n] \in S
  BY <1>2
<1>4. ASSUME NEW k \in 1..(n - 1), p[k] \in S PROVE FALSE
  <2>1. k \in 1..n /\ k \in Nat \ {0} /\ ~(n <= k)
    BY <1>2
  <2>2. PICK q \in Simple(ids, A, roots, k) : \A i \in 1..k : q[i] = p[i]
    BY <1>2, <1>3, <2>1, CutPath
  <2>3. k \in L
    BY <1>4, <2>1, <2>2
  <2> QED
    BY <1>2, <2>1, <2>3
<1> QED
  BY <1>2, <1>3, <1>4

(* The place that comes after i, around *)
LEMMA AfterIs ==
  ASSUME NEW c \in Nat \ {0}, NEW i \in 1..c
  PROVE  (i % c) + 1 = IF i = c THEN 1 ELSE i + 1
OBVIOUS

(* f goes once through the tasks of S, which are c, over edges of A. *)
Rolls(A, S, c, f) ==
  /\ f \in [1..c -> S] /\ \A t \in S : \E i \in 1..c : f[i] = t
  /\ \A i, k \in 1..c : f[i] = f[k] => i = k
  /\ \A i \in 1..c : f[(i % c) + 1] \in A[f[i]]

IsTurn(A, S, c, g, first) ==
  /\ g \in [0..c -> S] /\ g[0] = first /\ g[c] = first
  /\ \A i \in 0..(c - 1) : g[i + 1] \in A[g[i]]
  /\ \A i, k \in 0..(c - 1) : g[i] = g[k] => i = k
  /\ \A t \in S : \E i \in 0..(c - 1) : g[i] = t

(* Once around, from the j-th task of a cycle on, the j-th again at the    *)
(* end.                                                                    *)
LEMMA Turn ==
  ASSUME NEW A, NEW S, NEW c \in Nat \ {0}, NEW f, Rolls(A, S, c, f), NEW j \in 1..c
  PROVE  \E g : IsTurn(A, S, c, g, f[j])
<1> DEFINE at(i) == IF j + i <= c THEN j + i ELSE (j + i) - c
           g == [i \in 0..c |-> f[at(i)]]
<1>0. /\ f \in [1..c -> S] /\ \A t \in S : \E i \in 1..c : f[i] = t
      /\ \A i, k \in 1..c : f[i] = f[k] => i = k
      /\ \A i \in 1..c : f[(i % c) + 1] \in A[f[i]]
  BY DEF Rolls
<1>1. \A i \in 0..c : at(i) \in 1..c
  OBVIOUS
<1>2. at(0) = j /\ at(c) = j
  OBVIOUS
<1>3. \A i, k \in 0..(c - 1) : at(i) = at(k) => i = k
  OBVIOUS
<1>4. ASSUME NEW i \in 0..(c - 1) PROVE at(i + 1) = (at(i) % c) + 1
  <2>1. at(i) \in 1..c /\ (at(i) % c) + 1 = IF at(i) = c THEN 1 ELSE at(i) + 1
    <3> HIDE DEF at
    <3>1. i \in 0..c
      OBVIOUS
    <3>2. PICK a \in 1..c : a = at(i)
      BY <1>1, <3>1
    <3>3. (a % c) + 1 = IF a = c THEN 1 ELSE a + 1
      BY ONLY <3>2, AfterIs, c \in Nat \ {0}
    <3> QED
      BY <3>2, <3>3
  <2>2. at(i + 1) = IF at(i) = c THEN 1 ELSE at(i) + 1
    OBVIOUS
  <2> QED
    BY <2>1, <2>2
<1>5. ASSUME NEW m \in 1..c PROVE \E i \in 0..(c - 1) : at(i) = m
  <2>1. CASE m >= j
    <3>1. m - j \in 0..(c - 1) /\ at(m - j) = m
      BY <2>1
    <3> QED
      BY <3>1
  <2>2. CASE m < j
    <3>1. (m + c) - j \in 0..(c - 1) /\ at((m + c) - j) = m
      BY <2>2
    <3> QED
      BY <3>1
  <2> QED
    BY <2>1, <2>2
<1> HIDE DEF at
<1>6. g \in [0..c -> S] /\ \A i \in 0..c : g[i] = f[at(i)]
  BY <1>0, <1>1
<1> HIDE DEF g
<1>7. 0 \in 0..c /\ c \in 0..c /\ \A i \in 0..(c - 1) : i \in 0..c /\ i + 1 \in 0..c
  OBVIOUS
<1>8. g[0] = f[j] /\ g[c] = f[j]
  BY <1>2, <1>6, <1>7
<1>9. ASSUME NEW i \in 0..(c - 1) PROVE g[i + 1] \in A[g[i]]
  <2>1. g[i] = f[at(i)] /\ g[i + 1] = f[(at(i) % c) + 1] /\ at(i) \in 1..c
    <3>1. g[i] = f[at(i)] /\ g[i + 1] = f[at(i + 1)] /\ at(i) \in 1..c
      BY <1>1, <1>6, <1>7
    <3>2. at(i + 1) = (at(i) % c) + 1
      BY <1>4
    <3> QED
      BY Zenon, <3>1, <3>2
  <2>2. f[(at(i) % c) + 1] \in A[f[at(i)]]
    BY <1>0, <2>1
  <2> QED
    BY <2>1, <2>2
<1>10. \A i, k \in 0..(c - 1) : g[i] = g[k] => i = k
  BY <1>0, <1>1, <1>3, <1>6, <1>7
<1>11. \A t \in S : \E i \in 0..(c - 1) : g[i] = t
  <2> SUFFICES ASSUME NEW t \in S PROVE \E i \in 0..(c - 1) : g[i] = t
    OBVIOUS
  <2>1. PICK m \in 1..c : f[m] = t
    BY <1>0
  <2>2. PICK i \in 0..(c - 1) : at(i) = m
    BY <1>5
  <2> QED
    BY <1>6, <1>7, <2>1, <2>2
<1> QED
  BY <1>6, <1>8, <1>9, <1>10, <1>11 DEF IsTurn

(* Any cycle that the roots lead to is closed by some path. *)
LEMMA CyclesHaveKeys ==
  ASSUME TaskGraphAssumption, NEW ids \in SUBSET Tasks, NEW A \in [ids -> SUBSET ids],
         NEW roots \in SUBSET ids, NEW S \in SUBSET ids, S # {}, S \subseteq Reach(A, roots),
         NEW f, Around(S, A, f)
  PROVE  \E p \in Nodes(roots, A) : Closes(p) /\ CycleKey(p) = S
<1>1. IsFiniteSet(S)
  BY TasksAreFinite
<1>2. PICK c \in Nat \ {0} : c = Cardinality(S)
  BY <1>1, FS_CardinalityType, FS_EmptySet
<1>3. /\ f \in [1..c -> S] /\ Range(f) = S
      /\ \A i \in 1..c : f[(i % c) + 1] \in A[f[i]]
  BY <1>2 DEF Around
<1>4. \A t \in S : \E i \in 1..c : f[i] = t
  BY <1>3 DEF Range
<1>5. \A i, k \in 1..c : f[i] = f[k] => i = k
  <2>1. IsFiniteSet(1..c) /\ Cardinality(1..c) = c
    BY FS_Interval
  <2>2. f \in Surjection(1..c, S)
    BY <1>3, <1>4 DEF Surjection
  <2>3. f \in Injection(1..c, S)
    BY ONLY <1>2, <2>1, <2>2, FS_Surjection
  <2> QED
    BY <1>3, <2>3 DEF Injection, IsInjective
<1>6. PICK n \in Nat \ {0} : \E p \in Simple(ids, A, roots, n) :
        p[n] \in S /\ \A i \in 1..(n - 1) : p[i] \notin S
  <2>1. PICK s \in S : s \in Reach(A, roots)
    OBVIOUS
  <2> QED
    BY <2>1, FirstOfCycle
<1>7. PICK p \in Simple(ids, A, roots, n) : p[n] \in S /\ \A i \in 1..(n - 1) : p[i] \notin S
  BY <1>6
<1>8. /\ p \in [1..n -> ids] /\ p[1] \in roots
      /\ \A i \in 1..(n - 1) : p[i + 1] \in A[p[i]]
      /\ \A i, k \in 1..n : p[i] = p[k] => i = k
  BY DEF Simple, Paths
<1>9. PICK j \in 1..c : f[j] = p[n]
  BY <1>4, <1>7
<1>10a. PICK g : IsTurn(A, S, c, g, f[j])
  <2>1. Rolls(A, S, c, f)
    BY <1>3, <1>4, <1>5 DEF Rolls
  <2> QED
    BY <2>1, Turn
<1>10. /\ g \in [0..c -> S] /\ g[0] = f[j] /\ g[c] = f[j]
       /\ \A i \in 0..(c - 1) : g[i + 1] \in A[g[i]]
       /\ \A i, k \in 0..(c - 1) : g[i] = g[k] => i = k
       /\ \A t \in S : \E i \in 0..(c - 1) : g[i] = t
  BY <1>10a DEF IsTurn
<1> DEFINE q == [i \in 1..(n + c) |-> IF i <= n THEN p[i] ELSE g[i - n]]
<1>11. /\ q \in [1..(n + c) -> ids]
       /\ \A i \in 1..n : q[i] = p[i]
       /\ \A i \in 0..c : q[n + i] = g[i]
  <2>1. ASSUME NEW i \in 1..(n + c) PROVE q[i] \in ids
    <3>1. CASE i <= n
      BY <1>8, <3>1
    <3>2. CASE ~(i <= n)
      <4>1. i - n \in 0..c
        BY <3>2
      <4> QED
        BY <1>10, <3>2, <4>1
    <3> QED
      BY <3>1, <3>2
  <2>2. ASSUME NEW i \in 0..c PROVE q[n + i] = g[i]
    <3>1. CASE i = 0
      <4>1. n + i = n /\ n \in 1..(n + c) /\ n <= n
        BY <3>1
      <4>2. q[n] = p[n]
        BY <4>1
      <4>3. g[i] = p[n]
        BY <1>9, <1>10, <3>1
      <4> QED
        BY <4>1, <4>2, <4>3
    <3>2. CASE i # 0
      <4>1. n + i \in 1..(n + c) /\ ~(n + i <= n) /\ (n + i) - n = i
        BY <3>2
      <4> QED
        BY <4>1
    <3> QED
      BY <3>1, <3>2
  <2>3. \A i \in 1..n : q[i] = p[i]
    OBVIOUS
  <2> QED
    BY <2>1, <2>2, <2>3
<1> HIDE DEF q
<1>12. ASSUME NEW i \in 1..((n + c) - 1) PROVE q[i + 1] \in A[q[i]]
  <2>1. CASE i < n
    <3>1. i \in 1..(n - 1) /\ i \in 1..n /\ i + 1 \in 1..n
      BY <2>1
    <3> QED
      BY <1>8, <1>11, <3>1
  <2>2. CASE ~(i < n)
    <3>1. PICK k \in 0..(c - 1) : i = n + k /\ i + 1 = n + (k + 1)
      <4>1. i - n \in 0..(c - 1) /\ i = n + (i - n) /\ i + 1 = n + ((i - n) + 1)
        BY <2>2
      <4> QED
        BY <4>1
    <3>2. k \in 0..c /\ k + 1 \in 0..c
      OBVIOUS
    <3>3. q[i] = g[k] /\ q[i + 1] = g[k + 1]
      BY <1>11, <3>1, <3>2
    <3> QED
      BY <1>10, <3>3
  <2> QED
    BY <2>1, <2>2
<1>13. ASSUME NEW i \in 1..((n + c) - 1), NEW k \in 1..((n + c) - 1), q[i] = q[k] PROVE i = k
  <2> DEFINE Early(m) == m \in 1..(n - 1) /\ q[m] = p[m] /\ q[m] \notin S
             Late(m) == m - n \in 0..(c - 1) /\ q[m] = g[m - n] /\ q[m] \in S
  <2>1. ASSUME NEW m \in 1..((n + c) - 1) PROVE Early(m) \/ Late(m)
    <3>1. CASE m < n
      <4>1. m \in 1..(n - 1) /\ m \in 1..n
        BY <3>1
      <4> QED
        BY <1>7, <1>11, <4>1
    <3>2. CASE ~(m < n)
      <4>1. m - n \in 0..(c - 1) /\ m - n \in 0..c /\ n + (m - n) = m
        BY <3>2
      <4>2. q[m] = g[m - n] /\ g[m - n] \in S
        BY <1>10, <1>11, <4>1
      <4> QED
        BY <4>1, <4>2
    <3> QED
      BY <3>1, <3>2
  <2>2. CASE Early(i) /\ Early(k)
    <3>1. i \in 1..n /\ k \in 1..n
      BY <2>2
    <3> QED
      BY <1>8, <1>13, <2>2, <3>1
  <2>3. CASE Late(i) /\ Late(k)
    <3>0. \A a, b \in 0..(c - 1) : g[a] = g[b] => a = b
      BY <1>10
    <3>1. i - n = k - n
      BY ONLY <1>13, <2>3, <3>0
    <3> QED
      BY <3>1
  <2> QED
    BY <1>13, <2>1, <2>2, <2>3
<1>14. q \in Paths(ids, A, roots, n + c)
  <2>1. 1 \in 1..n
    OBVIOUS
  <2> QED
    BY <1>8, <1>11, <1>12, <1>13, <2>1 DEF Paths
<1>15. n + c \in Nat \ {0} /\ n \in 1..((n + c) - 1) /\ q[n] = q[n + c]
  <2>1. n \in 1..n /\ c \in 0..c /\ n + c \in Nat \ {0} /\ n \in 1..((n + c) - 1)
    OBVIOUS
  <2> QED
    BY <1>9, <1>10, <1>11, <2>1
<1>16. n + c \in 1..(Count + 1)
  <2> DEFINE m == (n + c) - 1
             r == [i \in 1..m |-> q[i]]
  <2>1. m \in Nat \ {0} /\ n + c = m + 1 /\ 1 \in 1..m
        /\ \A i \in 1..(m - 1) : i \in 1..m /\ i + 1 \in 1..m
    OBVIOUS
  <2>2. r \in [1..m -> ids] /\ \A i \in 1..m : r[i] = q[i]
    BY <1>11
  <2> HIDE DEF r, m
  <2>3. m = (n + c) - 1
    BY DEF m
  <2>4. /\ q[1] \in roots
        /\ \A i \in 1..m : q[i + 1] \in A[q[i]]
        /\ \A i, k \in 1..m : q[i] = q[k] => i = k
    BY <1>14, <2>3 DEF Paths
  <2>5. r[1] \in roots /\ (\A i \in 1..(m - 1) : r[i + 1] \in A[r[i]])
        /\ \A i, k \in 1..m : r[i] = r[k] => i = k
    <3>1. r[1] \in roots
      BY <2>1, <2>2, <2>4
    <3>2. ASSUME NEW i \in 1..(m - 1) PROVE r[i + 1] \in A[r[i]]
      <4>1. i \in 1..m /\ i + 1 \in 1..m
        BY <2>1
      <4>2. r[i + 1] = q[i + 1] /\ r[i] = q[i]
        BY <2>2, <4>1
      <4> QED
        BY <2>4, <4>1, <4>2
    <3>3. \A i, k \in 1..m : r[i] = r[k] => i = k
      BY <2>2, <2>4
    <3> QED
      BY <3>1, <3>2, <3>3
  <2>5a. r \in Simple(ids, A, roots, m)
    <3>1. \A i, k \in 1..(m - 1) : r[i] = r[k] => i = k
      BY <2>1, <2>5
    <3> QED
      BY ONLY <2>2, <2>5, <3>1 DEF Simple, Paths
  <2>6. m <= Count
    BY <2>1, <2>5a, SimpleIsShort
  <2> QED
    BY <2>1, <2>6 DEF TaskGraphAssumption
<1>17. q \in Nodes(roots, A)
  BY <1>14, <1>16, NodesArePaths
<1>18. Closes(q) /\ \A t : t \in CycleKey(q) <=> \E i \in n..((n + c) - 1) : q[i] = t
  <2>1. PICK N \in Nat \ {0} : N = n + c
    BY <1>15
  <2>2. q \in Paths(ids, A, roots, N) /\ N \in Nat \ {0} /\ n \in 1..(N - 1) /\ q[n] = q[N]
    BY <1>14, <1>15, <2>1
  <2>3. Closes(q) /\ \A t : t \in CycleKey(q) <=> \E i \in n..(N - 1) : q[i] = t
    <3>1. PICK k \in 1..(N - 1) : k = n
      BY <2>2
    <3>2. q \in Paths(ids, A, roots, N)
      BY <2>2
    <3>3. q[k] = q[N]
      BY <2>2, <3>1
    <3>4. A \in [ids -> SUBSET ids] /\ roots \in SUBSET ids
      OBVIOUS
    <3>5. Closes(q)
      BY <3>2, <3>3, <3>4, CycleKeyIs
    <3>6. \A t : t \in CycleKey(q) <=> \E i \in k..(N - 1) : q[i] = t
      BY <3>2, <3>3, <3>4, CycleKeyIs
    <3> QED
      BY <3>1, <3>5, <3>6
  <2> QED
    BY <2>1, <2>3
<1>19. ASSUME NEW t \in CycleKey(q) PROVE t \in S
  <2>1. PICK i \in n..((n + c) - 1) : q[i] = t
    BY <1>18
  <2>2. PICK k \in 0..c : n + k = i
    <3>1. i - n \in 0..c /\ n + (i - n) = i
      OBVIOUS
    <3> QED
      BY <3>1
  <2>3. q[i] = g[k] /\ g[k] \in S
    BY <1>10, <1>11, <2>2
  <2> QED
    BY <2>1, <2>3
<1>20. ASSUME NEW t \in S PROVE t \in CycleKey(q)
  <2>1. PICK i \in 0..(c - 1) : g[i] = t
    BY <1>10
  <2>2. i \in 0..c /\ n + i \in n..((n + c) - 1)
    OBVIOUS
  <2> QED
    BY <1>11, <1>18, <2>1, <2>2
<1>21. CycleKey(q) = S
  BY <1>19, <1>20
<1> QED
  BY <1>17, <1>18, <1>21

-----------------------------------------------------------------------------
(* The graph that is built *)

(* Each list of Reconcile is what the other one is, seen from the end: the *)
(* awaited_by list that was collected, cut to the tasks listed, and the    *)
(* one derived where that is empty have the same tasks.                    *)
LEMMA ReconcileAgrees ==
  LET edges == Reconcile(Parsed(Collect))
  IN \A t, u \in DOMAIN edges.awaiting :
       u \in edges.awaiting[t] <=> t \in edges.awaited_by[u]
<1> DEFINE given == Parsed(Collect)
           ids == {e.id : e \in given}
           Entry(t) == CHOOSE e \in given : e.id = t
           derived == [t \in ids |-> {u \in ids : t \in Entry(u).awaiting}]
           edges == Reconcile(given)
           entry(t) == Collect[t]
<1>1. \A e \in given : \E t \in Tasks : e = entry(t) /\ e.id = t
  BY DEF Parsed, Collect, Range
<1>2. ids \subseteq Tasks
  BY <1>1
<1>3. ASSUME NEW t \in ids PROVE Entry(t) = entry(t)
  <2>1. PICK e \in given : e.id = t
    OBVIOUS
  <2>2. Entry(t) \in given /\ Entry(t).id = t
    BY <2>1
  <2> QED
    BY <1>1, <2>2
<1>4. \A t \in Tasks :
        /\ entry(t).awaiting = GraphEdges(t)
        /\ \/ entry(t).awaited_by = {}
           \/ entry(t).awaited_by = {u \in Tasks : t \in GraphEdges(u)}
  BY DEF Collect
<1> HIDE DEF given, Entry, ids, entry
<1>5. \A t \in ids :
        /\ Entry(t).awaiting = GraphEdges(t)
        /\ \/ Entry(t).awaited_by = {}
           \/ Entry(t).awaited_by = {u \in Tasks : t \in GraphEdges(u)}
  BY <1>2, <1>3, <1>4
<1>6. edges = [awaiting   |-> [t \in ids |-> Known(Entry(t).awaiting, ids)],
               awaited_by |-> [t \in ids |->
                  GivenOr(Known(Entry(t).awaited_by, ids), derived[t])]]
  BY DEF Reconcile, Entry, ids
<1> HIDE DEF edges
<1>7. ASSUME NEW t \in ids PROVE edges.awaited_by[t] = {u \in ids : t \in GraphEdges(u)}
  <2>1. derived[t] = {u \in ids : t \in GraphEdges(u)}
    BY <1>5
  <2>2. edges.awaited_by[t] = GivenOr(Known(Entry(t).awaited_by, ids), derived[t])
    BY <1>6
  <2> QED
    BY <1>2, <1>5, <2>1, <2>2 DEF GivenOr, Known
<1>8. \A t \in ids : edges.awaiting[t] = GraphEdges(t) \cap ids
  BY <1>5, <1>6 DEF Known
<1>9. DOMAIN edges.awaiting = ids
  BY <1>6
<1> QED
  BY <1>7, <1>8, <1>9 DEF edges, given

(* What build_task_graph makes of a payload, whatever is wrong with it.    *)
Built(g) ==
  LET ids == Range(g.tasks)
  IN /\ g.tasks \in Seq(Tasks)
     /\ g.awaiting \in [ids -> SUBSET ids] /\ g.awaited_by \in [ids -> SUBSET ids]
     /\ \A t, u \in ids : u \in g.awaiting[t] <=> t \in g.awaited_by[u]
     /\ g.roots = Roots(g.tasks, g)
     /\ g.nodes = Nodes(g.roots, g.awaiting)
     /\ g.cycles = {CycleKey(p) : p \in {q \in g.nodes : Closes(q)}}
     /\ g.status \in {"ok", "partial", "empty"}

LEMMA BuildGraphIs ==
  ASSUME TaskGraphAssumption
  PROVE  Built(BuildGraph(Collect))
<1> DEFINE entries == Parsed(Collect)
           ids == {e.id : e \in entries}
           order == OrderTasks(entries)
           edges == Reconcile(entries)
           g == BuildGraph(Collect)
<1>1. \A e \in entries : e.id \in Tasks /\ e.done \in BOOLEAN
  <2>1. \A e \in entries : \E t \in Tasks : e = Collect[t] /\ e.id = t
    BY DEF Parsed, Collect, Range
  <2>2. \A t \in Tasks : Collect[t].done \in BOOLEAN
    <3> SUFFICES ASSUME NEW t \in Tasks PROVE Collect[t].done = TRUE \/ Collect[t].done = FALSE
      OBVIOUS
    <3>1. CASE t \in done
      BY <3>1 DEF Collect
    <3>2. CASE t \notin done
      BY <3>2 DEF Collect
    <3> QED
      BY <3>1, <3>2
  <2> HIDE DEF entries
  <2> QED
    BY <2>1, <2>2
<1>2. order \in Seq(ids) /\ Range(order) = ids
  <2> HIDE DEF entries
  <2> QED
    BY <1>1, OrderIsAll
<1>3. ids \subseteq Tasks
  BY <1>1
<1>4. edges.awaiting \in [ids -> SUBSET ids] /\ edges.awaited_by \in [ids -> SUBSET ids]
  <2> HIDE DEF entries
  <2> QED
    BY DEF Reconcile, Known, GivenOr
<1>5. \A t, u \in DOMAIN edges.awaiting :
        u \in edges.awaiting[t] <=> t \in edges.awaited_by[u]
  BY ReconcileAgrees
<1>6. /\ g.tasks = order /\ g.awaiting = edges.awaiting /\ g.awaited_by = edges.awaited_by
      /\ g.roots = Roots(order, edges)
      /\ g.nodes = Nodes(g.roots, edges.awaiting)
      /\ g.cycles = {CycleKey(p) : p \in {q \in g.nodes : Closes(q)}}
      /\ g.status \in {"ok", "partial", "empty"}
  <2> HIDE DEF entries, order, edges
  <2> QED
    BY DEF BuildGraph, entries, order, edges
<1> HIDE DEF g, order, edges, ids
<1>7. Roots(order, edges) = Roots(g.tasks, g)
  BY <1>6 DEF Roots
<1>8. g.tasks \in Seq(Tasks)
  BY <1>2, <1>3, <1>6, SeqOfMore
<1>9. DOMAIN edges.awaiting = ids
  BY <1>4
<1>10. Range(g.tasks) = ids
  BY <1>2, <1>6
<1>11. Built(g)
  BY <1>4, <1>5, <1>6, <1>7, <1>8, <1>9, <1>10 DEF Built
<1> QED
  BY <1>11 DEF g

(* Its roots lead to all tasks, or each task that they do not lead to is   *)
(* awaited.                                                                *)
LEMMA RootsAre ==
  ASSUME TaskGraphAssumption, NEW g, Built(g)
  PROVE  LET ids == Range(g.tasks)
         IN /\ ids \in SUBSET Tasks /\ g.roots \in SUBSET ids
            /\ \/ ids \subseteq Reach(g.awaiting, g.roots)
               \/ /\ \E r \in ids : g.awaited_by[r] = {}
                  /\ \A w \in ids \ g.roots : \E u \in ids : w \in g.awaiting[u]
<1> DEFINE ids == Range(g.tasks)
           free == {t \in DOMAIN g.awaited_by : g.awaited_by[t] = {}}
<1>1. /\ g.tasks \in Seq(Tasks)
      /\ g.awaiting \in [ids -> SUBSET ids] /\ g.awaited_by \in [ids -> SUBSET ids]
      /\ \A t, u \in ids : u \in g.awaiting[t] <=> t \in g.awaited_by[u]
      /\ g.roots = Roots(g.tasks, g)
  BY DEF Built
<1>2. ids \in SUBSET Tasks /\ g.tasks \in Seq(ids)
  <2>1. DOMAIN g.tasks = 1..Len(g.tasks) /\ Len(g.tasks) \in Nat
        /\ \A i \in 1..Len(g.tasks) : g.tasks[i] \in Tasks
    BY <1>1
  <2>2. g.tasks \in [1..Len(g.tasks) -> ids]
    BY <1>1, <2>1 DEF Range
  <2> QED
    BY <2>1, <2>2 DEF Range
<1>3. g.roots = IF free # {} THEN free
                ELSE IF g.tasks = <<>> THEN {} ELSE Entries(g.tasks, g.awaiting)
  BY <1>1 DEF Roots
<1>4. free \subseteq ids /\ free = {t \in ids : g.awaited_by[t] = {}}
  BY <1>1
<1> HIDE DEF free, ids
<1>5. CASE free # {}
  <2>1. g.roots = free
    BY <1>3, <1>5
  <2>2. ASSUME NEW w \in ids \ free PROVE \E u \in ids : w \in g.awaiting[u]
    <3>1. g.awaited_by[w] # {} /\ g.awaited_by[w] \subseteq ids
      BY <1>1, <1>4
    <3> QED
      BY <1>1, <3>1
  <2> QED
    BY <1>2, <1>4, <1>5, <2>1, <2>2 DEF ids
<1>6. CASE free = {} /\ g.tasks = <<>>
  <2>1. ids = {} /\ g.roots = {}
    BY <1>3, <1>6 DEF ids, Range
  <2> QED
    BY <1>2, <2>1 DEF ids
<1>7. CASE free = {} /\ g.tasks # <<>>
  <2>1. g.roots = Entries(g.tasks, g.awaiting)
    BY <1>3, <1>7
  <2>2. g.roots \in SUBSET ids /\ ids \subseteq Reach(g.awaiting, g.roots)
    BY <1>1, <1>2, <2>1, EntriesLeadToAll DEF ids
  <2> QED
    BY <1>2, <2>2 DEF ids
<1> QED
  BY <1>5, <1>6, <1>7

(* So the tree shows each task but those behind a cycle that no root       *)
(* leads to.                                                               *)
LEMMA BuiltIsWhole ==
  ASSUME TaskGraphAssumption, graph # None => Built(graph)
  PROVE  EdgesAgree /\ TreeIsWhole
<1> SUFFICES ASSUME graph # None PROVE EdgesAgree /\ TreeIsWhole
  BY DEF EdgesAgree, TreeIsWhole
<1> DEFINE ids == Range(graph.tasks)
           A == graph.awaiting
<1>1. /\ A \in [ids -> SUBSET ids] /\ graph.nodes = Nodes(graph.roots, A)
      /\ \A t, u \in ids : u \in A[t] <=> t \in graph.awaited_by[u]
  BY DEF Built
<1>2. EdgesAgree
  BY <1>1 DEF EdgesAgree
<1>3. /\ ids \in SUBSET Tasks /\ graph.roots \in SUBSET ids
      /\ \/ ids \subseteq Reach(A, graph.roots)
         \/ /\ \E r \in ids : graph.awaited_by[r] = {}
            /\ \A w \in ids \ graph.roots : \E u \in ids : w \in A[u]
  BY RootsAre
<1> HIDE DEF ids, A
<1>4. ASSUME NEW t \in ids, t \in Reach(A, graph.roots)
      PROVE  \E p \in graph.nodes : p[Len(p)] = t
  BY <1>1, <1>3, <1>4, ReachedHaveNodes
<1>5. ASSUME NEW t \in ids, t \notin Reach(A, graph.roots)
      PROVE  /\ \E r \in ids : graph.awaited_by[r] = {}
             /\ \E u \in ids : OnCycle(u) /\ t \in Below(u)
  <2>1. /\ \E r \in ids : graph.awaited_by[r] = {}
        /\ \A w \in ids \ graph.roots : \E u \in ids : w \in A[u]
    BY <1>3, <1>5
  <2>2. \E u \in ids : \E w \in A[u] : u \in Reach(A, {w}) /\ t \in Reach(A, {u})
    BY <1>1, <1>3, <1>5, <2>1, BehindCycle
  <2>3. \E u \in ids : OnCycle(u) /\ t \in Below(u)
    BY <2>2 DEF OnCycle, Below, A
  <2> QED
    BY <2>1, <2>3
<1> QED
  BY <1>2, <1>4, <1>5 DEF TreeIsWhole, Listed, ids

(* And the cycles that it reports are those that its roots lead to.        *)
LEMMA BuiltReports ==
  ASSUME TaskGraphAssumption, graph # None => Built(graph)
  PROVE  CyclesReported
<1> SUFFICES ASSUME graph # None PROVE CyclesReported
  BY DEF CyclesReported
<1> DEFINE ids == Range(graph.tasks)
           A == graph.awaiting
           roots == graph.roots
           Reported(S) == S \in (SUBSET ids) \ {{}} /\ IsCycle(S)
                          /\ \E r \in roots : S \subseteq Below(r)
<1>1. /\ A \in [ids -> SUBSET ids] /\ graph.nodes = Nodes(roots, A)
      /\ graph.cycles = {CycleKey(p) : p \in {q \in graph.nodes : Closes(q)}}
  BY DEF Built
<1>2. ids \in SUBSET Tasks /\ roots \in SUBSET ids
  BY RootsAre
<1>3. \A S : IsCycle(S) <=> \E f : Around(S, A, f)
  BY DEF IsCycle, Around
<1>4. \A r : Below(r) = Reach(A, {r})
  BY DEF Below
<1> HIDE DEF ids, A, roots
<1>5. ASSUME NEW p \in graph.nodes, Closes(p) PROVE Reported(CycleKey(p))
  <2>1. PICK n \in 1..(Count + 1) : p \in Paths(ids, A, roots, n)
    BY <1>1, <1>2, NodesArePaths
  <2>2. n \in Nat \ {0}
    BY DEF TaskGraphAssumption
  <2>3. /\ CycleKey(p) \in SUBSET ids /\ CycleKey(p) # {}
        /\ \A t \in CycleKey(p) : \E i \in 1..n : p[i] = t
    BY <1>1, <1>2, <1>5, <2>1, <2>2, KeyGoesAround
  <2>4. \E f : Around(CycleKey(p), A, f)
    BY <1>1, <1>2, <1>5, <2>1, <2>2, KeyGoesAround
  <2>5. \A i \in 1..n : p[i] \in Reach(A, {p[1]})
    BY <1>1, <1>2, <2>1, <2>2, PathsAreReached
  <2>6. p[1] \in roots
    BY <2>1 DEF Paths
  <2>7. CycleKey(p) \subseteq Below(p[1])
    BY <1>4, <2>3, <2>5
  <2> QED
    BY <1>3, <2>3, <2>4, <2>6, <2>7
<1>6. ASSUME NEW S, Reported(S) PROVE \E p \in graph.nodes : Closes(p) /\ CycleKey(p) = S
  <2>1. PICK r \in roots : S \subseteq Reach(A, {r})
    BY <1>4, <1>6
  <2>2. PICK R \in SUBSET ids : R = {r}
    BY <1>2
  <2>3. roots \subseteq Reach(A, roots)
    BY <1>1, <1>2, ReachIsClosure
  <2>4. R \subseteq Reach(A, roots)
    BY <2>2, <2>3
  <2>5. Reach(A, R) \subseteq Reach(A, roots)
    BY <1>1, <1>2, <2>4, ReachOfMore
  <2>6. PICK f : Around(S, A, f)
    BY <1>3, <1>6
  <2>7. S \in SUBSET ids /\ S # {} /\ S \subseteq Reach(A, roots)
    BY <1>6, <2>1, <2>2, <2>5
  <2> QED
    BY <1>1, <1>2, <2>6, <2>7, CyclesHaveKeys
<1>7. graph.cycles = {S \in (SUBSET ids) \ {{}} : Reported(S)}
  <2> HIDE DEF Reported
  <2>1. \A S : S \in graph.cycles <=> \E p \in graph.nodes : Closes(p) /\ CycleKey(p) = S
    BY <1>1
  <2>2. \A S : Reported(S) => S \in (SUBSET ids) \ {{}}
    BY DEF Reported
  <2>3. \A S : S \in graph.cycles <=> Reported(S)
    BY <1>5, <1>6, <2>1
  <2> QED
    BY <2>2, <2>3
<1> QED
  BY <1>7 DEF CyclesReported, Listed, ids, roots

-----------------------------------------------------------------------------
(* Every graph that is shown has been built of what the debuggee had.      *)

GraphInv ==
  /\ awaits \in [Tasks -> Tasks \cup {Gather, None}]
  /\ gathered \subseteq Tasks /\ done \subseteq Tasks /\ fault \in Faults
  /\ {selected, row, detail} \subseteq Tasks \cup {None}
  /\ raw \in {None, Running, Collect}
  /\ graph # None => Built(graph)

LEMMA GraphInvType == ASSUME TaskGraphAssumption, GraphInv PROVE TypeOK
<1>1. graph # None => /\ Range(graph.tasks) = DOMAIN graph.awaiting
                      /\ graph.roots \subseteq Range(graph.tasks)
                      /\ graph.status \in {"ok", "partial", "empty"}
  <2> SUFFICES ASSUME graph # None
               PROVE  /\ Range(graph.tasks) = DOMAIN graph.awaiting
                      /\ graph.roots \subseteq Range(graph.tasks)
                      /\ graph.status \in {"ok", "partial", "empty"}
    OBVIOUS
  <2>1. Built(graph)
    BY DEF GraphInv
  <2>2. graph.roots \subseteq Range(graph.tasks)
    BY <2>1, RootsAre
  <2> QED
    BY <2>1, <2>2 DEF Built
<1> QED
  BY <1>1 DEF GraphInv, TypeOK

LEMMA GraphInit == Init => GraphInv
<1> SUFFICES ASSUME Init PROVE GraphInv
  OBVIOUS
<1>1. [kind |-> "none", task |-> None] \in Faults
  BY DEF Faults
<1> QED
  BY <1>1 DEF Init, GraphInv

LEMMA RenderKeeps ==
  ASSUME NEW g, g # None => Built(g), NEW task, Render(g, task)
  PROVE  {row', detail'} \subseteq Tasks \cup {None}
<1>1. CASE g = None \/ g.tasks = <<>>
  BY <1>1 DEF Render
<1>2. CASE ~(g = None \/ g.tasks = <<>>)
  <2>1. g.tasks \in Seq(Tasks) /\ g.tasks # <<>>
    BY <1>2 DEF Built
  <2>2. Head(g.tasks) \in Tasks /\ Range(g.tasks) \subseteq Tasks
    BY <2>1 DEF Range
  <2> QED
    BY <1>2, <2>2 DEF Render
<1> QED
  BY <1>1, <1>2

LEMMA GraphStep == ASSUME TaskGraphAssumption, GraphInv, [Next]_vars PROVE GraphInv'
<1>0. /\ awaits \in [Tasks -> Tasks \cup {Gather, None}]
      /\ gathered \subseteq Tasks /\ done \subseteq Tasks /\ fault \in Faults
      /\ {selected, row, detail} \subseteq Tasks \cup {None}
      /\ raw \in {None, Running, Collect}
      /\ graph # None => Built(graph)
  BY DEF GraphInv
<1>1. ASSUME UNCHANGED world PROVE Collect' = Collect
  BY <1>1 DEF world, Collect, GraphEdges, AwaitedBy
<1>2. CASE Stop
  BY <1>0, <1>2 DEF Stop, GraphInv
<1>3. CASE Capture
  <2>1. Collect' = Collect
    BY <1>1, <1>3 DEF Capture
  <2> QED
    BY <1>0, <1>3, <2>1 DEF Capture, GraphInv, world
<1>4. CASE Captured
  <2>1. raw = Collect /\ graph' = BuildGraph(Collect) /\ raw' = None
    BY <1>0, <1>4 DEF Captured
  <2>2. Built(BuildGraph(Collect))
    BY BuildGraphIs
  <2>3. {row', detail'} \subseteq Tasks \cup {None}
    BY <1>4, <2>1, <2>2, RenderKeeps DEF Captured
  <2> QED
    BY <1>0, <1>4, <2>1, <2>2, <2>3 DEF Captured, GraphInv, world
<1>5. ASSUME NEW t \in Tasks, MoveCursor(t) PROVE GraphInv'
  <2>1. Collect' = Collect
    BY <1>1, <1>5 DEF MoveCursor
  <2> QED
    BY <1>0, <1>5, <2>1 DEF MoveCursor, GraphInv, world
<1>6. CASE Activate
  <2>1. Collect' = Collect
    BY <1>1, <1>6 DEF Activate
  <2>2. {row', detail'} \subseteq Tasks \cup {None}
    BY <1>0, <1>6, RenderKeeps DEF Activate
  <2> QED
    BY <1>0, <1>6, <2>1, <2>2 DEF Activate, GraphInv, world
<1>7. CASE UNCHANGED vars
  <2>1. Collect' = Collect
    BY <1>1, <1>7 DEF vars
  <2> QED
    BY <1>0, <1>7, <2>1 DEF vars, GraphInv, world
<1> QED
  BY <1>2, <1>3, <1>4, <1>5, <1>6, <1>7 DEF Next
=============================================================================
