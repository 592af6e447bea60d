--------------------------- MODULE TracebackProofs ---------------------------
(***************************************************************************)
(* The proof that a traceback is read back into the tree it was printed    *)
(* from.  What is proved of a tree rests on what is proved of the trees    *)
(* below it: that their text is theirs alone, line by line, wherever it    *)
(* stands in the text of a group or of a chain.                            *)
(***************************************************************************)
EXTENDS Traceback, FiniteSetTheorems, SequenceTheorems, TLAPS

-----------------------------------------------------------------------------
(* Naturals *)

LEMMA LeastOfNaturals ==
  ASSUME NEW S, S \subseteq Nat, S # {}
  PROVE  \E m \in S : \A n \in S : m <= n
<1>1. PICK m \in S : \A n \in S : <<n, m>> \notin OpToRel(<, Nat)
  BY NatLessThanWellFounded, WFMin, Zenon
<1>2. ASSUME NEW n \in S, ~(m <= n) PROVE FALSE
  <2>1. <<n, m>> \in Nat \X Nat /\ <<n, m>>[1] < <<n, m>>[2]
    BY <1>2
  <2>2. <<n, m>> \in OpToRel(<, Nat)
    BY ONLY <2>1, Zenon DEF OpToRel
  <2> QED
    BY <1>1, <2>2
<1> QED
  BY <1>2

LEMMA GreatestOfNaturals ==
  ASSUME NEW S, S \subseteq Nat, S # {}, NEW bound \in Nat, \A n \in S : n <= bound
  PROVE  \E m \in S : \A n \in S : n <= m
<1> DEFINE T == {bound - n : n \in S}
<1>1. T \subseteq Nat /\ T # {}
  <2>1. \A n \in S : bound - n \in Nat
    OBVIOUS
  <2> QED
    BY <2>1
<1>2. PICK t \in T : \A u \in T : t <= u
  <2> HIDE DEF T
  <2> QED
    BY <1>1, LeastOfNaturals
<1>3. PICK m \in S : t = bound - m
  OBVIOUS
<1>4. ASSUME NEW n \in S PROVE n <= m
  <2>1. bound - n \in T
    OBVIOUS
  <2>2. bound - m <= bound - n
    BY <1>2, <1>3, <2>1
  <2> QED
    BY <2>2
<1> QED
  BY <1>4

(* A set that has 0, and with each number the next, has them all. *)
LEMMA InductionOnNaturals ==
  ASSUME NEW S, 0 \in S, \A n \in Nat : n \in S => n + 1 \in S
  PROVE  \A n \in Nat : n \in S
<1> SUFFICES ASSUME Nat \ S # {} PROVE FALSE
  OBVIOUS
<1> DEFINE T == Nat \ S
<1>1. PICK m \in T : \A n \in T : m <= n
  <2> HIDE DEF T
  <2>1. T \subseteq Nat /\ T # {}
    BY DEF T
  <2> QED
    BY <2>1, LeastOfNaturals
<1>2. m # 0 /\ m - 1 \in Nat
  OBVIOUS
<1>3. m - 1 \in S
  BY <1>1, <1>2
<1> QED
  BY <1>2, <1>3

-----------------------------------------------------------------------------
(* Recursive functions *)

(* H makes a better approximation of a function from D to S out of one:   *)
(* its value at a place depends on the values at places of lower rank      *)
(* alone.                                                                  *)
Approximates(H, D, S, rank) ==
  /\ [D -> S] # {} /\ H \in [[D -> S] -> [D -> S]]
  /\ rank \in [D -> Nat]
  /\ \A f, g \in [D -> S], x \in D :
       (\A y \in D : rank[y] < rank[x] => f[y] = g[y]) => H[f][x] = H[g][x]

(* Then the function exists. *)
LEMMA RecursionExists ==
  ASSUME NEW D, NEW S, NEW H, NEW rank, Approximates(H, D, S, rank)
  PROVE  \E f \in [D -> S] : f = H[f]
<1> USE DEF Approximates
<1> DEFINE Good(f, n) == \A x \in D : rank[x] < n => f[x] = H[f][x]
           T == {n \in Nat : \E f \in [D -> S] : Good(f, n)}
<1>1. 0 \in T
  OBVIOUS
<1>2. ASSUME NEW n \in Nat, n \in T PROVE n + 1 \in T
  <2>1. PICK f \in [D -> S] : Good(f, n)
    BY <1>2
  <2>2. H[f] \in [D -> S]
    OBVIOUS
  <2>3. ASSUME NEW x \in D, rank[x] < n + 1 PROVE H[f][x] = H[H[f]][x]
    <3>1. \A y \in D : rank[y] < rank[x] => f[y] = H[f][y]
      <4> SUFFICES ASSUME NEW y \in D, rank[y] < rank[x] PROVE f[y] = H[f][y]
        OBVIOUS
      <4>1. rank[y] \in Nat /\ rank[x] \in Nat
        OBVIOUS
      <4>2. rank[y] < n
        BY <2>3, <4>1
      <4> QED
        BY <2>1, <4>2
    <3> QED
      BY <2>2, <3>1
  <2>4. Good(H[f], n + 1)
    BY <2>3
  <2> QED
    BY <2>2, <2>4
<1>3. \A n \in Nat : \E f \in [D -> S] : Good(f, n)
  <2>1. \A n \in Nat : n \in T
    <3> HIDE DEF T
    <3> QED
      BY <1>1, <1>2, InductionOnNaturals
  <2> QED
    BY <2>1
<1>4. ASSUME NEW f \in [D -> S], NEW g \in [D -> S], NEW n \in Nat, NEW m \in Nat,
             Good(f, n), Good(g, m)
      PROVE  \A x \in D : rank[x] < n /\ rank[x] < m => f[x] = g[x]
  <2> DEFINE Bad == {x \in D : rank[x] < n /\ rank[x] < m /\ f[x] # g[x]}
             Ranks == {rank[x] : x \in Bad}
  <2> SUFFICES ASSUME Bad # {} PROVE FALSE
    OBVIOUS
  <2>1. PICK k \in Ranks : \A i \in Ranks : k <= i
    <3>1. PICK x \in Bad : TRUE
      OBVIOUS
    <3> HIDE DEF Bad
    <3>4. rank[x] \in Ranks
      BY <3>1
    <3>2. \A z \in D : rank[z] \in Nat
      OBVIOUS
    <3>3. Ranks \subseteq Nat
      BY <3>2 DEF Bad
    <3> HIDE DEF Ranks
    <3> QED
      BY <3>4, <3>3, LeastOfNaturals
  <2>2. PICK x \in Bad : rank[x] = k
    BY <2>1
  <2>3. ASSUME NEW y \in D, rank[y] < rank[x] PROVE f[y] = g[y]
    <3>1. rank[y] \in Nat /\ rank[x] \in Nat
      OBVIOUS
    <3>2. rank[y] < n /\ rank[y] < m
      BY <2>2, <2>3, <3>1
    <3>3. k \in Nat /\ ~(k <= rank[y])
      BY <2>2, <2>3, <3>1
    <3>4. rank[y] \notin Ranks
      BY <2>1, <3>3
    <3> QED
      BY <3>2, <3>4
  <2>4. H[f][x] = H[g][x]
    BY <2>3
  <2> QED
    BY <1>4, <2>2, <2>4
<1> DEFINE At(x) == CHOOSE f \in [D -> S] : Good(f, rank[x] + 1)
           F == [x \in D |-> At(x)[x]]
<1>5. ASSUME NEW x \in D PROVE At(x) \in [D -> S] /\ Good(At(x), rank[x] + 1)
  <2>1. rank[x] + 1 \in Nat
    OBVIOUS
  <2>2. \E f \in [D -> S] : Good(f, rank[x] + 1)
    BY <1>3, <2>1
  <2> HIDE DEF Good
  <2> QED
    BY <2>2
<1> HIDE DEF At
<1>6. F \in [D -> S]
  BY <1>5
<1>7. ASSUME NEW x \in D PROVE F[x] = H[F][x]
  <2>1. \A y \in D : rank[y] < rank[x] => At(x)[y] = F[y]
    <3> SUFFICES ASSUME NEW y \in D, rank[y] < rank[x] PROVE At(x)[y] = At(y)[y]
      OBVIOUS
    <3>1. rank[y] \in Nat /\ rank[x] \in Nat /\ rank[y] + 1 \in Nat /\ rank[x] + 1 \in Nat
      OBVIOUS
    <3> HIDE DEF Good
    <3>2. \A z \in D : rank[z] < rank[x] + 1 /\ rank[z] < rank[y] + 1 => At(x)[z] = At(y)[z]
      BY <1>4, <1>5, <3>1
    <3> QED
      BY <3>1, <3>2
  <2>2. H[At(x)][x] = H[F][x]
    BY <1>5, <1>6, <2>1
  <2>3. At(x)[x] = H[At(x)][x]
    BY <1>5
  <2> QED
    BY <2>2, <2>3
<1>8. F = H[F]
  BY <1>6, <1>7
<1> QED
  BY <1>6, <1>8

-----------------------------------------------------------------------------
(* Folds *)

(* G applied to e and the elements of w, one after the other               *)
IsFold(f, G, e, w) == f = [n \in 0..Len(w) |-> IF n = 0 THEN e ELSE G[<<f[n - 1], w[n]>>]]
Fold(G, e, w) == (CHOOSE f : IsFold(f, G, e, w))[Len(w)]
IsStep(G, S, L) == G \in [S \X L -> S]
FoldsBy(f, G, e, w, S) ==
  f \in [0..Len(w) -> S] /\ IsFold(f, G, e, w) /\ Fold(G, e, w) = f[Len(w)]

LEMMA FoldExists ==
  ASSUME NEW S, NEW L, NEW G, IsStep(G, S, L), NEW e \in S, NEW w \in Seq(L)
  PROVE  \E f : FoldsBy(f, G, e, w, S)
<1> USE DEF IsStep, FoldsBy
<1> DEFINE D == 0..Len(w)
           H == [f \in [D -> S] |-> [n \in D |-> IF n = 0 THEN e ELSE G[<<f[n - 1], w[n]>>]]]
           rank == [n \in D |-> n]
<1>1. Len(w) \in Nat /\ \A n \in 1..Len(w) : w[n] \in L
  OBVIOUS
<1>2. [n \in D |-> e] \in [D -> S] /\ rank \in [D -> Nat]
  OBVIOUS
<1>3. ASSUME NEW f \in [D -> S], NEW n \in D, n # 0
      PROVE  n - 1 \in D /\ rank[n - 1] < rank[n] /\ <<f[n - 1], w[n]>> \in S \X L
  BY <1>1, <1>3
<1>4. H \in [[D -> S] -> [D -> S]]
  BY <1>3
<1>5. \A f, g \in [D -> S], n \in D :
        (\A k \in D : rank[k] < rank[n] => f[k] = g[k]) => H[f][n] = H[g][n]
  <2> SUFFICES ASSUME NEW f \in [D -> S], NEW g \in [D -> S], NEW n \in D,
                      \A k \in D : rank[k] < rank[n] => f[k] = g[k]
               PROVE  H[f][n] = H[g][n]
    OBVIOUS
  <2>1. n # 0 => f[n - 1] = g[n - 1]
    BY <1>3
  <2> QED
    BY <2>1
<1>6. PICK f \in [D -> S] : f = H[f]
  <2> HIDE DEF D, H, rank
  <2>1. Approximates(H, D, S, rank)
    BY <1>2, <1>4, <1>5 DEF Approximates
  <2> QED
    BY <2>1, RecursionExists
<1>7. IsFold(f, G, e, w)
  BY <1>6 DEF IsFold
<1> DEFINE g == CHOOSE h : IsFold(h, G, e, w)
<1>8. IsFold(g, G, e, w)
  BY <1>7
<1> HIDE DEF g
<1>9. ASSUME NEW n \in Nat PROVE n \in D => g[n] = f[n]
  <2> DEFINE T == {k \in Nat : k \in D => g[k] = f[k]}
  <2>1. 0 \in T
    BY <1>7, <1>8 DEF IsFold
  <2>2. \A k \in Nat : k \in T => k + 1 \in T
    <3> SUFFICES ASSUME NEW k \in Nat, k \in T, k + 1 \in D PROVE g[k + 1] = f[k + 1]
      OBVIOUS
    <3>1. k \in D /\ (k + 1) - 1 = k /\ k + 1 # 0
      BY <1>1
    <3>2. g[k + 1] = G[<<g[k], w[k + 1]>>] /\ f[k + 1] = G[<<f[k], w[k + 1]>>]
      BY <1>7, <1>8, <3>1 DEF IsFold
    <3> QED
      BY <3>1, <3>2
  <2>3. n \in T
    <3> HIDE DEF T
    <3> QED
      BY <2>1, <2>2, InductionOnNaturals
  <2> QED
    BY <2>3
<1>10. Fold(G, e, w) = f[Len(w)]
  <2>1. g[Len(w)] = f[Len(w)]
    BY <1>1, <1>9
  <2> QED
    BY <2>1 DEF Fold, g
<1> QED
  BY <1>7, <1>10

LEMMA FoldType ==
  ASSUME NEW S, NEW L, NEW G, IsStep(G, S, L), NEW e \in S, NEW w \in Seq(L)
  PROVE  Fold(G, e, w) \in S
<1>1. PICK f : FoldsBy(f, G, e, w, S)
  BY FoldExists
<1> USE DEF IsStep, FoldsBy
<1>2. Len(w) \in 0..Len(w)
  OBVIOUS
<1> QED
  BY <1>1, <1>2

LEMMA FoldEmpty ==
  ASSUME NEW S, NEW L, NEW G, IsStep(G, S, L), NEW e \in S
  PROVE  Fold(G, e, <<>>) = e
<1>0. <<>> \in Seq(L)
  OBVIOUS
<1>1. PICK w \in Seq(L) : w = <<>>
  BY <1>0
<1>2. PICK f : FoldsBy(f, G, e, w, S)
  BY FoldExists
<1> USE DEF FoldsBy
<1>3. Len(w) = 0 /\ f[0] = e
  BY <1>1, <1>2 DEF IsFold
<1> QED
  BY <1>1, <1>2, <1>3

LEMMA FoldAppend ==
  ASSUME NEW S, NEW L, NEW G, IsStep(G, S, L), NEW e \in S, NEW w \in Seq(L), NEW l \in L
  PROVE  Fold(G, e, Append(w, l)) = G[<<Fold(G, e, w), l>>]
<1> DEFINE v == Append(w, l)
<1>1. PICK f : FoldsBy(f, G, e, w, S)
  BY FoldExists
<1>2. v \in Seq(L) /\ Len(w) \in Nat /\ Len(v) = Len(w) + 1 /\ v[Len(v)] = l
      /\ \A n \in 1..Len(w) : v[n] = w[n]
  OBVIOUS
<1> HIDE DEF v
<1>3. PICK g : FoldsBy(g, G, e, v, S)
  BY <1>2, FoldExists
<1> USE DEF IsStep, FoldsBy
<1> DEFINE T == {n \in Nat : n <= Len(w) => g[n] = f[n]}
<1>4. 0 \in T
  BY <1>1, <1>2, <1>3 DEF IsFold
<1>5. \A n \in Nat : n \in T => n + 1 \in T
  <2> SUFFICES ASSUME NEW n \in Nat, n \in T, n + 1 <= Len(w) PROVE g[n + 1] = f[n + 1]
    OBVIOUS
  <2>1. (n + 1) - 1 = n /\ n + 1 # 0 /\ n + 1 \in 0..Len(w) /\ n + 1 \in 0..Len(v)
        /\ v[n + 1] = w[n + 1] /\ g[n] = f[n]
    BY <1>2
  <2>2. g[n + 1] = G[<<g[n], v[n + 1]>>] /\ f[n + 1] = G[<<f[n], w[n + 1]>>]
    BY <1>1, <1>3, <2>1 DEF IsFold
  <2> QED
    BY <2>1, <2>2
<1>6. g[Len(w)] = f[Len(w)]
  <2>1. Len(w) \in T
    <3> HIDE DEF T
    <3> QED
      BY <1>2, <1>4, <1>5, InductionOnNaturals
  <2> QED
    BY <1>2, <2>1
<1>7. g[Len(v)] = G[<<g[Len(w)], l>>]
  <2>1. Len(v) \in 0..Len(v) /\ Len(v) # 0 /\ Len(v) - 1 = Len(w)
    BY <1>2
  <2> QED
    BY <1>2, <1>3, <2>1 DEF IsFold
<1> QED
  BY <1>1, <1>3, <1>6, <1>7 DEF v

LEMMA FoldConcat ==
  ASSUME NEW S, NEW L, NEW G, IsStep(G, S, L), NEW e \in S, NEW u \in Seq(L), NEW w \in Seq(L)
  PROVE  Fold(G, e, u \o w) = Fold(G, Fold(G, e, u), w)
<1> DEFINE c == Fold(G, e, u)
           P(n) == SubSeq(w, 1, n)
           T == {n \in Nat : n <= Len(w) => Fold(G, e, u \o P(n)) = Fold(G, c, P(n))}
<1>1. c \in S
  BY FoldType
<1> HIDE DEF c
<1>2. Len(w) \in Nat /\ w = P(Len(w))
  BY SubSeqFull
<1>3. 0 \in T
  <2>1. P(0) = <<>> /\ u \o <<>> = u
    OBVIOUS
  <2>2. Fold(G, c, <<>>) = c
    BY <1>1, FoldEmpty
  <2> QED
    BY <2>1, <2>2 DEF c
<1>4. \A n \in Nat : n \in T => n + 1 \in T
  <2> SUFFICES ASSUME NEW n \in Nat, n \in T, n + 1 <= Len(w)
               PROVE  Fold(G, e, u \o P(n + 1)) = Fold(G, c, P(n + 1))
    OBVIOUS
  <2>1. n <= Len(w) /\ n + 1 \in 1..Len(w) /\ w[n + 1] \in L
    BY <1>2
  <2>2. P(n) \in Seq(L) /\ u \o P(n) \in Seq(L) /\ P(n + 1) = Append(P(n), w[n + 1])
        /\ u \o Append(P(n), w[n + 1]) = Append(u \o P(n), w[n + 1])
    BY <2>1
  <2>3. Fold(G, e, u \o P(n)) = Fold(G, c, P(n))
    BY <2>1
  <2> HIDE DEF P
  <2>4. Fold(G, e, Append(u \o P(n), w[n + 1])) = G[<<Fold(G, e, u \o P(n)), w[n + 1]>>]
    <3>1. PICK v \in Seq(L), l \in L : v = u \o P(n) /\ l = w[n + 1]
      BY <2>1, <2>2
    <3>2. Fold(G, e, Append(v, l)) = G[<<Fold(G, e, v), l>>]
      BY FoldAppend
    <3> QED
      BY <3>1, <3>2
  <2>5. Fold(G, c, Append(P(n), w[n + 1])) = G[<<Fold(G, c, P(n)), w[n + 1]>>]
    BY <1>1, <2>1, <2>2, FoldAppend
  <2> QED
    BY <2>2, <2>3, <2>4, <2>5
<1>5. Len(w) \in T
  <2> HIDE DEF T
  <2> QED
    BY <1>2, <1>3, <1>4, InductionOnNaturals
<1>6. Fold(G, e, u \o P(Len(w))) = Fold(G, c, P(Len(w)))
  BY <1>2, <1>5
<1> QED
  <2> HIDE DEF P
  <2> QED
    BY <1>2, <1>6 DEF c

LEMMA FoldOne ==
  ASSUME NEW S, NEW L, NEW G, IsStep(G, S, L), NEW e \in S, NEW l \in L
  PROVE  Fold(G, e, <<l>>) = G[<<e, l>>]
<1>0. <<>> \in Seq(L) /\ <<l>> = Append(<<>>, l)
  OBVIOUS
<1>1. PICK w \in Seq(L) : w = <<>> /\ <<l>> = Append(w, l)
  BY <1>0
<1>2. Fold(G, e, Append(w, l)) = G[<<Fold(G, e, w), l>>]
  BY FoldAppend
<1>3. Fold(G, e, <<>>) = e
  BY FoldEmpty
<1> QED
  BY <1>1, <1>2, <1>3

LEMMA MaxIs == ASSUME NEW n \in Nat, n > 0 PROVE Max(1..n) = n
<1>1. n \in 1..n /\ \A k \in 1..n : n >= k
  OBVIOUS
<1>2. \A m \in 1..n : (\A k \in 1..n : m >= k) => m = n
  BY <1>1
<1> QED
  BY <1>1, <1>2 DEF Max

(* FoldLeft goes through the sets of places.  Where it follows G, it is    *)
(* the fold.                                                               *)
Iterates(h, G, e, w, S) ==
  /\ h[{}] = e
  /\ \A s \in SUBSET DOMAIN w :
       LET k == Max(s) IN
       s # {} /\ h[s \ {k}] \in S => h[s] = G[<<h[s \ {k}], w[k]>>]

LEMMA IteratesFolds ==
  ASSUME NEW S, NEW L, NEW G, IsStep(G, S, L), NEW e \in S, NEW w \in Seq(L),
         NEW h, Iterates(h, G, e, w, S)
  PROVE  h[DOMAIN w] = Fold(G, e, w)
<1>1. PICK f : FoldsBy(f, G, e, w, S)
  BY FoldExists
<1> USE DEF IsStep, FoldsBy
<1>2. Len(w) \in Nat /\ DOMAIN w = 1..Len(w)
  OBVIOUS
<1> DEFINE P(n) == h[1..n] = f[n]
           T == {n \in Nat : n <= Len(w) => P(n)}
<1>3. 0 \in T
  <2>1. 1..0 = {}
    OBVIOUS
  <2> QED
    BY <1>1, <1>2, <2>1 DEF IsFold, Iterates
<1>4. \A n \in Nat : n \in T => n + 1 \in T
  <2> HIDE DEF P, IsStep, FoldsBy
  <2> SUFFICES ASSUME NEW n \in Nat, n \in T, n + 1 <= Len(w) PROVE P(n + 1)
    OBVIOUS
  <2> USE DEF P, IsStep, FoldsBy
  <2>0. n <= Len(w) /\ n \in 0..Len(w)
    BY <1>2
  <2>1. h[1..n] = f[n] /\ f[n] \in S
    BY <1>1, <2>0
  <2>2. Max(1..(n + 1)) = n + 1
    BY MaxIs
  <2>3. (1..(n + 1)) \ {n + 1} = 1..n /\ 1..(n + 1) # {} /\ 1..(n + 1) \in SUBSET DOMAIN w
    BY <1>2
  <2>4. h[1..(n + 1)] = G[<<h[1..n], w[n + 1]>>]
    BY <2>1, <2>2, <2>3 DEF Iterates
  <2>5. n + 1 \in 0..Len(w) /\ n + 1 # 0 /\ (n + 1) - 1 = n
    BY <1>2
  <2>6. f[n + 1] = G[<<f[n], w[n + 1]>>]
    BY <1>1, <2>5 DEF IsFold
  <2> QED
    BY <2>1, <2>4, <2>6
<1>5. Len(w) \in T
  <2> HIDE DEF T
  <2> QED
    BY <1>2, <1>3, <1>4, InductionOnNaturals
<1> QED
  BY <1>1, <1>2, <1>5

(* Such a function exists. *)
IsIteration(h, G, e, w, S) ==
  /\ h \in [SUBSET DOMAIN w -> S]
  /\ h = [s \in SUBSET DOMAIN w |->
            IF s = {} THEN e ELSE G[<<h[s \ {Max(s)}], w[Max(s)]>>]]

LEMMA IterationExists ==
  ASSUME NEW S, NEW L, NEW G, IsStep(G, S, L), NEW e \in S, NEW w \in Seq(L)
  PROVE  \E h : IsIteration(h, G, e, w, S)
<1> DEFINE D == SUBSET DOMAIN w
           H == [h \in [D -> S] |-> [s \in D |->
                  IF s = {} THEN e ELSE G[<<h[s \ {Max(s)}], w[Max(s)]>>]]]
           rank == [s \in D |-> Cardinality(s)]
<1>1. Len(w) \in Nat /\ DOMAIN w = 1..Len(w) /\ \A n \in 1..Len(w) : w[n] \in L
  OBVIOUS
<1>2. ASSUME NEW s \in D PROVE IsFiniteSet(s)
  <2>1. IsFiniteSet(1..Len(w))
    BY <1>1, FS_Interval
  <2> QED
    BY <1>1, <2>1, FS_Subset
<1>3. [s \in D |-> e] \in [D -> S] /\ rank \in [D -> Nat]
  BY <1>2, FS_CardinalityType
<1>4. ASSUME NEW s \in D, s # {}
      PROVE  Max(s) \in s /\ s \ {Max(s)} \in D /\ rank[s \ {Max(s)}] < rank[s]
  <2>1. s \subseteq Nat /\ \A n \in s : n <= Len(w)
    BY <1>1
  <2>2. \E m \in s : \A n \in s : n <= m
    BY <1>1, <1>4, <2>1, GreatestOfNaturals
  <2>3. \E m \in s : \A n \in s : m >= n
    BY <2>1, <2>2
  <2>4. Max(s) \in s
    BY <2>3 DEF Max
  <2>5. Cardinality(s \ {Max(s)}) = Cardinality(s) - 1 /\ Cardinality(s) \in Nat
        /\ s \ {Max(s)} \in D
    BY <1>2, <2>4, FS_RemoveElement, FS_CardinalityType
  <2> QED
    BY <2>4, <2>5
<1>5. H \in [[D -> S] -> [D -> S]]
  <2> SUFFICES ASSUME NEW h \in [D -> S], NEW s \in D
               PROVE  (IF s = {} THEN e ELSE G[<<h[s \ {Max(s)}], w[Max(s)]>>]) \in S
    OBVIOUS
  <2>1. CASE s # {}
    <3>1. h[s \ {Max(s)}] \in S /\ w[Max(s)] \in L
      BY <1>1, <1>4, <2>1
    <3> QED
      BY <2>1, <3>1 DEF IsStep
  <2> QED
    BY <2>1
<1>6. \A f, g \in [D -> S], s \in D :
        (\A z \in D : rank[z] < rank[s] => f[z] = g[z]) => H[f][s] = H[g][s]
  <2> SUFFICES ASSUME NEW f \in [D -> S], NEW g \in [D -> S], NEW s \in D,
                      \A z \in D : rank[z] < rank[s] => f[z] = g[z]
               PROVE  H[f][s] = H[g][s]
    OBVIOUS
  <2>1. s # {} => f[s \ {Max(s)}] = g[s \ {Max(s)}]
    BY <1>4
  <2> QED
    BY <2>1
<1>7. PICK h \in [D -> S] : h = H[h]
  <2> HIDE DEF D, H, rank
  <2>1. Approximates(H, D, S, rank)
    BY <1>3, <1>5, <1>6 DEF Approximates
  <2> QED
    BY <2>1, RecursionExists
<1> QED
  BY <1>7 DEF IsIteration

(* What holds at the start and is kept by every step holds at the end.  P  *)
(* is a set of states, each with the number of elements read so far.       *)
IsKept(P, G, S, L) ==
  \A s \in S, n \in Nat, l \in L : <<s, n>> \in P => <<G[<<s, l>>], n + 1>> \in P

LEMMA FoldKeeps ==
  ASSUME NEW S, NEW L, NEW G, IsStep(G, S, L), NEW e \in S, NEW w \in Seq(L),
         NEW P, <<e, 0>> \in P, IsKept(P, G, S, L)
  PROVE  <<Fold(G, e, w), Len(w)>> \in P
<1>1. PICK f : FoldsBy(f, G, e, w, S)
  BY FoldExists
<1> DEFINE T == {n \in Nat : n <= Len(w) => <<f[n], n>> \in P}
<1>2. Len(w) \in Nat /\ \A n \in 1..Len(w) : w[n] \in L
  OBVIOUS
<1>3. 0 \in T
  BY <1>1, <1>2 DEF FoldsBy, IsFold
<1>4. \A n \in Nat : n \in T => n + 1 \in T
  <2> SUFFICES ASSUME NEW n \in Nat, n \in T, n + 1 <= Len(w) PROVE <<f[n + 1], n + 1>> \in P
    OBVIOUS
  <2>1. n <= Len(w) /\ n \in 0..Len(w) /\ n + 1 \in 1..Len(w) /\ n + 1 \in 0..Len(w)
        /\ (n + 1) - 1 = n /\ n + 1 # 0
    BY <1>2
  <2>2. f[n + 1] = G[<<f[n], w[n + 1]>>] /\ f[n] \in S
    BY <1>1, <2>1 DEF FoldsBy, IsFold
  <2>3. w[n + 1] \in L /\ <<f[n], n>> \in P
    BY <1>2, <2>1
  <2> QED
    BY <2>2, <2>3 DEF IsKept
<1>5. Len(w) \in T
  <2> HIDE DEF T
  <2> QED
    BY <1>2, <1>3, <1>4, InductionOnNaturals
<1> QED
  BY <1>1, <1>2, <1>5 DEF FoldsBy

-----------------------------------------------------------------------------
(* Trees *)

Rels == {"root", "member", "cause", "context"}
Level(lists) ==
  [name : Labels, frames : Seq(Labels), kids : lists, rel : Rels, group : BOOLEAN]
IsTrees(f, n) == f = [d \in 0..n |-> Level(IF d = 0 THEN {<<>>} ELSE Seq(f[d - 1]))]

(* The recursive function that AnyTree is a value of *)
TreesTo[d \in Nat] ==
  [name : Labels, frames : Seq(Labels),
   kids : IF d = 0 THEN {<<>>} ELSE Seq(TreesTo[d - 1]),
   rel : {"root", "member", "cause", "context"}, group : BOOLEAN]

LEMMA AnyTreeTo == AnyTree = TreesTo[TreeDepth]
BY DEF AnyTree, TreesTo

LEMMA TreesExist ==
  TreesTo = [d \in Nat |-> Level(IF d = 0 THEN {<<>>} ELSE Seq(TreesTo[d - 1]))]
<1> DEFINE T == {n \in Nat : \E f : IsTrees(f, n)}
<1>1. 0 \in T
  <2>1. IsTrees([d \in 0..0 |-> Level({<<>>})], 0)
    BY DEF IsTrees
  <2> QED
    BY <2>1
<1>2. \A n \in Nat : n \in T => n + 1 \in T
  <2> SUFFICES ASSUME NEW n \in Nat, n \in T PROVE \E f : IsTrees(f, n + 1)
    OBVIOUS
  <2>1. PICK f : IsTrees(f, n)
    OBVIOUS
  <2> DEFINE g == [d \in 0..(n + 1) |-> IF d <= n THEN f[d] ELSE Level(Seq(f[n]))]
  <2>2. ASSUME NEW d \in 0..(n + 1)
        PROVE  g[d] = Level(IF d = 0 THEN {<<>>} ELSE Seq(g[d - 1]))
    <3>1. CASE d = 0
      BY <2>1, <3>1 DEF IsTrees
    <3>2. CASE d # 0 /\ d <= n
      <4>1. d \in 0..n /\ d - 1 \in 0..(n + 1) /\ d - 1 <= n
        BY <3>2
      <4> QED
        BY <2>1, <3>2, <4>1 DEF IsTrees
    <3>3. CASE d = n + 1
      <4>1. ~(d <= n) /\ d # 0 /\ d - 1 = n /\ n \in 0..(n + 1) /\ n <= n
        BY <3>3
      <4> QED
        BY <4>1
    <3> QED
      BY <3>1, <3>2, <3>3
  <2>3. IsTrees(g, n + 1)
    <3>1. g = [d \in 0..(n + 1) |-> g[d]]
      OBVIOUS
    <3> HIDE DEF g
    <3>2. [d \in 0..(n + 1) |-> g[d]]
            = [d \in 0..(n + 1) |-> Level(IF d = 0 THEN {<<>>} ELSE Seq(g[d - 1]))]
      BY <2>2
    <3> QED
      BY <3>1, <3>2 DEF IsTrees
  <2> QED
    BY <2>3
<1>3. \A n \in Nat : \E f : IsTrees(f, n)
  <2>1. \A n \in Nat : n \in T
    <3> HIDE DEF T
    <3> QED
      BY <1>1, <1>2, InductionOnNaturals
  <2> QED
    BY <2>1
<1> DEFINE At(n) == CHOOSE f : IsTrees(f, n)
           F == [d \in Nat |-> At(d)[d]]
<1>4. \A n \in Nat : IsTrees(At(n), n)
  BY <1>3
<1> HIDE DEF At
<1>5. ASSUME NEW n \in Nat, NEW m \in Nat, NEW k \in Nat
      PROVE  k <= n /\ k <= m => At(n)[k] = At(m)[k]
  <2> DEFINE U == {i \in Nat : i <= n /\ i <= m => At(n)[i] = At(m)[i]}
  <2>1. 0 \in U
    BY <1>4 DEF IsTrees
  <2>2. \A i \in Nat : i \in U => i + 1 \in U
    <3> SUFFICES ASSUME NEW i \in Nat, i \in U, i + 1 <= n, i + 1 <= m
                 PROVE  At(n)[i + 1] = At(m)[i + 1]
      OBVIOUS
    <3>1. i + 1 \in 0..n /\ i + 1 \in 0..m /\ i + 1 # 0 /\ (i + 1) - 1 = i
      OBVIOUS
    <3>2. At(n)[i] = At(m)[i]
      BY <3>1
    <3>3. At(n)[i + 1] = Level(Seq(At(n)[i])) /\ At(m)[i + 1] = Level(Seq(At(m)[i]))
      BY <1>4, <3>1 DEF IsTrees
    <3> QED
      BY <3>2, <3>3
  <2>3. k \in U
    <3> HIDE DEF U
    <3> QED
      BY <2>1, <2>2, InductionOnNaturals
  <2> QED
    BY <2>3
<1>6. ASSUME NEW d \in Nat PROVE F[d] = Level(IF d = 0 THEN {<<>>} ELSE Seq(F[d - 1]))
  <2>1. d \in 0..d /\ F[d] = At(d)[d]
    OBVIOUS
  <2>2. At(d)[d] = Level(IF d = 0 THEN {<<>>} ELSE Seq(At(d)[d - 1]))
    BY <1>4, <2>1 DEF IsTrees
  <2>3. d # 0 => d - 1 \in Nat /\ d - 1 <= d /\ d - 1 <= d - 1
    OBVIOUS
  <2>4. d # 0 => At(d)[d - 1] = At(d - 1)[d - 1] /\ F[d - 1] = At(d - 1)[d - 1]
    BY <1>5, <2>3
  <2>5. d # 0 => At(d)[d - 1] = F[d - 1]
    BY <2>4
  <2> HIDE DEF F
  <2> QED
    BY <2>1, <2>2, <2>5
<1>7. F = [d \in Nat |-> Level(IF d = 0 THEN {<<>>} ELSE Seq(F[d - 1]))]
  <2>1. F = [d \in Nat |-> F[d]]
    OBVIOUS
  <2> HIDE DEF F
  <2>2. [d \in Nat |-> F[d]] = [d \in Nat |-> Level(IF d = 0 THEN {<<>>} ELSE Seq(F[d - 1]))]
    BY <1>6
  <2> QED
    BY <2>1, <2>2
<1> QED
  <2> HIDE DEF F
  <2>1. \E f : f = [d \in Nat |-> Level(IF d = 0 THEN {<<>>} ELSE Seq(f[d - 1]))]
    BY <1>7
  <2> QED
    BY <2>1 DEF TreesTo, Level, Rels

LEMMA TreeLevels ==
  /\ TreesTo[0] = Level({<<>>})
  /\ \A d \in Nat : TreesTo[d + 1] = Level(Seq(TreesTo[d]))
<1> DEFINE F == TreesTo
<1>1. F = [d \in Nat |-> Level(IF d = 0 THEN {<<>>} ELSE Seq(F[d - 1]))]
  BY TreesExist
<1> HIDE DEF F
<1>2. F[0] = Level({<<>>})
  BY <1>1
<1>3. ASSUME NEW d \in Nat PROVE F[d + 1] = Level(Seq(F[d]))
  <2>1. d + 1 \in Nat /\ d + 1 # 0 /\ (d + 1) - 1 = d
    OBVIOUS
  <2> QED
    BY <1>1, <2>1
<1> QED
  BY <1>2, <1>3 DEF F

LEMMA LevelsGrow == ASSUME NEW A, NEW B, A \subseteq B PROVE Level(A) \subseteq Level(B)
BY DEF Level

(* A tree of a depth is one of any greater depth. *)
LEMMA TreesGrow ==
  ASSUME NEW d \in Nat, NEW e \in Nat, d <= e
  PROVE  TreesTo[d] \subseteq TreesTo[e]
<1> DEFINE F == TreesTo
           Within(n) == F[n] \subseteq F[n + 1]
           T == {n \in Nat : Within(n)}
<1>1. 0 \in T
  <2>1. F[0] = Level({<<>>}) /\ F[0 + 1] = Level(Seq(F[0]))
    BY TreeLevels
  <2>2. {<<>>} \subseteq Seq(F[0])
    OBVIOUS
  <2> HIDE DEF F
  <2>3. Level({<<>>}) \subseteq Level(Seq(F[0]))
    BY <2>2, LevelsGrow
  <2> QED
    BY <2>1, <2>3
<1>2. \A n \in Nat : n \in T => n + 1 \in T
  <2> HIDE DEF Within, F
  <2> SUFFICES ASSUME NEW n \in Nat, n \in T PROVE Within(n + 1)
    OBVIOUS
  <2> USE DEF Within, F
  <2>1. F[n + 1] = Level(Seq(F[n])) /\ F[(n + 1) + 1] = Level(Seq(F[n + 1]))
    BY TreeLevels
  <2>2. Seq(F[n]) \subseteq Seq(F[n + 1])
    <3> HIDE DEF F
    <3> QED
      BY SeqMonotonic
  <2> HIDE DEF F
  <2> QED
    BY <2>1, <2>2, LevelsGrow
<1>3. \A n \in Nat : F[n] \subseteq F[n + 1]
  <2>1. \A n \in Nat : n \in T
    <3> HIDE DEF T
    <3> QED
      BY <1>1, <1>2, InductionOnNaturals
  <2> QED
    BY <2>1
<1> DEFINE U == {n \in Nat : F[d] \subseteq F[d + n]}
<1> HIDE DEF F
<1>4. 0 \in U
  <2>1. d + 0 = d
    OBVIOUS
  <2> QED
    BY <2>1
<1>5. \A n \in Nat : n \in U => n + 1 \in U
  <2> SUFFICES ASSUME NEW n \in Nat, n \in U PROVE F[d] \subseteq F[d + (n + 1)]
    OBVIOUS
  <2>1. d + (n + 1) = (d + n) + 1 /\ d + n \in Nat
    OBVIOUS
  <2>2. F[d + n] \subseteq F[(d + n) + 1]
    BY <1>3, <2>1
  <2> QED
    BY <2>1, <2>2
<1>6. e - d \in U
  <2>1. e - d \in Nat
    OBVIOUS
  <2> HIDE DEF U
  <2> QED
    BY <1>4, <1>5, <2>1, InductionOnNaturals
<1>7. d + (e - d) = e
  OBVIOUS
<1> QED
  BY <1>6, <1>7 DEF F

(* All trees *)
Wood == UNION {TreesTo[d] : d \in Nat}

LEMMA WoodIs == Wood = Level(Seq(Wood))
<1> DEFINE F == TreesTo
<1>1. \A d \in Nat : F[d] \subseteq Wood
  BY DEF Wood
<1>2. \A t \in Wood : \E d \in Nat : t \in F[d]
  BY DEF Wood
<1>3. F[0] = Level({<<>>}) /\ \A d \in Nat : F[d + 1] = Level(Seq(F[d]))
  BY TreeLevels
<1>4. \A d, e \in Nat : d <= e => F[d] \subseteq F[e]
  BY TreesGrow
<1> HIDE DEF F
<1>5. ASSUME NEW t \in Wood PROVE t \in Level(Seq(Wood))
  <2>1. PICK d \in Nat : t \in F[d]
    BY <1>2
  <2>2. F[d] \subseteq F[d + 1]
    BY <1>4
  <2>3. t \in Level(Seq(F[d]))
    BY <1>3, <2>1, <2>2
  <2>4. Seq(F[d]) \subseteq Seq(Wood)
    BY <1>1, SeqMonotonic
  <2> QED
    BY <2>3, <2>4, LevelsGrow
<1>6. ASSUME NEW w \in Seq(Wood) PROVE \E d \in Nat : w \in Seq(F[d])
  <2>3. Len(w) \in Nat
    OBVIOUS
  <2>6. \A i \in 1..Len(w) : w[i] \in Wood
    OBVIOUS
  <2> DEFINE Q(n) == \E d \in Nat : \A i \in 1..n : w[i] \in F[d]
             T == {n \in Nat : n <= Len(w) => Q(n)}
  <2>1. 0 \in T
    OBVIOUS
  <2>2. \A n \in Nat : n \in T => n + 1 \in T
    <3> HIDE DEF Q
    <3> SUFFICES ASSUME NEW n \in Nat, n \in T, n + 1 <= Len(w) PROVE Q(n + 1)
      OBVIOUS
    <3>1. n <= Len(w) /\ n + 1 \in 1..Len(w) /\ w[n + 1] \in Wood
      <4>2. n <= Len(w) /\ n + 1 \in 1..Len(w)
        BY <2>3
      <4> QED
        BY <2>6, <4>2
    <3>2. PICK d \in Nat : \A i \in 1..n : w[i] \in F[d]
      BY <3>1 DEF Q
    <3>3. PICK e \in Nat : w[n + 1] \in F[e]
      BY <1>2, <3>1
    <3>4. d + e \in Nat /\ d <= d + e /\ e <= d + e
      OBVIOUS
    <3>5. F[d] \subseteq F[d + e] /\ F[e] \subseteq F[d + e]
      BY <1>4, <3>4
    <3>6. \A i \in 1..(n + 1) : i \in 1..n \/ i = n + 1
      OBVIOUS
    <3>7. \A i \in 1..(n + 1) : w[i] \in F[d + e]
      BY <3>2, <3>3, <3>5, <3>6
    <3> QED
      BY <3>4, <3>7 DEF Q
  <2>4. Len(w) \in T
    <3> HIDE DEF T
    <3> QED
      BY <2>1, <2>2, <2>3, InductionOnNaturals
  <2>7. Q(Len(w))
    <3> HIDE DEF Q
    <3>1. Len(w) <= Len(w)
      BY <2>3
    <3> QED
      BY <2>4, <3>1
  <2>5. PICK d \in Nat : \A i \in 1..Len(w) : w[i] \in F[d]
    BY <2>7 DEF Q
  <2> QED
    BY <2>3, <2>5
<1>7. ASSUME NEW t \in Level(Seq(Wood)) PROVE t \in Wood
  <2>1. PICK d \in Nat : t.kids \in Seq(F[d])
    BY <1>6 DEF Level
  <2>2. t \in Level(Seq(F[d]))
    BY <2>1 DEF Level
  <2>3. d + 1 \in Nat /\ t \in F[d + 1]
    BY <1>3, <2>2
  <2> QED
    BY <1>1, <2>3
<1> QED
  BY <1>5, <1>7

-----------------------------------------------------------------------------
(* What the parser reads off the lines of a text *)


LEMMA LinesAre == Lines = Seq(AnyLine)
BY DEF AnyLine, Lines

LEMMA MaxInside ==
  ASSUME NEW L, NEW w \in Seq(L), NEW s \in SUBSET DOMAIN w, s # {}
  PROVE  LET k == Max(s) IN
         k \in s /\ k \in DOMAIN w /\ w[k] \in L /\ s \ {k} \in SUBSET DOMAIN w
<1>1. Len(w) \in Nat /\ DOMAIN w = 1..Len(w) /\ \A n \in 1..Len(w) : w[n] \in L
  OBVIOUS
<1>2. s \subseteq Nat /\ \A n \in s : n <= Len(w)
  BY <1>1
<1>3. \E m \in s : \A n \in s : n <= m
  BY <1>1, <1>2, GreatestOfNaturals
<1>4. \E m \in s : \A n \in s : m >= n
  BY <1>2, <1>3
<1>5. Max(s) \in s
  BY <1>4 DEF Max
<1> QED
  BY <1>1, <1>5

(* Frames and the exception *)
ReadState == [frames : Seq(Labels), name : Labels]
ReadStart == [frames |-> <<>>, name |-> "Exception"]
ReadStep  == [p \in ReadState \X AnyLine |-> ReadLine(p[1], p[2])]

LEMMA ReadStepIs ==
  /\ ReadStart \in ReadState /\ IsStep(ReadStep, ReadState, AnyLine)
  /\ \A s \in ReadState, l \in AnyLine : ReadStep[<<s, l>>] = ReadLine(s, l)
<1>1. ASSUME NEW s \in ReadState, NEW l \in AnyLine PROVE ReadLine(s, l) \in ReadState
  <2>1. l.name \in Labels
    BY DEF AnyLine
  <2> QED
    BY <2>1 DEF ReadState, ReadLine
<1>2. "Exception" \in Labels
  BY DEF Labels
<1>3. <<>> \in Seq(Labels)
  OBVIOUS
<1> QED
  BY <1>1, <1>2, <1>3 DEF ReadStep, ReadStart, ReadState, IsStep

LEMMA ReadFolds ==
  ASSUME NEW w \in Lines
  PROVE  Read(w) = Fold(ReadStep, ReadStart, w) /\ Read(w) \in ReadState
<1> DEFINE Next1(h, s) == IF s = {} THEN ReadStart
                          ELSE ReadLine(h[s \ {Max(s)}], w[Max(s)])
           E(h) == h = [s \in SUBSET DOMAIN w |-> Next1(h, s)]
           g == CHOOSE h : E(h)
<1>1. w \in Seq(AnyLine)
  BY LinesAre
<1>2. PICK f : IsIteration(f, ReadStep, ReadStart, w, ReadState)
  BY <1>1, ReadStepIs, IterationExists
<1> USE DEF IsIteration
<1>3. E(f)
  <2>1. ASSUME NEW s \in SUBSET DOMAIN w PROVE f[s] = Next1(f, s)
    <3>1. s # {} => w[Max(s)] \in AnyLine /\ f[s \ {Max(s)}] \in ReadState
      BY <1>1, <1>2, MaxInside
    <3> QED
      BY <1>2, <3>1, ReadStepIs
  <2>2. f = [s \in SUBSET DOMAIN w |-> f[s]]
    BY <1>2
  <2> HIDE DEF Next1
  <2>3. [s \in SUBSET DOMAIN w |-> f[s]] = [s \in SUBSET DOMAIN w |-> Next1(f, s)]
    BY <2>1
  <2> QED
    BY <2>2, <2>3
<1>4. E(g)
  <2> HIDE DEF E
  <2> QED
    BY <1>3
<1>5. Read(w) = g[DOMAIN w]
  BY DEF Read, FoldLeft, MapThenFoldSet, ReadStart
<1> HIDE DEF g
<1>6. Iterates(g, ReadStep, ReadStart, w, ReadState)
  <2>1. g[{}] = ReadStart
    BY <1>4
  <2>2. ASSUME NEW s \in SUBSET DOMAIN w, s # {}, g[s \ {Max(s)}] \in ReadState
        PROVE  g[s] = ReadStep[<<g[s \ {Max(s)}], w[Max(s)]>>]
    <3>1. w[Max(s)] \in AnyLine
      BY <1>1, <2>2, MaxInside
    <3>2. g[s] = ReadLine(g[s \ {Max(s)}], w[Max(s)])
      BY <1>4, <2>2
    <3> QED
      BY <2>2, <3>1, <3>2, ReadStepIs
  <2> QED
    BY <2>1, <2>2 DEF Iterates
<1>7. g[DOMAIN w] = Fold(ReadStep, ReadStart, w)
  BY <1>1, <1>6, ReadStepIs, IteratesFolds
<1>8. Fold(ReadStep, ReadStart, w) \in ReadState
  BY <1>1, ReadStepIs, FoldType
<1> QED
  BY <1>5, <1>7, <1>8

(* _parse_simple is right about the kind of thing that it reads. *)
LEMMA SimpleIs ==
  ASSUME NEW w \in Lines
  PROVE  /\ ParseSimple(w) \in Wood
         /\ \A kids \in Seq(Wood) : [ParseSimple(w) EXCEPT !.kids = kids] \in Wood
<1>1. Read(w) \in ReadState
  BY ReadFolds
<1>2. ParseSimple(w) \in Level(Seq(Wood))
  <2>1. <<>> \in Seq(Wood)
    OBVIOUS
  <2> QED
    BY <1>1, <2>1 DEF ParseSimple, Node, ReadState, Level, Rels
<1>3. \A kids \in Seq(Wood) : [ParseSimple(w) EXCEPT !.kids = kids] \in Level(Seq(Wood))
  BY <1>2 DEF Level
<1> QED
  BY <1>2, <1>3, WoodIs

(* Exceptions that led to one another *)
ChainState == [kid : Seq(Wood), part : Lines]
ChainStart == [kid |-> <<>>, part |-> <<>>]
ChainStep  == [p \in ChainState \X AnyLine |-> ChainLine(p[1], p[2])]

LEMMA ChainStepIs ==
  /\ ChainStart \in ChainState /\ IsStep(ChainStep, ChainState, AnyLine)
  /\ \A s \in ChainState, l \in AnyLine : ChainStep[<<s, l>>] = ChainLine(s, l)
<1>1. ASSUME NEW s \in ChainState, NEW l \in AnyLine PROVE ChainLine(s, l) \in ChainState
  <2>1. CASE l.kind \in {"cause", "context"}
    <3>1. s.part \in Lines /\ s.kid \in Seq(Wood)
      BY DEF ChainState
    <3>2. PICK t \in Wood : t = [ParseSimple(s.part) EXCEPT !.kids = s.kid]
      BY <3>1, SimpleIs
    <3>3. As(t, l.kind) \in Wood
      <4>1. t \in Level(Seq(Wood))
        BY WoodIs
      <4>2. [t EXCEPT !.rel = l.kind] \in Level(Seq(Wood))
        BY <2>1, <4>1 DEF Level, Rels
      <4> QED
        BY <4>2, WoodIs DEF As
    <3>4. <<As(t, l.kind)>> \in Seq(Wood) /\ <<>> \in Lines
      BY <3>3, LinesAre
    <3> QED
      BY <2>1, <3>2, <3>4 DEF ChainLine, ChainState
  <2>2. CASE l.kind \notin {"cause", "context"}
    <3>1. Append(s.part, l) \in Lines
      BY LinesAre DEF ChainState
    <3> QED
      BY <2>2, <3>1 DEF ChainLine, ChainState
  <2> QED
    BY <2>1, <2>2
<1>2. <<>> \in Seq(Wood) /\ <<>> \in Lines
  BY LinesAre
<1> QED
  BY <1>1, <1>2 DEF ChainStep, ChainStart, ChainState, IsStep

LEMMA ChainFolds ==
  ASSUME NEW w \in Lines
  PROVE  LET end == Fold(ChainStep, ChainStart, w) IN
         /\ end \in ChainState
         /\ ParseChained(w) = [ParseSimple(end.part) EXCEPT !.kids = end.kid]
<1> DEFINE Next1(h, s) == IF s = {} THEN ChainStart
                          ELSE ChainLine(h[s \ {Max(s)}], w[Max(s)])
           E(h) == h = [s \in SUBSET DOMAIN w |-> Next1(h, s)]
           g == CHOOSE h : E(h)
<1>1. w \in Seq(AnyLine)
  BY LinesAre
<1>2. PICK f : IsIteration(f, ChainStep, ChainStart, w, ChainState)
  BY <1>1, ChainStepIs, IterationExists
<1> USE DEF IsIteration
<1>3. E(f)
  <2>1. ASSUME NEW s \in SUBSET DOMAIN w PROVE f[s] = Next1(f, s)
    <3>1. s # {} => w[Max(s)] \in AnyLine /\ f[s \ {Max(s)}] \in ChainState
      BY <1>1, <1>2, MaxInside
    <3> QED
      BY <1>2, <3>1, ChainStepIs
  <2>2. f = [s \in SUBSET DOMAIN w |-> f[s]]
    BY <1>2
  <2> HIDE DEF Next1
  <2>3. [s \in SUBSET DOMAIN w |-> f[s]] = [s \in SUBSET DOMAIN w |-> Next1(f, s)]
    BY <2>1
  <2> QED
    BY <2>2, <2>3
<1>4. E(g)
  <2> HIDE DEF E
  <2> QED
    BY <1>3
<1>5. ParseChained(w)
        = LET end == g[DOMAIN w] IN [ParseSimple(end.part) EXCEPT !.kids = end.kid]
  BY DEF ParseChained, FoldLeft, MapThenFoldSet, ChainStart
<1> HIDE DEF g
<1>6. Iterates(g, ChainStep, ChainStart, w, ChainState)
  <2>1. g[{}] = ChainStart
    BY <1>4
  <2>2. ASSUME NEW s \in SUBSET DOMAIN w, s # {}, g[s \ {Max(s)}] \in ChainState
        PROVE  g[s] = ChainStep[<<g[s \ {Max(s)}], w[Max(s)]>>]
    <3>1. w[Max(s)] \in AnyLine
      BY <1>1, <2>2, MaxInside
    <3>2. g[s] = ChainLine(g[s \ {Max(s)}], w[Max(s)])
      BY <1>4, <2>2
    <3> QED
      BY <2>2, <3>1, <3>2, ChainStepIs
  <2> QED
    BY <2>1, <2>2 DEF Iterates
<1>7. g[DOMAIN w] = Fold(ChainStep, ChainStart, w)
  BY <1>1, <1>6, ChainStepIs, IteratesFolds
<1>8. Fold(ChainStep, ChainStart, w) \in ChainState
  BY <1>1, ChainStepIs, FoldType
<1> QED
  BY <1>5, <1>7, <1>8

(* The members of a group *)
SplitState == [blocks : Seq(Lines), block : Lines, depth : Nat, inside : BOOLEAN]
SplitStart == [blocks |-> <<>>, block |-> <<>>, depth |-> 0, inside |-> FALSE]
SplitStep  == [p \in SplitState \X AnyLine |-> SplitLine(p[1], p[2])]

LEMMA FlushIs ==
  ASSUME NEW s \in SplitState PROVE Flush(s) \in SplitState
<1>1. Append(s.blocks, s.block) \in Seq(Lines) /\ <<>> \in Lines
  BY LinesAre DEF SplitState
<1> QED
  BY <1>1 DEF Flush, SplitState

LEMMA KeepIs ==
  ASSUME NEW s \in SplitState, NEW l \in AnyLine, NEW d \in Nat
  PROVE  Keep(s, l, d) \in SplitState
<1>1. Append(s.block, l) \in Lines
  BY LinesAre DEF SplitState
<1> QED
  BY <1>1 DEF Keep, SplitState

LEMMA SplitStepIs ==
  /\ SplitStart \in SplitState /\ IsStep(SplitStep, SplitState, AnyLine)
  /\ \A s \in SplitState, l \in AnyLine : SplitStep[<<s, l>>] = SplitLine(s, l)
<1>1. ASSUME NEW s \in SplitState, NEW l \in AnyLine PROVE SplitLine(s, l) \in SplitState
  <2>1. s.depth \in Nat /\ s.inside \in BOOLEAN
    BY DEF SplitState
  <2>2. ASSUME NEW d \in Nat PROVE Keep(s, l, d) \in SplitState
    BY KeepIs
  <2>5. s.depth + 1 \in Nat /\ (s.depth > 0 => s.depth - 1 \in Nat)
    BY <2>1
  <2>3. Flush(s) \in SplitState
    BY FlushIs
  <2>4. \A z \in SplitState, b \in BOOLEAN : [z EXCEPT !.inside = b] \in SplitState
    BY DEF SplitState
  <2> QED
    BY <2>1, <2>2, <2>3, <2>4, <2>5 DEF SplitLine
<1>2. <<>> \in Seq(Lines) /\ <<>> \in Lines
  BY LinesAre
<1> QED
  BY <1>1, <1>2 DEF SplitStep, SplitStart, SplitState, IsStep

LEMMA SplitFolds ==
  ASSUME NEW w \in Lines
  PROVE  LET end == Fold(SplitStep, SplitStart, w) IN
         /\ end \in SplitState
         /\ Split(w) = IF end.block = <<>> THEN end.blocks ELSE Append(end.blocks, end.block)
<1> DEFINE Next1(h, s) == IF s = {} THEN SplitStart
                          ELSE SplitLine(h[s \ {Max(s)}], w[Max(s)])
           E(h) == h = [s \in SUBSET DOMAIN w |-> Next1(h, s)]
           g == CHOOSE h : E(h)
<1>1. w \in Seq(AnyLine)
  BY LinesAre
<1>2. PICK f : IsIteration(f, SplitStep, SplitStart, w, SplitState)
  BY <1>1, SplitStepIs, IterationExists
<1> USE DEF IsIteration
<1>3. E(f)
  <2>1. ASSUME NEW s \in SUBSET DOMAIN w PROVE f[s] = Next1(f, s)
    <3>1. s # {} => w[Max(s)] \in AnyLine /\ f[s \ {Max(s)}] \in SplitState
      BY <1>1, <1>2, MaxInside
    <3> QED
      BY <1>2, <3>1, SplitStepIs
  <2>2. f = [s \in SUBSET DOMAIN w |-> f[s]]
    BY <1>2
  <2> HIDE DEF Next1
  <2>3. [s \in SUBSET DOMAIN w |-> f[s]] = [s \in SUBSET DOMAIN w |-> Next1(f, s)]
    BY <2>1
  <2> QED
    BY <2>2, <2>3
<1>4. E(g)
  <2> HIDE DEF E
  <2> QED
    BY <1>3
<1>5. Split(w)
        = LET end == g[DOMAIN w] IN
          IF end.block = <<>> THEN end.blocks ELSE Append(end.blocks, end.block)
  BY DEF Split, FoldLeft, MapThenFoldSet, SplitStart
<1> HIDE DEF g
<1>6. Iterates(g, SplitStep, SplitStart, w, SplitState)
  <2>1. g[{}] = SplitStart
    BY <1>4
  <2>2. ASSUME NEW s \in SUBSET DOMAIN w, s # {}, g[s \ {Max(s)}] \in SplitState
        PROVE  g[s] = SplitStep[<<g[s \ {Max(s)}], w[Max(s)]>>]
    <3>1. w[Max(s)] \in AnyLine
      BY <1>1, <2>2, MaxInside
    <3>2. g[s] = SplitLine(g[s \ {Max(s)}], w[Max(s)])
      BY <1>4, <2>2
    <3> QED
      BY <2>2, <3>1, <3>2, SplitStepIs
  <2> QED
    BY <2>1, <2>2 DEF Iterates
<1>7. g[DOMAIN w] = Fold(SplitStep, SplitStart, w)
  BY <1>1, <1>6, SplitStepIs, IteratesFolds
<1>8. Fold(SplitStep, SplitStart, w) \in SplitState
  BY <1>1, SplitStepIs, FoldType
<1> QED
  BY <1>5, <1>7, <1>8

-----------------------------------------------------------------------------
(* Groups *)

(* Every member takes fewer lines than the group. *)
IsShorter(s, n) ==
  /\ IF s.inside THEN Len(s.block) < n ELSE s.block = <<>>
  /\ \A b \in DOMAIN s.blocks : Len(s.blocks[b]) < n

LEMMA ShorterStep ==
  ASSUME NEW s \in SplitState, NEW n \in Nat, NEW l \in AnyLine, IsShorter(s, n)
  PROVE  IsShorter(SplitStep[<<s, l>>], n + 1)
<1> DEFINE z == SplitLine(s, l)
<1>1. SplitStep[<<s, l>>] = z
  BY SplitStepIs
<1>2. s.blocks \in Seq(Lines) /\ s.block \in Seq(AnyLine) /\ s.depth \in Nat
      /\ s.inside \in BOOLEAN /\ Len(s.block) \in Nat
  BY LinesAre DEF SplitState
<1>3. \A b \in DOMAIN s.blocks : Len(s.blocks[b]) \in Nat
  BY <1>2, LinesAre
<1>4. ASSUME NEW d, s.inside PROVE IsShorter(Keep(s, l, d), n + 1)
  <2> DEFINE k == Keep(s, l, d)
  <2>1. k.block = Append(s.block, l) /\ k.blocks = s.blocks /\ k.inside = s.inside
    BY DEF Keep, SplitState
  <2>2. Len(Append(s.block, l)) = Len(s.block) + 1
    BY <1>2
  <2>3. Len(s.block) < n /\ \A b \in DOMAIN s.blocks : Len(s.blocks[b]) < n
    BY <1>4 DEF IsShorter
  <2> HIDE DEF k
  <2>4. Len(k.block) < n + 1
    BY <1>2, <2>1, <2>2, <2>3
  <2>5. \A b \in DOMAIN k.blocks : Len(k.blocks[b]) < n + 1
    BY <1>3, <2>1, <2>3
  <2>6. IsShorter(k, n + 1)
    BY <1>4, <2>1, <2>4, <2>5 DEF IsShorter
  <2> QED
    BY <2>6 DEF k
<1>5. LET f == Flush(s) IN
      /\ f.block = <<>> /\ \A b \in DOMAIN f.blocks : Len(f.blocks[b]) < n + 1
  <2>1. CASE s.inside /\ s.block # <<>>
    <3> DEFINE c == Append(s.blocks, s.block)
    <3>1. Flush(s).block = <<>> /\ Flush(s).blocks = c
      BY <2>1 DEF Flush, SplitState
    <3>2. \A b \in DOMAIN c : (b \in DOMAIN s.blocks /\ c[b] = s.blocks[b]) \/ c[b] = s.block
      BY <1>2
    <3> HIDE DEF c
    <3> QED
      BY <1>2, <1>3, <2>1, <3>1, <3>2 DEF IsShorter
  <2>2. CASE ~(s.inside /\ s.block # <<>>)
    <3>1. Flush(s) = s
      BY <2>2 DEF Flush
    <3> QED
      BY <1>2, <1>3, <2>2, <3>1 DEF IsShorter
  <2> QED
    BY <2>1, <2>2
<1>6. \A b \in BOOLEAN : LET f == [Flush(s) EXCEPT !.inside = b] IN IsShorter(f, n + 1)
  <2> SUFFICES ASSUME NEW b \in BOOLEAN PROVE IsShorter([Flush(s) EXCEPT !.inside = b], n + 1)
    OBVIOUS
  <2> DEFINE f == [Flush(s) EXCEPT !.inside = b]
  <2>1. Flush(s) \in SplitState
    BY FlushIs
  <2>2. f.block = Flush(s).block /\ f.blocks = Flush(s).blocks /\ f.inside = b
    BY <2>1 DEF SplitState
  <2> HIDE DEF f
  <2>3. Len(<<>>) = 0 /\ 0 < n + 1
    OBVIOUS
  <2>4. IsShorter(f, n + 1)
    BY <1>5, <2>2, <2>3 DEF IsShorter
  <2> QED
    BY <2>4 DEF f
<1>7. ASSUME ~s.inside PROVE IsShorter(s, n + 1) /\ IsShorter([s EXCEPT !.inside = TRUE], n + 1)
  <2> DEFINE f == [s EXCEPT !.inside = TRUE]
  <2>1. f.block = s.block /\ f.blocks = s.blocks /\ f.inside = TRUE
    BY DEF SplitState
  <2> HIDE DEF f
  <2>2. s.block = <<>> /\ Len(s.block) = 0 /\ \A b \in DOMAIN s.blocks : Len(s.blocks[b]) < n + 1
    BY <1>3, <1>7 DEF IsShorter
  <2>3. IsShorter(f, n + 1) /\ IsShorter(s, n + 1)
    BY <1>7, <2>1, <2>2 DEF IsShorter
  <2> QED
    BY <2>3 DEF f
<1> QED
  BY <1>1, <1>2, <1>4, <1>6, <1>7 DEF SplitLine

LEMMA SplitShorter ==
  ASSUME NEW w \in Lines
  PROVE  /\ Split(w) \in Seq(Lines)
         /\ \A b \in DOMAIN Split(w) : Len(Split(w)[b]) < Len(w)
<1> DEFINE P == {p \in SplitState \X Nat : IsShorter(p[1], p[2])}
           end == Fold(SplitStep, SplitStart, w)
<1>1. w \in Seq(AnyLine)
  BY LinesAre
<1>2. <<SplitStart, 0>> \in P
  <2>1. IsShorter(SplitStart, 0)
    <3>1. SplitStart.inside = FALSE /\ SplitStart.block = <<>> /\ SplitStart.blocks = <<>>
      BY DEF SplitStart
    <3>2. DOMAIN SplitStart.blocks = {}
      BY <3>1
    <3> HIDE DEF SplitStart
    <3> QED
      BY <3>1, <3>2 DEF IsShorter
  <2>2. SplitStart \in SplitState
    BY SplitStepIs
  <2> QED
    BY <2>1, <2>2
<1>3. IsKept(P, SplitStep, SplitState, AnyLine)
  <2> SUFFICES ASSUME NEW s \in SplitState, NEW n \in Nat, NEW l \in AnyLine, <<s, n>> \in P
               PROVE  <<SplitStep[<<s, l>>], n + 1>> \in P
    BY DEF IsKept
  <2>1. IsShorter(SplitStep[<<s, l>>], n + 1)
    BY ShorterStep
  <2>2. SplitStep[<<s, l>>] \in SplitState
    BY SplitStepIs DEF IsStep
  <2> QED
    BY <2>1, <2>2
<1>4. <<end, Len(w)>> \in P
  <2> HIDE DEF P
  <2> QED
    BY <1>1, <1>2, <1>3, SplitStepIs, FoldKeeps
<1>5. end \in SplitState /\ IsShorter(end, Len(w))
  BY <1>4
<1>6. Split(w) = IF end.block = <<>> THEN end.blocks ELSE Append(end.blocks, end.block)
  BY SplitFolds
<1> HIDE DEF end, P
<1>7. end.blocks \in Seq(Lines) /\ end.block \in Lines /\ end.inside \in BOOLEAN
  BY <1>5 DEF SplitState
<1>8. CASE end.block = <<>>
  BY <1>5, <1>6, <1>7, <1>8 DEF IsShorter
<1>9. CASE end.block # <<>>
  <2> DEFINE c == Append(end.blocks, end.block)
  <2>1. c \in Seq(Lines)
        /\ \A b \in DOMAIN c : (b \in DOMAIN end.blocks /\ c[b] = end.blocks[b]) \/ c[b] = end.block
    BY <1>7
  <2>2. Split(w) = c
    BY <1>6, <1>9
  <2> HIDE DEF c
  <2>3. Len(end.block) < Len(w) /\ \A b \in DOMAIN end.blocks : Len(end.blocks[b]) < Len(w)
    BY <1>5, <1>7, <1>9 DEF IsShorter
  <2> QED
    BY <2>1, <2>2, <2>3
<1> QED
  BY <1>8, <1>9

(* Where the header of a group ends *)
Named(w) == SelectInSeq(w, LAMBDA l : l = Line("error", "group"))
Header(w) == IF Named(w) = 0 THEN w ELSE SubSeq(w, 1, Named(w))

LEMMA NamedIs ==
  ASSUME NEW w \in Lines
  PROVE  /\ Named(w) \in 0..Len(w)
         /\ \A n \in 1..Len(w) :
              w[n] = Line("error", "group")
              /\ (\A k \in 1..(n - 1) : w[k] # Line("error", "group")) => Named(w) = n
<1> DEFINE I == {n \in 1..Len(w) : w[n] = Line("error", "group")}
<1>1. Len(w) \in Nat
  BY LinesAre
<1>2. Named(w) = IF I # {} THEN Min(I) ELSE 0
  BY DEF Named, SelectInSeq
<1>3. ASSUME I # {} PROVE Min(I) \in I /\ \A n \in I : Min(I) <= n
  <2>1. I \subseteq Nat
    OBVIOUS
  <2> HIDE DEF I
  <2>2. \E m \in I : \A n \in I : m <= n
    BY <1>3, <2>1, LeastOfNaturals
  <2>3. \E m \in I : \A n \in I : m =< n
    BY <2>2
  <2> QED
    BY <2>3 DEF Min
<1>4. Named(w) \in 0..Len(w)
  BY <1>1, <1>2, <1>3
<1>5. ASSUME NEW n \in 1..Len(w), w[n] = Line("error", "group"),
             \A k \in 1..(n - 1) : w[k] # Line("error", "group")
      PROVE  Named(w) = n
  <2>1. n \in I /\ Min(I) \in I /\ Min(I) <= n
    BY <1>3, <1>5
  <2>2. Min(I) \in 1..Len(w) /\ Min(I) \notin 1..(n - 1)
    BY <1>5, <2>1
  <2>3. Min(I) = n
    BY <1>1, <2>1, <2>2
  <2> QED
    BY <1>2, <2>1, <2>3
<1> QED
  BY <1>4, <1>5

LEMMA HeaderIs == ASSUME NEW w \in Lines PROVE Header(w) \in Lines
<1>1. Named(w) \in 0..Len(w) /\ w \in Seq(AnyLine)
  BY NamedIs, LinesAre
<1>2. Named(w) # 0 => SubSeq(w, 1, Named(w)) \in Seq(AnyLine)
  BY <1>1
<1> QED
  BY <1>1, <1>2, LinesAre DEF Header

(* A group, with its members that are groups read by f *)
Member(f, b) == As(IF IsGroup(b) THEN f[b] ELSE ParseSimple(b), "member")
GroupOf(f, w) ==
  Node("group", Read(Header(w)).frames,
             [b \in DOMAIN Split(w) |-> Member(f, Split(w)[b])], "root", TRUE)

LEMMA MemberIs ==
  ASSUME NEW f \in [Lines -> Wood], NEW b \in Lines
  PROVE  Member(f, b) \in Wood
<1>1. PICK t \in Wood : t = IF IsGroup(b) THEN f[b] ELSE ParseSimple(b)
  BY SimpleIs
<1>2. t \in Level(Seq(Wood))
  BY WoodIs
<1>3. [t EXCEPT !.rel = "member"] \in Level(Seq(Wood))
  BY <1>2 DEF Level, Rels
<1> QED
  BY <1>1, <1>3, WoodIs DEF Member, As

LEMMA GroupOfIs ==
  ASSUME NEW f \in [Lines -> Wood], NEW w \in Lines
  PROVE  GroupOf(f, w) \in Wood
<1>1. Read(Header(w)) \in ReadState
  BY HeaderIs, ReadFolds
<1>2. Split(w) \in Seq(Lines)
  BY SplitShorter
<1>3. [b \in DOMAIN Split(w) |-> Member(f, Split(w)[b])] \in Seq(Wood)
  <2>1. PICK c \in Seq(Lines) : c = Split(w)
    BY <1>2
  <2>2. \A b \in 1..Len(c) : Member(f, c[b]) \in Wood
    BY MemberIs
  <2>3. Len(c) \in Nat /\ DOMAIN c = 1..Len(c)
    OBVIOUS
  <2>4. [b \in 1..Len(c) |-> Member(f, c[b])] \in Seq(Wood)
    BY <2>2, <2>3
  <2> QED
    BY <2>1, <2>3, <2>4
<1>4. "group" \in Labels
  BY DEF Labels
<1>5. GroupOf(f, w) \in Level(Seq(Wood))
  BY <1>1, <1>3, <1>4 DEF GroupOf, Node, Level, Rels, ReadState
<1> QED
  BY <1>5, WoodIs

LEMMA ParseGroupIs ==
  /\ ParseGroup \in [Lines -> Wood]
  /\ \A w \in Lines : ParseGroup[w] = GroupOf(ParseGroup, w)
<1> DEFINE D == Lines
           H == [f \in [D -> Wood] |-> [w \in D |-> GroupOf(f, w)]]
           rank == [w \in D |-> Len(w)]
<1>1. rank \in [D -> Nat]
  <2>1. \A w \in D : Len(w) \in Nat
    BY LinesAre
  <2> QED
    BY <2>1
<1>2. [D -> Wood] # {}
  <2>1. [w \in D |-> ParseSimple(w)] \in [D -> Wood]
    BY SimpleIs
  <2> QED
    BY <2>1
<1>3. H \in [[D -> Wood] -> [D -> Wood]]
  <2>1. \A f \in [D -> Wood], w \in D : GroupOf(f, w) \in Wood
    BY GroupOfIs
  <2> QED
    BY <2>1
<1>4. \A f, g \in [D -> Wood], w \in D :
        (\A y \in D : rank[y] < rank[w] => f[y] = g[y]) => H[f][w] = H[g][w]
  <2> SUFFICES ASSUME NEW f \in [D -> Wood], NEW g \in [D -> Wood], NEW w \in D,
                      \A y \in D : rank[y] < rank[w] => f[y] = g[y]
               PROVE  GroupOf(f, w) = GroupOf(g, w)
    OBVIOUS
  <2>1. ASSUME NEW b \in DOMAIN Split(w)
        PROVE  Member(f, Split(w)[b]) = Member(g, Split(w)[b])
    <3>1. Split(w)[b] \in D /\ Len(Split(w)[b]) < Len(w)
      BY SplitShorter
    <3>2. f[Split(w)[b]] = g[Split(w)[b]]
      BY <3>1
    <3> QED
      BY <3>2 DEF Member
  <2> QED
    BY <2>1 DEF GroupOf
<1>5. PICK f \in [D -> Wood] : f = H[f]
  <2> HIDE DEF D, H, rank
  <2>1. Approximates(H, D, Wood, rank)
    BY <1>1, <1>2, <1>3, <1>4 DEF Approximates
  <2> QED
    BY <2>1, RecursionExists
<1> DEFINE E(g) == g = [w \in Lines |-> GroupOf(g, w)]
<1>6. E(f)
  BY <1>5
<1>7. E(ParseGroup)
  <2> DEFINE g == CHOOSE h : E(h)
  <2>1. E(g)
    <3> HIDE DEF E
    <3> QED
      BY <1>6
  <2>2. ParseGroup = g
    BY DEF ParseGroup, GroupOf, Member, Header, Named
  <2> HIDE DEF g
  <2> QED
    BY <2>1, <2>2
<1>8. ParseGroup = f
  <2> DEFINE g == ParseGroup
             Bad == {w \in D : g[w] # f[w]}
             Ranks == {Len(w) : w \in Bad}
  <2>1. Bad = {}
    <3> SUFFICES ASSUME Bad # {} PROVE FALSE
      OBVIOUS
    <3>1. PICK w \in Bad : \A y \in Bad : ~(Len(y) < Len(w))
      <4>1. \A y \in D : Len(y) \in Nat
        BY LinesAre
      <4>2. Ranks \subseteq Nat /\ Ranks # {}
        BY <4>1
      <4>3. PICK n \in Ranks : \A m \in Ranks : n <= m
        <5> HIDE DEF Ranks
        <5> QED
          BY <4>2, LeastOfNaturals
      <4>4. PICK w \in Bad : Len(w) = n
        BY <4>3
      <4>5. \A y \in Bad : y \in D /\ Len(y) \in Ranks
        OBVIOUS
      <4> HIDE DEF Bad, Ranks
      <4> QED
        BY <4>1, <4>3, <4>4, <4>5
    <3>2. ASSUME NEW b \in DOMAIN Split(w)
          PROVE  Member(f, Split(w)[b]) = Member(g, Split(w)[b])
      <4>1. Split(w)[b] \in D /\ Len(Split(w)[b]) < Len(w)
        BY SplitShorter
      <4>2. f[Split(w)[b]] = g[Split(w)[b]]
        BY <3>1, <4>1
      <4> QED
        BY <4>2 DEF Member
    <3>3. GroupOf(f, w) = GroupOf(g, w)
      BY <3>2 DEF GroupOf
    <3>4. f[w] = GroupOf(f, w) /\ g[w] = GroupOf(g, w)
      <4> HIDE DEF g
      <4> QED
        BY <1>6, <1>7 DEF g
    <3> QED
      BY <3>3, <3>4
  <2>2. g = [w \in D |-> g[w]] /\ f = [w \in D |-> f[w]]
    BY <1>6, <1>7
  <2> HIDE DEF g
  <2> QED
    BY <2>1, <2>2 DEF g
<1> QED
  BY <1>6, <1>8

-----------------------------------------------------------------------------
(* Sequences put one after the other *)

Joins(f, ss, L) ==
  /\ f \in [1..Len(ss) -> Seq(L)]
  /\ f = [n \in 1..Len(ss) |-> IF n = 1 THEN ss[n] ELSE f[n - 1] \o ss[n]]
  /\ FlattenSeq(ss) = f[Len(ss)]

LEMMA FlattenIs ==
  ASSUME NEW L, NEW ss \in Seq(Seq(L)), ss # <<>>
  PROVE  \E f : Joins(f, ss, L)
<1> DEFINE D == 1..Len(ss)
           S == Seq(L)
           H == [f \in [D -> S] |-> [n \in D |-> IF n = 1 THEN ss[n] ELSE f[n - 1] \o ss[n]]]
           rank == [n \in D |-> n]
           E(f) == f = [n \in 1..Len(ss) |-> IF n = 1 THEN ss[n] ELSE f[n - 1] \o ss[n]]
           g == CHOOSE f : E(f)
<1>1. Len(ss) \in Nat /\ Len(ss) # 0 /\ \A n \in D : ss[n] \in S /\ n \in Nat
  OBVIOUS
<1>2. \A n \in D : n # 1 => n - 1 \in D /\ n - 1 < n
  BY <1>1
<1>3. [n \in D |-> ss[n]] \in [D -> S] /\ rank \in [D -> Nat]
  BY <1>1
<1>4. H \in [[D -> S] -> [D -> S]]
  <2>1. \A f \in [D -> S], n \in D : (IF n = 1 THEN ss[n] ELSE f[n - 1] \o ss[n]) \in S
    <3> SUFFICES ASSUME NEW f \in [D -> S], NEW n \in D, n # 1 PROVE f[n - 1] \o ss[n] \in S
      BY <1>1
    <3>1. f[n - 1] \in S /\ ss[n] \in S
      BY <1>1, <1>2
    <3> QED
      BY <3>1
  <2> QED
    BY <2>1
<1>5. \A f, h \in [D -> S], n \in D :
        (\A k \in D : rank[k] < rank[n] => f[k] = h[k]) => H[f][n] = H[h][n]
  <2> SUFFICES ASSUME NEW f \in [D -> S], NEW h \in [D -> S], NEW n \in D,
                      \A k \in D : rank[k] < rank[n] => f[k] = h[k]
               PROVE  H[f][n] = H[h][n]
    OBVIOUS
  <2>1. n # 1 => f[n - 1] = h[n - 1]
    BY <1>2
  <2> QED
    BY <2>1
<1>6. PICK f \in [D -> S] : f = H[f]
  <2> HIDE DEF D, S, H, rank
  <2>1. Approximates(H, D, S, rank)
    BY <1>3, <1>4, <1>5 DEF Approximates
  <2> QED
    BY <2>1, RecursionExists
<1>7. E(f)
  BY <1>6
<1>8. E(g)
  <2> HIDE DEF E
  <2> QED
    BY <1>7
<1>9. FlattenSeq(ss) = g[Len(ss)]
  BY <1>1 DEF FlattenSeq
<1> HIDE DEF g
<1>10. g = f
  <2> DEFINE T == {n \in Nat : n + 1 \in D => g[n + 1] = f[n + 1]}
  <2>1. 0 \in T
    BY <1>7, <1>8
  <2>2. \A n \in Nat : n \in T => n + 1 \in T
    <3> SUFFICES ASSUME NEW n \in Nat, n \in T, (n + 1) + 1 \in D
                 PROVE  g[(n + 1) + 1] = f[(n + 1) + 1]
      OBVIOUS
    <3>1. n + 1 \in D /\ (n + 1) + 1 # 1 /\ ((n + 1) + 1) - 1 = n + 1
      BY <1>1
    <3>2. g[n + 1] = f[n + 1]
      BY <3>1
    <3>3. g[(n + 1) + 1] = g[n + 1] \o ss[(n + 1) + 1]
          /\ f[(n + 1) + 1] = f[n + 1] \o ss[(n + 1) + 1]
      BY <1>7, <1>8, <3>1
    <3> QED
      BY <3>2, <3>3
  <2>3. \A n \in Nat : n \in T
    <3> HIDE DEF T
    <3> QED
      BY <2>1, <2>2, InductionOnNaturals
  <2>4. ASSUME NEW n \in D PROVE g[n] = f[n]
    <3>1. n - 1 \in Nat /\ (n - 1) + 1 = n
      BY <1>1
    <3>2. n - 1 \in T
      BY <2>3, <3>1
    <3> QED
      BY <3>1, <3>2
  <2>5. g = [n \in D |-> g[n]] /\ f = [n \in D |-> f[n]]
    BY <1>7, <1>8
  <2> HIDE DEF D
  <2> QED
    BY <2>4, <2>5
<1> QED
  BY <1>6, <1>7, <1>9, <1>10 DEF Joins

LEMMA FlattenType ==
  ASSUME NEW L, NEW ss \in Seq(Seq(L)) PROVE FlattenSeq(ss) \in Seq(L)
<1>1. CASE ss = <<>>
  <2>1. Len(ss) = 0 /\ <<>> \in Seq(L)
    BY <1>1
  <2> QED
    BY <1>1, <2>1 DEF FlattenSeq
<1>2. CASE ss # <<>>
  <2>1. PICK f : Joins(f, ss, L)
    BY <1>2, FlattenIs
  <2>2. Len(ss) \in 1..Len(ss)
    BY <1>2
  <2> QED
    BY <2>1, <2>2 DEF Joins
<1> QED
  BY <1>1, <1>2

LEMMA FlattenOne ==
  ASSUME NEW L, NEW a \in Seq(L) PROVE FlattenSeq(<<a>>) = a
<1>1. <<a>> \in Seq(Seq(L)) /\ <<a>> # <<>> /\ Len(<<a>>) = 1 /\ <<a>>[1] = a
  OBVIOUS
<1>2. PICK ss \in Seq(Seq(L)) : ss = <<a>> /\ ss # <<>> /\ Len(ss) = 1 /\ ss[1] = a
  BY <1>1
<1>3. PICK f : Joins(f, ss, L)
  BY <1>2, FlattenIs
<1>4. f[1] = a
  BY <1>2, <1>3 DEF Joins
<1> QED
  BY <1>2, <1>3, <1>4 DEF Joins

LEMMA FlattenTwo ==
  ASSUME NEW L, NEW a \in Seq(L), NEW b \in Seq(L) PROVE FlattenSeq(<<a, b>>) = a \o b
<1>1. <<a, b>> \in Seq(Seq(L)) /\ <<a, b>> # <<>> /\ Len(<<a, b>>) = 2
      /\ <<a, b>>[1] = a /\ <<a, b>>[2] = b
  OBVIOUS
<1>2. PICK ss \in Seq(Seq(L)) :
        ss = <<a, b>> /\ ss # <<>> /\ Len(ss) = 2 /\ ss[1] = a /\ ss[2] = b
  BY <1>1
<1>3. PICK f : Joins(f, ss, L)
  BY <1>2, FlattenIs
<1>4. 1 \in 1..Len(ss) /\ 2 \in 1..Len(ss) /\ 2 - 1 = 1 /\ 2 # 1
  BY <1>2
<1>5. f[1] = a
  BY <1>2, <1>3, <1>4 DEF Joins
<1>6. f[2] = f[1] \o b
  BY <1>2, <1>3, <1>4 DEF Joins
<1> QED
  BY <1>2, <1>3, <1>5, <1>6 DEF Joins

-----------------------------------------------------------------------------
(* The text of a tree *)

IsRank(rank) ==
  /\ rank \in [AnyTree -> Nat]
  /\ \A t \in AnyTree : t.kids \in Seq(AnyTree)
  /\ \A t \in AnyTree : \A k \in DOMAIN t.kids : rank[t.kids[k]] < rank[t]

LEMMA AnyTreeIs ==
  ASSUME TracebackAssumption
  PROVE  /\ TreeDepth \in Nat
         /\ \A d \in Nat : d <= TreeDepth => TreesTo[d] \subseteq AnyTree
<1>1. TreeDepth \in Nat
  BY DEF TracebackAssumption, TreeDepth
<1> QED
  BY <1>1, TreesGrow, AnyTreeTo

LEMMA KidsBelow ==
  ASSUME TracebackAssumption
  PROVE  \E rank : IsRank(rank)
<1> DEFINE F == TreesTo
           top == TreeDepth
           Least(t, d) == d \in Nat /\ t \in F[d] /\ \A e \in Nat : t \in F[e] => d <= e
           rank == [t \in AnyTree |-> CHOOSE d : Least(t, d)]
<1>1. top \in Nat /\ AnyTree = F[top] /\ \A d \in Nat : d <= top => F[d] \subseteq AnyTree
  BY AnyTreeIs, AnyTreeTo
<1>2. F[0] = Level({<<>>}) /\ \A d \in Nat : F[d + 1] = Level(Seq(F[d]))
  BY TreeLevels
<1> HIDE DEF F, top
<1>3. ASSUME NEW t, NEW n \in Nat, t \in F[n] PROVE \E d : Least(t, d)
  <2> DEFINE T == {e \in Nat : t \in F[e]}
  <2>1. T \subseteq Nat /\ T # {}
    BY <1>3
  <2>2. PICK d \in T : \A e \in T : d <= e
    <3> HIDE DEF T
    <3> QED
      BY <2>1, LeastOfNaturals
  <2>3. Least(t, d)
    BY <2>2
  <2> QED
    BY <2>3
<1>4. ASSUME NEW t \in AnyTree PROVE Least(t, rank[t])
  BY <1>1, <1>3
<1> HIDE DEF rank
<1>5. ASSUME NEW t \in AnyTree
      PROVE  /\ t.kids \in Seq(AnyTree)
             /\ \A k \in DOMAIN t.kids : rank[t.kids[k]] < rank[t]
  <2>1. PICK d \in Nat : d = rank[t] /\ t \in F[d] /\ d <= top
    BY <1>1, <1>4
  <2>2. CASE d = 0
    <3>0. t \in Level({<<>>})
      BY <1>2, <2>1, <2>2
    <3>1. t.kids = <<>>
      BY <3>0 DEF Level
    <3>2. t.kids \in Seq(AnyTree) /\ DOMAIN t.kids = {}
      BY <3>1
    <3> QED
      BY <3>2
  <2>3. CASE d # 0
    <3>1. PICK e \in Nat : d = e + 1
      <4>1. d - 1 \in Nat /\ d = (d - 1) + 1
        BY <2>3
      <4> QED
        BY <4>1
    <3>2. F[e] \subseteq AnyTree /\ e < d
      BY <1>1, <2>1, <3>1
    <3>0. t \in Level(Seq(F[e]))
      BY <1>2, <2>1, <3>1
    <3>3. t.kids \in Seq(F[e])
      BY <3>0 DEF Level
    <3>4. PICK w \in Seq(F[e]) : w = t.kids
      BY <3>3
    <3>5. \A k \in DOMAIN w : w[k] \in F[e]
      OBVIOUS
    <3>6. w \in Seq(AnyTree)
      BY <3>2, SeqMonotonic
    <3>7. ASSUME NEW k \in DOMAIN w PROVE rank[w[k]] < d
      <4>1. w[k] \in F[e] /\ w[k] \in AnyTree
        BY <3>2, <3>5
      <4>2. rank[w[k]] \in Nat /\ rank[w[k]] <= e
        BY <1>4, <4>1
      <4> QED
        BY <3>2, <4>2
    <3> QED
      BY <2>1, <3>4, <3>6, <3>7
  <2> QED
    BY <2>2, <2>3
<1>6. rank \in [AnyTree -> Nat]
  BY <1>4 DEF rank
<1> QED
  BY <1>5, <1>6 DEF IsRank

LEMMA AnyTreeParts ==
  ASSUME TracebackAssumption, NEW t \in AnyTree
  PROVE  /\ t.name \in Labels /\ t.frames \in Seq(Labels) /\ t.rel \in Rels
         /\ t.group \in BOOLEAN /\ t.kids \in Seq(AnyTree)
         /\ t = Node(t.name, t.frames, t.kids, t.rel, t.group)
<1>1. t \in Wood
  BY AnyTreeIs, AnyTreeTo DEF Wood
<1>2. t \in Level(Seq(Wood))
  BY <1>1, WoodIs
<1>3. t.kids \in Seq(AnyTree)
  BY KidsBelow DEF IsRank
<1> QED
  BY <1>2, <1>3 DEF Level, Node

(* Where a node says how it is related, any tree may say anything. *)
WideLine == [kind : {"open", "next", "close", "header", "frame", "error", "cause", "context"} \cup Rels,
             name : Labels]

LEMMA FrameLinesAre ==
  ASSUME TracebackAssumption, NEW t \in AnyTree
  PROVE  FrameLines(t) \in Seq(AnyLine) /\ <<Line("error", t.name)>> \in Seq(AnyLine)
<1>1. t.name \in Labels /\ t.frames \in Seq(Labels)
  BY AnyTreeParts
<1>2. PICK f \in Seq(Labels) : f = t.frames
  BY <1>1
<1>3. [k \in DOMAIN f |-> Line("frame", f[k])] \in Seq(AnyLine)
  <2>1. Len(f) \in Nat /\ DOMAIN f = 1..Len(f) /\ \A k \in 1..Len(f) : f[k] \in Labels
    OBVIOUS
  <2>2. \A k \in 1..Len(f) : Line("frame", f[k]) \in AnyLine
    BY <2>1 DEF Line, AnyLine
  <2> QED
    BY <2>1, <2>2
<1>4. Headers \in AnyLine
  BY DEF Headers, Line, AnyLine, Labels
<1>5. FrameLines(t) \in Seq(AnyLine)
  <2>1. <<Headers>> \in Seq(AnyLine) /\ <<>> \in Seq(AnyLine)
    BY <1>4
  <2>2. <<Headers>> \o [k \in DOMAIN f |-> Line("frame", f[k])] \in Seq(AnyLine)
    BY <1>3, <2>1
  <2> QED
    BY <1>2, <2>1, <2>2 DEF FrameLines
<1>6. Line("error", t.name) \in AnyLine
  BY <1>1 DEF Line, AnyLine
<1> QED
  BY <1>5, <1>6

(* The lines of a tree, with those of the trees below it in f *)
MemberLines(f, t, k) ==
  <<IF k = 1 THEN Opens ELSE Next_>> \o f[t.kids[k]]
  \o (IF k = Len(t.kids) /\ ~t.kids[k].group THEN <<Closes>> ELSE <<>>)
OwnLines(t) == FrameLines(t) \o <<Line("error", t.name)>>
LinesOf(f, t) ==
  IF t.group
  THEN FrameLines(t) \o <<Line("error", t.name)>>
       \o FlattenSeq([k \in DOMAIN t.kids |-> MemberLines(f, t, k)])
  ELSE (IF t.kids = <<>> THEN <<>> ELSE f[t.kids[1]] \o <<Line(t.kids[1].rel, "")>>)
       \o FrameLines(t) \o <<Line("error", t.name)>>

LEMMA RulesAre ==
  Opens \in AnyLine /\ Next_ \in AnyLine /\ Closes \in AnyLine
BY DEF Opens, Next_, Closes, Line, AnyLine, Labels

LEMMA LinesOfType ==
  ASSUME TracebackAssumption, NEW f \in [AnyTree -> Seq(WideLine)], NEW t \in AnyTree
  PROVE  LinesOf(f, t) \in Seq(WideLine)
<1>1. AnyLine \subseteq WideLine
  BY DEF AnyLine, WideLine
<1>2. Seq(AnyLine) \subseteq Seq(WideLine)
  BY <1>1, SeqMonotonic
<1>3. PICK a \in Seq(WideLine), b \in Seq(WideLine) :
        a = FrameLines(t) /\ b = <<Line("error", t.name)>>
  BY <1>2, FrameLinesAre
<1>4. PICK kids \in Seq(AnyTree) : kids = t.kids
  BY AnyTreeParts
<1>5. Len(kids) \in Nat /\ DOMAIN kids = 1..Len(kids) /\ \A k \in 1..Len(kids) : kids[k] \in AnyTree
  OBVIOUS
<1>6. CASE t.group
  <2>1. ASSUME NEW k \in 1..Len(kids) PROVE MemberLines(f, t, k) \in Seq(WideLine)
    <3>1. PICK m \in Seq(WideLine) : m = f[t.kids[k]]
      BY <1>4, <1>5
    <3>2. PICK o \in Seq(WideLine), c \in Seq(WideLine) :
            /\ o = <<IF k = 1 THEN Opens ELSE Next_>>
            /\ c = (IF k = Len(t.kids) /\ ~t.kids[k].group THEN <<Closes>> ELSE <<>>)
      <4>1. <<>> \in Seq(WideLine) /\ \A l \in WideLine : <<l>> \in Seq(WideLine)
        OBVIOUS
      <4> QED
        BY <1>1, <4>1, RulesAre
    <3>3. (o \o m) \o c \in Seq(WideLine)
      OBVIOUS
    <3> QED
      BY <3>1, <3>2, <3>3 DEF MemberLines
  <2>2. [k \in DOMAIN t.kids |-> MemberLines(f, t, k)] \in Seq(Seq(WideLine))
    <3>1. [k \in 1..Len(kids) |-> MemberLines(f, t, k)] \in Seq(Seq(WideLine))
      BY <1>5, <2>1
    <3> QED
      BY <1>4, <1>5, <3>1
  <2>3. PICK c \in Seq(WideLine) :
          c = FlattenSeq([k \in DOMAIN t.kids |-> MemberLines(f, t, k)])
    BY <2>2, FlattenType
  <2>4. (a \o b) \o c \in Seq(WideLine)
    OBVIOUS
  <2> QED
    BY <1>3, <1>6, <2>3, <2>4 DEF LinesOf
<1>7. CASE ~t.group
  <2>1. PICK c \in Seq(WideLine) :
          c = IF t.kids = <<>> THEN <<>> ELSE f[t.kids[1]] \o <<Line(t.kids[1].rel, "")>>
    <3>1. CASE kids = <<>>
      <4>1. <<>> \in Seq(WideLine)
        OBVIOUS
      <4> QED
        BY <1>4, <3>1, <4>1
    <3>2. CASE kids # <<>>
      <4>1. PICK k \in AnyTree : k = kids[1]
        BY <1>5, <3>2
      <4>4. k.rel \in Rels
        BY AnyTreeParts
      <4>5. Line(k.rel, "") \in WideLine
        BY <4>4 DEF Line, WideLine, Labels
      <4>2. PICK m \in Seq(WideLine), l \in WideLine : m = f[k] /\ l = Line(k.rel, "")
        BY <4>5
      <4>8. m \o <<l>> \in Seq(WideLine)
        OBVIOUS
      <4>3. f[k] \o <<Line(k.rel, "")>> \in Seq(WideLine)
        BY <4>2, <4>8
      <4>6. t.kids # <<>> /\ k = t.kids[1]
        BY <1>4, <3>2, <4>1
      <4>7. f[t.kids[1]] \o <<Line(t.kids[1].rel, "")>> \in Seq(WideLine)
        BY <4>3, <4>6
      <4> QED
        BY <4>6, <4>7, Zenon
    <3> QED
      BY <3>1, <3>2
  <2>2. (c \o a) \o b \in Seq(WideLine)
    OBVIOUS
  <2> QED
    BY <1>3, <1>7, <2>1, <2>2 DEF LinesOf
<1> QED
  BY <1>6, <1>7

LEMMA RenderIs ==
  ASSUME TracebackAssumption
  PROVE  \A t \in AnyTree : Render[t] = LinesOf(Render, t)
<1> DEFINE D == AnyTree
           S == Seq(WideLine)
           H == [f \in [D -> S] |-> [t \in D |-> LinesOf(f, t)]]
           E(f) == f = [t \in AnyTree |-> LinesOf(f, t)]
<1>1. PICK rank : IsRank(rank)
  BY KidsBelow
<1>2. [t \in D |-> <<>>] \in [D -> S]
  OBVIOUS
<1>3. H \in [[D -> S] -> [D -> S]]
  BY LinesOfType
<1>4. \A f, h \in [D -> S], t \in D :
        (\A k \in D : rank[k] < rank[t] => f[k] = h[k]) => H[f][t] = H[h][t]
  <2> SUFFICES ASSUME NEW f \in [D -> S], NEW h \in [D -> S], NEW t \in D,
                      \A k \in D : rank[k] < rank[t] => f[k] = h[k]
               PROVE  LinesOf(f, t) = LinesOf(h, t)
    OBVIOUS
  <2>1. PICK kids \in Seq(AnyTree) : kids = t.kids
    BY AnyTreeParts
  <2>2. \A k \in DOMAIN kids : f[kids[k]] = h[kids[k]]
    BY <1>1, <2>1 DEF IsRank
  <2>3. kids # <<>> => 1 \in DOMAIN kids
    OBVIOUS
  <2>4. [k \in DOMAIN t.kids |-> MemberLines(f, t, k)] = [k \in DOMAIN t.kids |-> MemberLines(h, t, k)]
    BY <2>1, <2>2 DEF MemberLines
  <2> QED
    BY <2>1, <2>2, <2>3, <2>4 DEF LinesOf
<1>5. PICK f \in [D -> S] : f = H[f]
  <2> HIDE DEF D, S, H
  <2>1. Approximates(H, D, S, rank)
    <3>1. rank \in [D -> Nat]
      BY <1>1 DEF IsRank, D
    <3> QED
      BY <1>2, <1>3, <1>4, <3>1 DEF Approximates
  <2> QED
    BY <2>1, RecursionExists
<1>6. E(f)
  BY <1>5
<1> DEFINE g == CHOOSE h : E(h)
<1>7. E(g)
  <2> HIDE DEF E
  <2> QED
    BY <1>6
<1>8. Render = g
  BY DEF Render, LinesOf, MemberLines
<1> HIDE DEF g
<1> QED
  BY <1>7, <1>8

-----------------------------------------------------------------------------
(* The trees that the debuggee raises *)

ClosesOf(f, t) ==
  \E k \in DOMAIN t.kids :
    \/ f[t.kids[k]]
    \/ t.group /\ k < Len(t.kids) /\ t.kids[k].group /\ Last(t.kids[k].kids).group

LEMMA ClosesTwoIs ==
  ASSUME TracebackAssumption
  PROVE  \A t \in AnyTree : ClosesTwo[t] <=> ClosesOf(ClosesTwo, t)
<1> DEFINE D == AnyTree
           S == BOOLEAN
           H == [f \in [D -> S] |-> [t \in D |-> ClosesOf(f, t)]]
           E(f) == f = [t \in AnyTree |-> ClosesOf(f, t)]
<1>1. PICK rank : IsRank(rank)
  BY KidsBelow
<1>2. [t \in D |-> TRUE] \in [D -> S]
  OBVIOUS
<1>3. H \in [[D -> S] -> [D -> S]]
  <2>1. \A f \in [D -> S], t \in D : ClosesOf(f, t) \in S
    BY DEF ClosesOf
  <2> QED
    BY <2>1
<1>4. \A f, h \in [D -> S], t \in D :
        (\A k \in D : rank[k] < rank[t] => f[k] = h[k]) => H[f][t] = H[h][t]
  <2> SUFFICES ASSUME NEW f \in [D -> S], NEW h \in [D -> S], NEW t \in D,
                      \A k \in D : rank[k] < rank[t] => f[k] = h[k]
               PROVE  ClosesOf(f, t) = ClosesOf(h, t)
    OBVIOUS
  <2>1. PICK kids \in Seq(AnyTree) : kids = t.kids
    BY AnyTreeParts
  <2>2. \A k \in DOMAIN kids : f[kids[k]] = h[kids[k]]
    BY <1>1, <2>1 DEF IsRank
  <2>3. ClosesOf(f, t) <=> ClosesOf(h, t)
    BY <2>1, <2>2 DEF ClosesOf
  <2> QED
    BY <2>3 DEF ClosesOf
<1>5. PICK f \in [D -> S] : f = H[f]
  <2> HIDE DEF D, S, H
  <2>1. Approximates(H, D, S, rank)
    <3>1. rank \in [D -> Nat]
      BY <1>1 DEF IsRank, D
    <3> QED
      BY <1>2, <1>3, <1>4, <3>1 DEF Approximates
  <2> QED
    BY <2>1, RecursionExists
<1>6. E(f)
  BY <1>5
<1> DEFINE g == CHOOSE h : E(h)
<1>7. E(g)
  <2> HIDE DEF E
  <2> QED
    BY <1>6
<1>8. ClosesTwo = g
  BY DEF ClosesTwo, ClosesOf
<1> HIDE DEF g
<1>9. \A t \in AnyTree : g[t] = ClosesOf(g, t)
  BY <1>7
<1> QED
  BY <1>8, <1>9 DEF ClosesOf

(* Leaves, and groups of one or two members *)
AllLeaves == {Leaf(l) : l \in Leaves}
Members(A) == {As(t, "member") : t \in A}
GroupFrames == {<<>>, <<"group">>}
GroupKids(A) == {<<x>> : x \in Members(A)} \cup (Members(A) \X Members(A))
IsGroupOf(t, A) ==
  \E f \in GroupFrames, k \in GroupKids(A) : t = Node("group", f, k, "root", TRUE)
GroupsOf(A, B, b) ==
  {Node("group", IF b THEN <<"group">> ELSE <<>>, k, "root", TRUE) :
     k \in {<<t>> : t \in Members(A)} \cup (Members(A) \X Members(B)) \cup (Members(B) \X Members(A))}
NestedOf(f, d, b) ==
  IF d = 0 THEN AllLeaves
  ELSE f[0] \cup GroupsOf(f[d - 1], f[IF d = 1 THEN 0 ELSE 1], b)

LEMMA MembersAre == ASSUME NEW A \in SUBSET Wood PROVE Members(A) \in SUBSET Wood
<1> SUFFICES ASSUME NEW t \in A PROVE As(t, "member") \in Wood
  BY DEF Members
<1>1. t \in Level(Seq(Wood))
  BY WoodIs
<1>2. [t EXCEPT !.rel = "member"] \in Level(Seq(Wood))
  BY <1>1 DEF Level, Rels
<1> QED
  BY <1>2, WoodIs DEF As

LEMMA GroupsOfAre ==
  ASSUME NEW A \in SUBSET Wood, NEW B \in SUBSET Wood, NEW b
  PROVE  GroupsOf(A, B, b) \in SUBSET Wood /\ \A t \in GroupsOf(A, B, b) : IsGroupOf(t, A \cup B)
<1> DEFINE all == {<<t>> : t \in Members(A)} \cup (Members(A) \X Members(B)) \cup (Members(B) \X Members(A))
<1>1. Members(A) \subseteq Wood /\ Members(B) \subseteq Wood
  BY MembersAre
<1>2. Members(A) \subseteq Members(A \cup B) /\ Members(B) \subseteq Members(A \cup B)
  BY DEF Members
<1>3. PICK f \in GroupFrames : f = IF b THEN <<"group">> ELSE <<>>
  BY DEF GroupFrames
<1>4. f \in Seq(Labels)
  <2>1. "group" \in Labels
    BY DEF Labels
  <2>2. <<>> \in Seq(Labels) /\ <<"group">> \in Seq(Labels)
    BY <2>1
  <2> QED
    BY <2>2 DEF GroupFrames
<1>5. ASSUME NEW k \in all
      PROVE  k \in Seq(Wood) /\ k \in GroupKids(A \cup B)
  <2>1. \A x, y \in Wood : <<x>> \in Seq(Wood) /\ <<x, y>> \in Seq(Wood)
    OBVIOUS
  <2>2. \/ \E x \in Members(A) : k = <<x>>
        \/ \E x \in Members(A), y \in Members(B) : k = <<x, y>> \/ k = <<y, x>>
    OBVIOUS
  <2>3. CASE \E x \in Members(A) : k = <<x>>
    BY <1>1, <1>2, <2>1, <2>3 DEF GroupKids
  <2>4. CASE \E x \in Members(A), y \in Members(B) : k = <<x, y>> \/ k = <<y, x>>
    BY <1>1, <1>2, <2>1, <2>4 DEF GroupKids
  <2> QED
    BY <2>2, <2>3, <2>4
<1>6. ASSUME NEW k \in all PROVE Node("group", f, k, "root", TRUE) \in Wood
  <2>1. k \in Seq(Wood) /\ "group" \in Labels
    BY <1>5 DEF Labels
  <2>2. Node("group", f, k, "root", TRUE) \in Level(Seq(Wood))
    BY <1>4, <2>1 DEF Node, Level, Rels
  <2> QED
    BY <2>2, WoodIs
<1>7. GroupsOf(A, B, b) = {Node("group", f, k, "root", TRUE) : k \in all}
  BY <1>3 DEF GroupsOf
<1> HIDE DEF all
<1>8. ASSUME NEW t \in GroupsOf(A, B, b) PROVE t \in Wood /\ IsGroupOf(t, A \cup B)
  <2>1. PICK k \in all : t = Node("group", f, k, "root", TRUE)
    BY <1>7
  <2>2. k \in GroupKids(A \cup B)
    BY <1>5
  <2> QED
    BY <1>6, <2>1, <2>2 DEF IsGroupOf
<1> QED
  BY <1>8

LEMMA AllLeavesAre ==
  AllLeaves \in SUBSET Wood
<1> SUFFICES ASSUME NEW l \in Leaves PROVE Leaf(l) \in Level(Seq(Wood))
  BY WoodIs DEF AllLeaves
<1>1. l \in Labels
  BY DEF Labels
<1>2. <<>> \in Seq(Wood) /\ <<>> \in Seq(Labels) /\ <<l>> \in Seq(Labels)
  BY <1>1
<1> QED
  BY <1>1, <1>2 DEF Leaf, Frames, Node, Level, Rels

LEMMA NestedEquations ==
  /\ Nested \in [Nat -> SUBSET Wood]
  /\ Nested[0] = AllLeaves
  /\ \E b : \A d \in Nat :
       Nested[d + 1] = AllLeaves \cup GroupsOf(Nested[d], Nested[IF d = 0 THEN 0 ELSE 1], b)
<1>0. PICK b : b = inner
  OBVIOUS
<1> DEFINE D == Nat
           S == SUBSET Wood
           H == [f \in [D -> S] |-> [d \in D |-> NestedOf(f, d, b)]]
           rank == [d \in D |-> d]
           E(f) == f = [d \in Nat |-> NestedOf(f, d, b)]
<1>1. [d \in D |-> {}] \in [D -> S] /\ rank \in [D -> Nat]
  OBVIOUS
<1>2. H \in [[D -> S] -> [D -> S]]
  <2>1. ASSUME NEW f \in [D -> S], NEW d \in D PROVE NestedOf(f, d, b) \in S
    <3>1. CASE d = 0
      BY <3>1, AllLeavesAre DEF NestedOf
    <3>2. CASE d # 0
      <4>1. d - 1 \in Nat /\ (IF d = 1 THEN 0 ELSE 1) \in Nat
        BY <3>2
      <4>2. PICK A \in SUBSET Wood, B \in SUBSET Wood : A = f[d - 1] /\ B = f[IF d = 1 THEN 0 ELSE 1]
        BY <4>1
      <4>3. GroupsOf(A, B, b) \in SUBSET Wood
        BY GroupsOfAre
      <4> QED
        BY <3>2, <4>2, <4>3 DEF NestedOf
    <3> QED
      BY <3>1, <3>2
  <2> QED
    BY <2>1
<1>3. \A f, h \in [D -> S], d \in D :
        (\A k \in D : rank[k] < rank[d] => f[k] = h[k]) => H[f][d] = H[h][d]
  <2> SUFFICES ASSUME NEW f \in [D -> S], NEW h \in [D -> S], NEW d \in D,
                      \A k \in D : rank[k] < rank[d] => f[k] = h[k]
               PROVE  NestedOf(f, d, b) = NestedOf(h, d, b)
    OBVIOUS
  <2>1. CASE d = 0
    BY <2>1 DEF NestedOf
  <2>2. CASE d # 0
    <3>1. 0 \in D /\ 0 < d /\ d - 1 \in D /\ d - 1 < d
          /\ (IF d = 1 THEN 0 ELSE 1) \in D /\ (IF d = 1 THEN 0 ELSE 1) < d
      BY <2>2
    <3>2. f[0] = h[0] /\ f[d - 1] = h[d - 1] /\ f[IF d = 1 THEN 0 ELSE 1] = h[IF d = 1 THEN 0 ELSE 1]
      BY <3>1
    <3> QED
      BY <3>2 DEF NestedOf
  <2> QED
    BY <2>1, <2>2
<1>4. PICK f \in [D -> S] : f = H[f]
  <2> HIDE DEF D, S, H, rank
  <2>1. Approximates(H, D, S, rank)
    BY <1>1, <1>2, <1>3 DEF Approximates
  <2> QED
    BY <2>1, RecursionExists
<1>5. E(f)
  BY <1>4
<1> DEFINE g == CHOOSE h : E(h)
<1>6. E(g)
  <2> HIDE DEF E
  <2> QED
    BY <1>5
<1>7. Nested = g
  BY <1>0 DEF Nested, NestedOf, AllLeaves, GroupsOf, Members
<1> HIDE DEF g
<1>8. g \in [Nat -> SUBSET Wood] /\ g[0] = AllLeaves
  <2>1. g = f
    <3> DEFINE T == {n \in Nat : \A k \in 0..n : g[k] = f[k]}
    <3>1. 0 \in T
      BY <1>5, <1>6 DEF NestedOf
    <3>2. \A n \in Nat : n \in T => n + 1 \in T
      <4> SUFFICES ASSUME NEW n \in Nat, n \in T, NEW k \in 0..(n + 1) PROVE g[k] = f[k]
        OBVIOUS
      <4>1. CASE k \in 0..n
        BY <4>1
      <4>2. CASE k = n + 1
        <5>1. 0 \in 0..n /\ k - 1 \in 0..n /\ (IF k = 1 THEN 0 ELSE 1) \in 0..n /\ k # 0 /\ k \in Nat
          BY <4>2
        <5>2. g[0] = f[0] /\ g[k - 1] = f[k - 1]
              /\ g[IF k = 1 THEN 0 ELSE 1] = f[IF k = 1 THEN 0 ELSE 1]
          BY <5>1
        <5>3. g[k] = NestedOf(g, k, b) /\ f[k] = NestedOf(f, k, b)
          BY <1>5, <1>6, <5>1
        <5> QED
          BY <5>2, <5>3 DEF NestedOf
      <4> QED
        BY <4>1, <4>2
    <3>3. \A n \in Nat : n \in T
      <4> HIDE DEF T
      <4> QED
        BY <3>1, <3>2, InductionOnNaturals
    <3>4. ASSUME NEW n \in Nat PROVE g[n] = f[n]
      <4>1. n \in 0..n
        OBVIOUS
      <4> QED
        BY <3>3, <4>1
    <3>5. g = [n \in Nat |-> g[n]] /\ f = [n \in Nat |-> f[n]]
      BY <1>5, <1>6
    <3> QED
      BY <3>4, <3>5
  <2>2. g[0] = NestedOf(g, 0, b)
    BY <1>6
  <2> QED
    BY <2>1, <2>2 DEF NestedOf
<1>9. ASSUME NEW d \in Nat
      PROVE  g[d + 1] = AllLeaves \cup GroupsOf(g[d], g[IF d = 0 THEN 0 ELSE 1], b)
  <2>1. (d + 1) - 1 = d /\ d + 1 # 0 /\ d + 1 \in Nat /\ (d + 1 = 1 <=> d = 0)
    OBVIOUS
  <2>2. g[d + 1] = NestedOf(g, d + 1, b)
    BY <1>6, <2>1
  <2> QED
    BY <1>8, <2>1, <2>2 DEF NestedOf
<1> QED
  BY <1>7, <1>8, <1>9

LEMMA NestedIs ==
  /\ Nested \in [Nat -> SUBSET Wood]
  /\ Nested[0] = AllLeaves
  /\ \A d \in Nat : \E n \in 0..d :
       \A t \in Nested[d + 1] :
         t \in AllLeaves \/ IsGroupOf(t, Nested[d] \cup Nested[n])
<1> DEFINE g == Nested
<1>1. g \in [Nat -> SUBSET Wood] /\ g[0] = AllLeaves
  BY NestedEquations
<1>2. PICK b : \A d \in Nat :
                 g[d + 1] = AllLeaves \cup GroupsOf(g[d], g[IF d = 0 THEN 0 ELSE 1], b)
  BY NestedEquations
<1> HIDE DEF g
<1>3. ASSUME NEW d \in Nat
      PROVE  \E n \in 0..d : \A t \in g[d + 1] : t \in AllLeaves \/ IsGroupOf(t, g[d] \cup g[n])
  <2>1. PICK n \in 0..d : n = IF d = 0 THEN 0 ELSE 1
    OBVIOUS
  <2>2. g[d + 1] = AllLeaves \cup GroupsOf(g[d], g[n], b)
    BY <1>2, <2>1
  <2>3. n \in Nat
    OBVIOUS
  <2>4. \A t \in GroupsOf(g[d], g[n], b) : IsGroupOf(t, g[d] \cup g[n])
    BY <1>1, <2>3, GroupsOfAre
  <2> QED
    BY <2>2, <2>4
<1> QED
  BY <1>1, <1>3 DEF g

LEMMA AsIs ==
  ASSUME NEW d \in Nat, NEW t \in TreesTo[d], NEW r \in Rels
  PROVE  As(t, r) \in TreesTo[d]
<1>1. PICK lists : TreesTo[d] = Level(lists)
  BY TreesExist
<1>2. t \in Level(lists)
  BY <1>1
<1>3. [t EXCEPT !.rel = r] \in Level(lists)
  BY <1>2 DEF Level
<1> QED
  BY <1>1, <1>3 DEF As

LEMMA LeavesDepth ==
  AllLeaves \subseteq TreesTo[0]
<1> SUFFICES ASSUME NEW l \in Leaves PROVE Leaf(l) \in Level({<<>>})
  BY TreeLevels DEF AllLeaves
<1>1. l \in Labels
  BY DEF Labels
<1>2. <<>> \in Seq(Labels) /\ <<l>> \in Seq(Labels)
  BY <1>1
<1> QED
  BY <1>1, <1>2 DEF Leaf, Frames, Node, Level, Rels

LEMMA NestedDepth == \A d \in Nat : Nested[d] \subseteq TreesTo[d]
<1> DEFINE N == Nested
           F == TreesTo
           T == {d \in Nat : \A e \in 0..d : N[e] \subseteq F[e]}
<1>1. N[0] = AllLeaves
      /\ \A d \in Nat : \E n \in 0..d :
           \A t \in N[d + 1] : t \in AllLeaves \/ IsGroupOf(t, N[d] \cup N[n])
  BY NestedIs
<1>2. /\ \A d \in Nat : F[d + 1] = Level(Seq(F[d]))
      /\ \A d, e \in Nat : d <= e => F[d] \subseteq F[e]
      /\ AllLeaves \subseteq F[0]
      /\ \A d \in Nat : \A t \in F[d] : As(t, "member") \in F[d]
  BY TreeLevels, TreesGrow, LeavesDepth, AsIs DEF Rels
<1> HIDE DEF N, F
<1>3. 0 \in T
  BY <1>1, <1>2
<1>4. \A d \in Nat : d \in T => d + 1 \in T
  <2> SUFFICES ASSUME NEW d \in Nat, d \in T, NEW t \in N[d + 1] PROVE t \in F[d + 1]
    OBVIOUS
  <2>1. PICK n \in 0..d : t \in AllLeaves \/ IsGroupOf(t, N[d] \cup N[n])
    BY <1>1
  <2>2. N[d] \subseteq F[d] /\ N[n] \subseteq F[d]
    <3>1. d \in 0..d /\ n \in Nat /\ n <= d
      OBVIOUS
    <3> QED
      BY <1>2, <3>1
  <2>3. CASE t \in AllLeaves
    BY <1>2, <2>3
  <2>4. CASE IsGroupOf(t, N[d] \cup N[n])
    <3>1. PICK f \in GroupFrames, k \in GroupKids(N[d] \cup N[n]) :
            t = Node("group", f, k, "root", TRUE)
      BY <2>4 DEF IsGroupOf
    <3>2. Members(N[d] \cup N[n]) \subseteq F[d]
      BY <1>2, <2>2 DEF Members
    <3>3. k \in Seq(F[d])
      <4>0. PICK A : A = F[d]
        OBVIOUS
      <4>1. \A x, y \in A : <<x>> \in Seq(A) /\ <<x, y>> \in Seq(A)
        OBVIOUS
      <4>4. PICK B : B = Members(N[d] \cup N[n]) /\ B \subseteq A
        BY <3>2, <4>0
      <4>5. k \in {<<x>> : x \in B} \cup (B \X B)
        BY <4>4 DEF GroupKids
      <4>6. \/ \E x \in B : k = <<x>>
            \/ \E x \in B, y \in B : k = <<x, y>>
        BY <4>5
      <4>2. \/ \E x \in A : k = <<x>>
            \/ \E x \in A, y \in A : k = <<x, y>>
        BY <4>4, <4>6
      <4>3. k \in Seq(A)
        BY <4>1, <4>2
      <4> QED
        BY <4>0, <4>3
    <3>4. f \in Seq(Labels) /\ "group" \in Labels
      <4>1. "group" \in Labels
        BY DEF Labels
      <4>2. <<>> \in Seq(Labels) /\ <<"group">> \in Seq(Labels)
        BY <4>1
      <4> QED
        BY <4>1, <4>2 DEF GroupFrames
    <3>5. t \in Level(Seq(F[d]))
      BY <3>1, <3>3, <3>4 DEF Node, Level, Rels
    <3> QED
      BY <1>2, <3>5
  <2> QED
    BY <2>1, <2>3, <2>4
<1>5. \A d \in Nat : d \in T
  <2> HIDE DEF T
  <2> QED
    BY <1>3, <1>4, InductionOnNaturals
<1>6. ASSUME NEW d \in Nat PROVE N[d] \subseteq F[d]
  <2>1. d \in 0..d
    OBVIOUS
  <2> QED
    BY <1>5, <2>1
<1> QED
  BY <1>6 DEF N, F

(* Exceptions that led to one another *)
IsChainOf(c, A) ==
  \E l \in AllLeaves, t \in A, r \in {"cause", "context"} :
    c = [l EXCEPT !.kids = <<As(t, r)>>]
ChainsOf(f, n) ==
  IF n = 1 THEN AllLeaves
  ELSE {[l EXCEPT !.kids = <<As(t, r)>>] :
          l \in AllLeaves, t \in f[n - 1], r \in {"cause", "context"}}

LEMMA ChainsIs ==
  ASSUME TracebackAssumption
  PROVE  /\ Chains[1] = AllLeaves
         /\ \A n \in Nat \ {0} : n + 1 <= MaxChain =>
              \A c \in Chains[n + 1] : IsChainOf(c, Chains[n])
<1> DEFINE D == 1..MaxChain
           S == SUBSET Wood
           H == [f \in [D -> S] |-> [n \in D |-> ChainsOf(f, n)]]
           rank == [n \in D |-> n]
           E(f) == f = [n \in 1..MaxChain |-> ChainsOf(f, n)]
<1>0. MaxChain \in Nat \ {0} /\ 1 \in D /\ Nested[0] = AllLeaves
  BY NestedIs DEF TracebackAssumption
<1>1. [n \in D |-> {}] \in [D -> S] /\ rank \in [D -> Nat]
  BY <1>0
<1>2. H \in [[D -> S] -> [D -> S]]
  <2>1. ASSUME NEW f \in [D -> S], NEW n \in D PROVE ChainsOf(f, n) \in S
    <3>1. CASE n = 1
      BY <3>1, AllLeavesAre DEF ChainsOf
    <3>2. CASE n # 1
      <4>1. n - 1 \in D
        BY <1>0, <3>2
      <4>2. PICK A \in SUBSET Wood : A = f[n - 1]
        BY <4>1
      <4>3. ASSUME NEW c \in ChainsOf(f, n) PROVE c \in Wood
        <5>1. c \in {[l EXCEPT !.kids = <<As(t, r)>>] :
                       l \in AllLeaves, t \in A, r \in {"cause", "context"}}
          BY <3>2, <4>2, <4>3 DEF ChainsOf
        <5>2. PICK l \in AllLeaves, t \in A, r \in {"cause", "context"} :
                c = [l EXCEPT !.kids = <<As(t, r)>>]
          BY <5>1
        <5>3. l \in Level(Seq(Wood)) /\ t \in Level(Seq(Wood))
          BY AllLeavesAre, WoodIs
        <5>4. [t EXCEPT !.rel = r] \in Level(Seq(Wood))
          BY <5>3 DEF Level, Rels
        <5>5. As(t, r) \in Wood
          BY <5>4, WoodIs DEF As
        <5>6. <<As(t, r)>> \in Seq(Wood)
          BY <5>5
        <5>7. c \in Level(Seq(Wood))
          BY <5>2, <5>3, <5>6 DEF Level
        <5> QED
          BY <5>7, WoodIs
      <4> QED
        BY <4>3
    <3> QED
      BY <3>1, <3>2
  <2> QED
    BY <2>1
<1>3. \A f, h \in [D -> S], n \in D :
        (\A k \in D : rank[k] < rank[n] => f[k] = h[k]) => H[f][n] = H[h][n]
  <2> SUFFICES ASSUME NEW f \in [D -> S], NEW h \in [D -> S], NEW n \in D,
                      \A k \in D : rank[k] < rank[n] => f[k] = h[k]
               PROVE  ChainsOf(f, n) = ChainsOf(h, n)
    OBVIOUS
  <2>1. CASE n = 1
    BY <2>1 DEF ChainsOf
  <2>2. CASE n # 1
    <3>1. n - 1 \in D /\ n - 1 < n
      BY <1>0, <2>2
    <3>2. f[n - 1] = h[n - 1]
      BY <3>1
    <3> QED
      BY <3>2 DEF ChainsOf
  <2> QED
    BY <2>1, <2>2
<1>4. PICK f \in [D -> S] : f = H[f]
  <2> HIDE DEF D, S, H, rank
  <2>1. Approximates(H, D, S, rank)
    BY <1>1, <1>2, <1>3 DEF Approximates
  <2> QED
    BY <2>1, RecursionExists
<1>5. E(f)
  BY <1>4
<1> DEFINE g == CHOOSE h : E(h)
<1>6. E(g)
  <2> HIDE DEF E
  <2> QED
    BY <1>5
<1>7. Chains = g
  BY <1>0 DEF Chains, ChainsOf
<1> HIDE DEF g
<1>8. g[1] = AllLeaves
  BY <1>0, <1>6 DEF ChainsOf
<1>9. ASSUME NEW n \in Nat \ {0}, n + 1 <= MaxChain, NEW c \in g[n + 1] PROVE IsChainOf(c, g[n])
  <2>1. n + 1 \in D /\ n + 1 # 1 /\ (n + 1) - 1 = n
    BY <1>0, <1>9
  <2>2. g[n + 1] = ChainsOf(g, n + 1)
    BY <1>6, <2>1
  <2>3. c \in {[l EXCEPT !.kids = <<As(t, r)>>] :
                 l \in AllLeaves, t \in g[n], r \in {"cause", "context"}}
    BY <1>9, <2>1, <2>2 DEF ChainsOf
  <2> QED
    BY <2>3 DEF IsChainOf
<1> QED
  BY <1>7, <1>8, <1>9

-----------------------------------------------------------------------------
(* The lines of one exception *)

NameLine(t) == Line("error", t.name)
FewFrames(t) == \E l \in Labels : t.frames = <<>> \/ t.frames = <<l>>

LEMMA FoldThree ==
  ASSUME NEW S, NEW L, NEW G, IsStep(G, S, L), NEW e \in S,
         NEW a \in L, NEW b \in L, NEW c \in L
  PROVE  Fold(G, e, (<<a>> \o <<b>>) \o <<c>>) = G[<<G[<<G[<<e, a>>], b>>], c>>]
<1>1. <<a>> \in Seq(L) /\ <<b>> \in Seq(L) /\ <<c>> \in Seq(L) /\ <<a>> \o <<b>> \in Seq(L)
  OBVIOUS
<1>2. PICK u \in Seq(L), v \in Seq(L), w \in Seq(L), uv \in Seq(L) :
        u = <<a>> /\ v = <<b>> /\ w = <<c>> /\ uv = u \o v
  BY <1>1
<1>3. Fold(G, e, uv \o w) = Fold(G, Fold(G, e, uv), w)
  BY FoldConcat
<1>4. Fold(G, e, u \o v) = Fold(G, Fold(G, e, u), v)
  BY FoldConcat
<1>5. Fold(G, e, <<a>>) = G[<<e, a>>]
  BY FoldOne
<1>6. PICK x \in S : x = G[<<e, a>>]
  BY DEF IsStep
<1>7. Fold(G, x, <<b>>) = G[<<x, b>>]
  BY FoldOne
<1>8. PICK y \in S : y = G[<<x, b>>]
  BY DEF IsStep
<1>9. Fold(G, y, <<c>>) = G[<<y, c>>]
  BY FoldOne
<1> QED
  BY <1>2, <1>3, <1>4, <1>5, <1>6, <1>7, <1>8, <1>9

LEMMA OwnIs ==
  ASSUME TracebackAssumption, NEW t \in AnyTree
  PROVE  /\ NameLine(t) \in AnyLine /\ NameLine(t).kind = "error" /\ NameLine(t).name = t.name
         /\ t.frames = <<>> => OwnLines(t) = <<NameLine(t)>>
         /\ \A l \in Labels : t.frames = <<l>> =>
              /\ Headers \in AnyLine /\ Headers.kind = "header"
              /\ Line("frame", l) \in AnyLine /\ Line("frame", l).kind = "frame"
              /\ Line("frame", l).name = l
              /\ OwnLines(t) = (<<Headers>> \o <<Line("frame", l)>>) \o <<NameLine(t)>>
<1>1. t.name \in Labels
  BY AnyTreeParts
<1>2. NameLine(t) \in AnyLine /\ NameLine(t).kind = "error" /\ NameLine(t).name = t.name
  BY <1>1 DEF NameLine, Line, AnyLine
<1>3. ASSUME t.frames = <<>> PROVE OwnLines(t) = <<NameLine(t)>>
  BY <1>3 DEF OwnLines, FrameLines, NameLine
<1>4. ASSUME NEW l \in Labels, t.frames = <<l>>
      PROVE  /\ Headers \in AnyLine /\ Headers.kind = "header"
             /\ Line("frame", l) \in AnyLine /\ Line("frame", l).kind = "frame"
             /\ Line("frame", l).name = l
             /\ OwnLines(t) = (<<Headers>> \o <<Line("frame", l)>>) \o <<NameLine(t)>>
  <2>1. "" \in Labels
    BY DEF Labels
  <2>2. /\ Headers \in AnyLine /\ Headers.kind = "header"
        /\ Line("frame", l) \in AnyLine /\ Line("frame", l).kind = "frame"
        /\ Line("frame", l).name = l
    BY <2>1 DEF Headers, Line, AnyLine
  <2>3. t.frames # <<>>
    BY <1>4
  <2>4. [k \in DOMAIN t.frames |-> Line("frame", t.frames[k])] = <<Line("frame", l)>>
    BY <1>4
  <2>5. FrameLines(t) = <<Headers>> \o <<Line("frame", l)>>
    BY <2>3, <2>4 DEF FrameLines
  <2> QED
    BY <2>2, <2>5 DEF OwnLines, NameLine
<1> QED
  BY <1>2, <1>3, <1>4

LEMMA OwnLinesAre ==
  ASSUME TracebackAssumption, NEW t \in AnyTree
  PROVE  OwnLines(t) \in Lines /\ OwnLines(t) \in Seq(AnyLine) /\ OwnLines(t) # <<>>
<1>1. PICK u \in Seq(AnyLine), v \in Seq(AnyLine) :
        u = FrameLines(t) /\ v = <<Line("error", t.name)>> /\ v # <<>>
  BY FrameLinesAre
<1>2. u \o v \in Seq(AnyLine) /\ u \o v # <<>>
  BY <1>1
<1> QED
  BY <1>1, <1>2, LinesAre DEF OwnLines

(* What _parse_simple reads off them *)
LEMMA OwnRead ==
  ASSUME TracebackAssumption, NEW t \in AnyTree, FewFrames(t)
  PROVE  /\ Read(OwnLines(t)) = [frames |-> t.frames, name |-> t.name]
         /\ ParseSimple(OwnLines(t)) = Node(t.name, t.frames, <<>>, "root", FALSE)
<1>1. Read(OwnLines(t)) = Fold(ReadStep, ReadStart, OwnLines(t))
  BY OwnLinesAre, ReadFolds
<1>2. ReadStart \in ReadState /\ IsStep(ReadStep, ReadState, AnyLine)
      /\ \A s \in ReadState, l \in AnyLine : ReadStep[<<s, l>>] = ReadLine(s, l)
  BY ReadStepIs
<1>3. PICK e \in AnyLine : e = NameLine(t) /\ e.kind = "error" /\ e.name = t.name
  BY OwnIs
<1>0. t.name \in Labels
  BY AnyTreeParts
<1>4. ASSUME NEW s \in ReadState
      PROVE  ReadStep[<<s, e>>] = [frames |-> s.frames, name |-> t.name]
  <2>1. ReadStep[<<s, e>>] = ReadLine(s, e)
    BY <1>2
  <2>2. ReadLine(s, e) = [s EXCEPT !.name = t.name]
    BY <1>3 DEF ReadLine
  <2>3. [s EXCEPT !.name = t.name] = [frames |-> s.frames, name |-> t.name]
    BY DEF ReadState
  <2> QED
    BY <2>1, <2>2, <2>3
<1>5. CASE t.frames = <<>>
  <2>1. OwnLines(t) = <<e>>
    BY <1>3, <1>5, OwnIs
  <2>2. Fold(ReadStep, ReadStart, <<e>>) = ReadStep[<<ReadStart, e>>]
    BY <1>2, FoldOne
  <2>3. ReadStep[<<ReadStart, e>>] = [frames |-> <<>>, name |-> t.name]
    BY <1>2, <1>4 DEF ReadStart
  <2>4. Read(OwnLines(t)) = [frames |-> t.frames, name |-> t.name]
    BY <1>1, <1>5, <2>1, <2>2, <2>3
  <2> QED
    BY <2>4 DEF ParseSimple
<1>6. ASSUME NEW l \in Labels, t.frames = <<l>>
      PROVE  Read(OwnLines(t)) = [frames |-> t.frames, name |-> t.name]
  <2>1. PICK a \in AnyLine, b \in AnyLine :
          /\ a = Headers /\ a.kind = "header"
          /\ b = Line("frame", l) /\ b.kind = "frame" /\ b.name = l
    BY <1>6, OwnIs
  <2>2. OwnLines(t) = (<<a>> \o <<b>>) \o <<e>>
    BY <1>3, <1>6, <2>1, OwnIs
  <2>3. Fold(ReadStep, ReadStart, (<<a>> \o <<b>>) \o <<e>>)
          = ReadStep[<<ReadStep[<<ReadStep[<<ReadStart, a>>], b>>], e>>]
    BY <1>2, FoldThree
  <2>4. ReadStep[<<ReadStart, a>>] = ReadStart
    BY <1>2, <2>1 DEF ReadLine
  <2>5. ReadStep[<<ReadStart, b>>] = [frames |-> <<l>>, name |-> "Exception"]
    <3>0. ReadStep[<<ReadStart, b>>] = ReadLine(ReadStart, b)
      BY <1>2
    <3>1. ReadLine(ReadStart, b) = [ReadStart EXCEPT !.frames = Append(ReadStart.frames, l)]
      BY <2>1 DEF ReadLine
    <3>2. Append(<<>>, l) = <<l>>
      OBVIOUS
    <3> QED
      BY <3>0, <3>1, <3>2 DEF ReadStart
  <2>6. [frames |-> <<l>>, name |-> "Exception"] \in ReadState
    <3>0. "Exception" \in Labels
      BY DEF Labels
    <3>1. <<l>> \in Seq(Labels) /\ "Exception" \in Labels
      BY <3>0
    <3> QED
      BY <3>1 DEF ReadState
  <2>7. ReadStep[<<[frames |-> <<l>>, name |-> "Exception"], e>>] = [frames |-> <<l>>, name |-> t.name]
    BY <1>4, <2>6
  <2> QED
    BY <1>1, <1>6, <2>2, <2>3, <2>4, <2>5, <2>7
<1>7. Read(OwnLines(t)) = [frames |-> t.frames, name |-> t.name]
  BY <1>5, <1>6 DEF FewFrames
<1> QED
  BY <1>7 DEF ParseSimple

LEMMA ThreeOf ==
  ASSUME NEW a, NEW b, NEW c PROVE (<<a>> \o <<b>>) \o <<c>> = <<a, b, c>>
<1>1. PICK u \in Seq({a, b, c}) : u = <<a>> \o <<b>> /\ Len(u) = 2 /\ u[1] = a /\ u[2] = b
  <2>1. <<a>> \in Seq({a, b, c}) /\ <<b>> \in Seq({a, b, c})
    OBVIOUS
  <2>2. <<a>> \o <<b>> \in Seq({a, b, c}) /\ Len(<<a>> \o <<b>>) = 2
        /\ (<<a>> \o <<b>>)[1] = a /\ (<<a>> \o <<b>>)[2] = b
    BY <2>1
  <2> QED
    BY <2>2
<1>2. PICK w \in Seq({a, b, c}) : w = u \o <<c>> /\ Len(w) = 3 /\ w[1] = a /\ w[2] = b /\ w[3] = c
  <2>1. <<c>> \in Seq({a, b, c})
    OBVIOUS
  <2>2. u \o <<c>> \in Seq({a, b, c}) /\ Len(u \o <<c>>) = 3
        /\ (u \o <<c>>)[1] = a /\ (u \o <<c>>)[2] = b /\ (u \o <<c>>)[3] = c
    BY <1>1, <2>1
  <2> QED
    BY <2>2
<1>3. w = <<a, b, c>>
  <2>1. PICK v \in Seq({a, b, c}) : v = <<a, b, c>>
    <3>1. <<a, b, c>> \in Seq({a, b, c})
      OBVIOUS
    <3> QED
      BY <3>1
  <2>2. Len(v) = 3 /\ v[1] = a /\ v[2] = b /\ v[3] = c
    BY <2>1
  <2>3. \A n \in 1..3 : n = 1 \/ n = 2 \/ n = 3
    OBVIOUS
  <2>4. \A n \in 1..3 : w[n] = v[n]
    BY <1>2, <2>2, <2>3
  <2>5. w = v
    BY <1>2, <2>2, <2>4, SeqEqual
  <2> QED
    BY <2>1, <2>5
<1> QED
  BY <1>1, <1>2, <1>3

(* No rule between them, and no marker *)
LEMMA OwnPlain ==
  ASSUME TracebackAssumption, NEW t \in AnyTree, FewFrames(t)
  PROVE  \A n \in DOMAIN OwnLines(t) : OwnLines(t)[n].kind \in {"header", "frame", "error"}
<1>1. CASE t.frames = <<>>
  <2>1. OwnLines(t) = <<NameLine(t)>> /\ NameLine(t).kind = "error"
    BY <1>1, OwnIs
  <2> QED
    BY <2>1
<1>2. ASSUME NEW l \in Labels, t.frames = <<l>>
      PROVE  \A n \in DOMAIN OwnLines(t) : OwnLines(t)[n].kind \in {"header", "frame", "error"}
  <2>1. PICK a \in AnyLine, b \in AnyLine, c \in AnyLine :
          /\ a.kind = "header" /\ b.kind = "frame" /\ c.kind = "error"
          /\ OwnLines(t) = (<<a>> \o <<b>>) \o <<c>>
    BY <1>2, OwnIs
  <2>2. (<<a>> \o <<b>>) \o <<c>> = <<a, b, c>>
    BY ThreeOf
  <2>3. \A n \in 1..3 : <<a, b, c>>[n].kind \in {"header", "frame", "error"}
    BY <2>1
  <2> QED
    BY <2>1, <2>2, <2>3
<1> QED
  BY <1>1, <1>2 DEF FewFrames

-----------------------------------------------------------------------------
(* What the lines inside a member do *)

(* s with the lines of w and d groups open inside the member               *)
Grown(s, w, d) == [s EXCEPT !.block = s.block \o w, !.depth = d]

(* From lo open groups, and any number more, they are kept and leave hi.   *)
Keeps(w, lo, hi) ==
  \A s \in SplitState, n \in Nat :
    s.inside /\ s.depth = n + lo => Fold(SplitStep, s, w) = Grown(s, w, n + hi)

LEMMA GrownIs ==
  ASSUME NEW s \in SplitState, NEW w \in Seq(AnyLine), NEW d \in Nat
  PROVE  /\ Grown(s, w, d) \in SplitState
         /\ Grown(s, w, d).inside = s.inside /\ Grown(s, w, d).depth = d
         /\ Grown(s, w, d).block = s.block \o w /\ Grown(s, w, d).blocks = s.blocks
<1>1. PICK b \in Seq(AnyLine) : b = s.block
  BY LinesAre DEF SplitState
<1>2. b \o w \in Seq(AnyLine)
  OBVIOUS
<1>3. s.block \o w \in Lines
  BY <1>1, <1>2, LinesAre
<1> QED
  BY <1>3 DEF Grown, SplitState

LEMMA KeepsConcat ==
  ASSUME NEW u \in Seq(AnyLine), NEW w \in Seq(AnyLine), NEW a \in Nat, NEW b \in Nat, NEW c \in Nat,
         Keeps(u, a, b), Keeps(w, b, c)
  PROVE  Keeps(u \o w, a, c)
<1> SUFFICES ASSUME NEW s \in SplitState, NEW n \in Nat, s.inside, s.depth = n + a
             PROVE  Fold(SplitStep, s, u \o w) = Grown(s, u \o w, n + c)
  BY DEF Keeps
<1>1. Fold(SplitStep, s, u \o w) = Fold(SplitStep, Fold(SplitStep, s, u), w)
  BY SplitStepIs, FoldConcat
<1>2. Fold(SplitStep, s, u) = Grown(s, u, n + b)
  BY DEF Keeps
<1>3. n + b \in Nat /\ n + c \in Nat
  OBVIOUS
<1>4. PICK z : z = Grown(s, u, n + b) /\ z \in SplitState /\ z.inside /\ z.depth = n + b
               /\ z.block = s.block \o u
  <2>1. PICK d \in Nat : d = n + b
    BY <1>3
  <2>2. /\ Grown(s, u, d) \in SplitState /\ Grown(s, u, d).inside = s.inside
        /\ Grown(s, u, d).depth = d /\ Grown(s, u, d).block = s.block \o u
    BY GrownIs
  <2> QED
    BY <2>1, <2>2
<1>5. Fold(SplitStep, z, w) = Grown(z, w, n + c)
  BY <1>4 DEF Keeps
<1>6. Grown(z, w, n + c) = Grown(s, u \o w, n + c)
  <2>1. PICK v \in Seq(AnyLine) : v = s.block
    BY LinesAre DEF SplitState
  <2>2. (v \o u) \o w = v \o (u \o w)
    BY SMTT(120)
  <2>3. z.block \o w = s.block \o (u \o w)
    BY <1>4, <2>1, <2>2
  <2> QED
    BY <1>4, <2>3 DEF Grown, SplitState
<1> QED
  BY <1>1, <1>2, <1>4, <1>5, <1>6

LEMMA KeepsMore ==
  ASSUME NEW w \in Seq(AnyLine), NEW a \in Nat, NEW b \in Nat, Keeps(w, a, b)
  PROVE  Keeps(w, a + 1, b + 1)
<1> SUFFICES ASSUME NEW s \in SplitState, NEW n \in Nat, s.inside, s.depth = n + (a + 1)
             PROVE  Fold(SplitStep, s, w) = Grown(s, w, n + (b + 1))
  BY DEF Keeps
<1>1. n + 1 \in Nat /\ s.depth = (n + 1) + a /\ (n + 1) + b = n + (b + 1)
  OBVIOUS
<1>2. Fold(SplitStep, s, w) = Grown(s, w, (n + 1) + b)
  BY <1>1 DEF Keeps
<1> QED
  BY <1>1, <1>2

LEMMA KeepsNone == Keeps(<<>>, 0, 0)
<1> SUFFICES ASSUME NEW s \in SplitState, NEW n \in Nat, s.inside, s.depth = n + 0
             PROVE  Fold(SplitStep, s, <<>>) = Grown(s, <<>>, n + 0)
  BY DEF Keeps
<1>1. Fold(SplitStep, s, <<>>) = s
  BY SplitStepIs, FoldEmpty
<1>2. PICK v \in Seq(AnyLine) : v = s.block
  BY LinesAre DEF SplitState
<1>3. v \o <<>> = v
  OBVIOUS
<1>4. Grown(s, <<>>, n + 0) = s
  BY <1>2, <1>3 DEF Grown, SplitState
<1> QED
  BY <1>1, <1>4

LEMMA KeepsOne ==
  ASSUME NEW l \in AnyLine, NEW lo \in Nat, NEW hi \in Nat,
         \/ l.kind \in {"header", "frame", "error"} /\ lo = 0 /\ hi = 0
         \/ l.kind = "open" /\ lo = 0 /\ hi = 1
         \/ l.kind = "next" /\ lo = 1 /\ hi = 1
         \/ l.kind = "close" /\ lo = 1 /\ hi = 0
  PROVE  Keeps(<<l>>, lo, hi)
<1> SUFFICES ASSUME NEW s \in SplitState, NEW n \in Nat, s.inside, s.depth = n + lo
             PROVE  Fold(SplitStep, s, <<l>>) = Grown(s, <<l>>, n + hi)
  BY DEF Keeps
<1>1. Fold(SplitStep, s, <<l>>) = SplitLine(s, l)
  <2>1. Fold(SplitStep, s, <<l>>) = SplitStep[<<s, l>>]
    BY SplitStepIs, FoldOne
  <2> QED
    BY <2>1, SplitStepIs
<1>2. SplitLine(s, l) = Keep(s, l, n + hi)
  <2>1. CASE l.kind \in {"header", "frame", "error"} /\ lo = 0 /\ hi = 0
    BY <2>1 DEF SplitLine
  <2>2. CASE l.kind = "open" /\ lo = 0 /\ hi = 1
    BY <2>2 DEF SplitLine
  <2>3. CASE l.kind = "next" /\ lo = 1 /\ hi = 1
    BY <2>3 DEF SplitLine
  <2>4. CASE l.kind = "close" /\ lo = 1 /\ hi = 0
    <3>1. s.depth > 0 /\ s.depth - 1 = n + hi
      BY <2>4
    <3> QED
      BY <2>4, <3>1 DEF SplitLine
  <2> QED
    BY <2>1, <2>2, <2>3, <2>4
<1>3. Keep(s, l, n + hi) = Grown(s, <<l>>, n + hi)
  <2>1. PICK v \in Seq(AnyLine) : v = s.block
    BY LinesAre DEF SplitState
  <2>2. Append(v, l) = v \o <<l>>
    OBVIOUS
  <2> QED
    BY <2>1, <2>2 DEF Keep, Grown, SplitState
<1> QED
  BY <1>1, <1>2, <1>3

LEMMA KeepsOwn ==
  ASSUME TracebackAssumption, NEW t \in AnyTree, FewFrames(t) PROVE Keeps(OwnLines(t), 0, 0)
<1>1. CASE t.frames = <<>>
  <2>1. OwnLines(t) = <<NameLine(t)>> /\ NameLine(t) \in AnyLine /\ NameLine(t).kind = "error"
    BY <1>1, OwnIs
  <2>2. Keeps(<<NameLine(t)>>, 0, 0)
    BY <2>1, KeepsOne
  <2> QED
    BY <2>1, <2>2
<1>2. ASSUME NEW l \in Labels, t.frames = <<l>> PROVE Keeps(OwnLines(t), 0, 0)
  <2>1. PICK a \in AnyLine, b \in AnyLine, c \in AnyLine :
          /\ a.kind = "header" /\ b.kind = "frame" /\ c.kind = "error"
          /\ OwnLines(t) = (<<a>> \o <<b>>) \o <<c>>
    BY <1>2, OwnIs
  <2>2. Keeps(<<a>>, 0, 0) /\ Keeps(<<b>>, 0, 0) /\ Keeps(<<c>>, 0, 0)
    BY <2>1, KeepsOne
  <2>3. PICK u \in Seq(AnyLine), v \in Seq(AnyLine), w \in Seq(AnyLine) :
          u = <<a>> /\ v = <<b>> /\ w = <<c>>
    <3>1. <<a>> \in Seq(AnyLine) /\ <<b>> \in Seq(AnyLine) /\ <<c>> \in Seq(AnyLine)
      OBVIOUS
    <3> QED
      BY <3>1
  <2>4. Keeps(u \o v, 0, 0)
    BY <2>2, <2>3, KeepsConcat
  <2>5. PICK uv \in Seq(AnyLine) : uv = u \o v
    <3>1. u \o v \in Seq(AnyLine)
      OBVIOUS
    <3> QED
      BY <3>1
  <2>6. Keeps(uv \o w, 0, 0)
    BY <2>2, <2>3, <2>4, <2>5, KeepsConcat
  <2> QED
    BY <2>1, <2>3, <2>5, <2>6
<1> QED
  BY <1>1, <1>2 DEF FewFrames

(* Before the first member they are left out. *)
LEMMA OwnSkipped ==
  ASSUME TracebackAssumption, NEW t \in AnyTree, FewFrames(t)
  PROVE  Fold(SplitStep, SplitStart, OwnLines(t)) = SplitStart
<1>0. SplitStart \in SplitState /\ SplitStart.inside = FALSE
  BY SplitStepIs DEF SplitStart
<1>1. ASSUME NEW l \in AnyLine, l.kind \in {"header", "frame", "error"}
      PROVE  SplitStep[<<SplitStart, l>>] = SplitStart
  <2>1. SplitStep[<<SplitStart, l>>] = SplitLine(SplitStart, l)
    BY SplitStepIs
  <2> QED
    BY <1>0, <1>1, <2>1 DEF SplitLine
<1>2. CASE t.frames = <<>>
  <2>1. OwnLines(t) = <<NameLine(t)>> /\ NameLine(t) \in AnyLine /\ NameLine(t).kind = "error"
    BY <1>2, OwnIs
  <2>2. Fold(SplitStep, SplitStart, <<NameLine(t)>>) = SplitStep[<<SplitStart, NameLine(t)>>]
    BY <2>1, SplitStepIs, FoldOne
  <2> QED
    BY <1>1, <2>1, <2>2
<1>3. ASSUME NEW l \in Labels, t.frames = <<l>>
      PROVE  Fold(SplitStep, SplitStart, OwnLines(t)) = SplitStart
  <2>1. PICK a \in AnyLine, b \in AnyLine, c \in AnyLine :
          /\ a.kind = "header" /\ b.kind = "frame" /\ c.kind = "error"
          /\ OwnLines(t) = (<<a>> \o <<b>>) \o <<c>>
    BY <1>3, OwnIs
  <2>2. Fold(SplitStep, SplitStart, (<<a>> \o <<b>>) \o <<c>>)
          = SplitStep[<<SplitStep[<<SplitStep[<<SplitStart, a>>], b>>], c>>]
    BY SplitStepIs, FoldThree
  <2>3. SplitStep[<<SplitStart, a>>] = SplitStart /\ SplitStep[<<SplitStart, b>>] = SplitStart
        /\ SplitStep[<<SplitStart, c>>] = SplitStart
    BY <1>1, <2>1
  <2> QED
    BY <2>1, <2>2, <2>3
<1> QED
  BY <1>2, <1>3 DEF FewFrames

-----------------------------------------------------------------------------
(* Groups are read back *)

(* The text of a tree, and what the parser makes of it                     *)
TextOf(t) == Render[t]
Ends(t) == t.group /\ Last(t.kids).group
ReadBack(t) == IF t.group THEN ParseGroup[TextOf(t)] ELSE ParseSimple(TextOf(t))
(* As a member, a text is taken whole: it ends outside every group unless  *)
(* its last member is a group, whose rule is that of both.                 *)
KeptInside(t) == \E k \in Nat : Keeps(TextOf(t), 0, k) /\ (~Ends(t) => k = 0)
(* A tree is good if it is read back from its text.  Trees are good if     *)
(* those below them are.                                                   *)
Good(t) ==
  /\ t \in AnyTree
  /\ TextOf(t) \in Seq(AnyLine) /\ TextOf(t) # <<>>
  /\ IsGroup(TextOf(t)) <=> t.group
  /\ ~ClosesTwo[t] => KeptInside(t) /\ ReadBack(t) = As(t, "root")

LEMMA AsNode ==
  ASSUME NEW n, NEW f, NEW k, NEW q, NEW g, NEW r
  PROVE  As(Node(n, f, k, q, g), r) = Node(n, f, k, r, g)
BY DEF As, Node

LEMMA LeafGood ==
  ASSUME TracebackAssumption, NEW t \in AnyTree, ~t.group, t.kids = <<>>, FewFrames(t)
  PROVE  Good(t) /\ TextOf(t) = OwnLines(t)
<1>1. TextOf(t) = OwnLines(t)
  <2>1. PICK u \in Seq(AnyLine) : u = FrameLines(t)
    BY FrameLinesAre
  <2>2. <<>> \o u = u
    OBVIOUS
  <2>3. TextOf(t) = LinesOf(Render, t)
    BY RenderIs DEF TextOf
  <2> QED
    BY <2>1, <2>2, <2>3 DEF LinesOf, OwnLines
<1>2. ~IsGroup(TextOf(t))
  <2>1. \A n \in DOMAIN TextOf(t) : TextOf(t)[n].kind \in {"header", "frame", "error"}
    BY <1>1, OwnPlain
  <2> QED
    BY <2>1 DEF IsGroup
<1>3. KeptInside(t)
  <2>1. Keeps(TextOf(t), 0, 0) /\ 0 \in Nat
    BY <1>1, KeepsOwn
  <2> QED
    BY <2>1 DEF KeptInside
<1>4. ReadBack(t) = As(t, "root")
  <2>1. ReadBack(t) = Node(t.name, t.frames, <<>>, "root", FALSE)
    BY <1>1, OwnRead DEF ReadBack
  <2>2. PICK n, f, k, q, g :
          /\ n = t.name /\ f = t.frames /\ k = t.kids /\ g = t.group
          /\ t = Node(n, f, k, q, g)
    BY AnyTreeParts
  <2>3. As(Node(n, f, k, q, g), "root") = Node(n, f, k, "root", g)
    BY AsNode
  <2>4. g = FALSE
    BY <2>2, AnyTreeParts
  <2> QED
    BY <2>1, <2>2, <2>3, <2>4
<1>5. TextOf(t) \in Seq(AnyLine) /\ TextOf(t) # <<>>
  BY <1>1, OwnLinesAre
<1> QED
  BY <1>1, <1>2, <1>3, <1>4, <1>5 DEF Good

(* The lines of the last member of a group, and of the last two            *)
LastRule(t) == IF t.group THEN <<>> ELSE <<Closes>>
LastText(t) == TextOf(t) \o LastRule(t)
TwoText(x, y) == TextOf(x) \o (<<Next_>> \o LastText(y))

LEMMA TextsAre ==
  ASSUME NEW x, Good(x), NEW y, Good(y)
  PROVE  /\ LastRule(x) \in Seq(AnyLine) /\ LastText(x) \in Seq(AnyLine)
         /\ <<Next_>> \o LastText(y) \in Seq(AnyLine) /\ TwoText(x, y) \in Seq(AnyLine)
         /\ <<Opens>> \in Seq(AnyLine) /\ <<Next_>> \in Seq(AnyLine)
         /\ <<Closes>> \in Seq(AnyLine)
         /\ <<Opens>> \o LastText(x) \in Seq(AnyLine)
         /\ <<Opens>> \o TwoText(x, y) \in Seq(AnyLine)
<1>1. PICK u \in Seq(AnyLine), v \in Seq(AnyLine) : u = TextOf(x) /\ v = TextOf(y)
  BY DEF Good
<1>2. PICK o \in Seq(AnyLine), n \in Seq(AnyLine), c \in Seq(AnyLine) :
        o = <<Opens>> /\ n = <<Next_>> /\ c = <<Closes>>
  <2>1. \A l \in AnyLine : <<l>> \in Seq(AnyLine)
    OBVIOUS
  <2> QED
    BY <2>1, RulesAre
<1>3. PICK d \in Seq(AnyLine), e \in Seq(AnyLine) : d = LastRule(x) /\ e = LastRule(y)
  <2>1. <<>> \in Seq(AnyLine)
    OBVIOUS
  <2> QED
    BY <1>2, <2>1 DEF LastRule
<1>4. PICK p \in Seq(AnyLine), q \in Seq(AnyLine) : p = u \o d /\ q = v \o e
  <2>1. u \o d \in Seq(AnyLine) /\ v \o e \in Seq(AnyLine)
    OBVIOUS
  <2> QED
    BY <2>1
<1>5. PICK a \in Seq(AnyLine) : a = n \o q
  <2>1. n \o q \in Seq(AnyLine)
    OBVIOUS
  <2> QED
    BY <2>1
<1>6. PICK b \in Seq(AnyLine) : b = u \o a
  <2>1. u \o a \in Seq(AnyLine)
    OBVIOUS
  <2> QED
    BY <2>1
<1>7. o \o p \in Seq(AnyLine) /\ o \o b \in Seq(AnyLine)
  OBVIOUS
<1> QED
  BY <1>1, <1>2, <1>3, <1>4, <1>5, <1>6, <1>7 DEF LastText, TwoText

(* The text of a group *)
LEMMA GroupText ==
  ASSUME TracebackAssumption, NEW t \in AnyTree, t.group, NEW x, Good(x), NEW y, Good(y)
  PROVE  /\ t.kids = <<x>> => TextOf(t) = OwnLines(t) \o (<<Opens>> \o LastText(x))
         /\ t.kids = <<x, y>> => TextOf(t) = OwnLines(t) \o (<<Opens>> \o TwoText(x, y))
<1>1. TextOf(t) = OwnLines(t) \o 
          FlattenSeq([k \in DOMAIN t.kids |-> MemberLines(Render, t, k)])
  <2>1. TextOf(t) = LinesOf(Render, t)
    BY RenderIs DEF TextOf
  <2> QED
    BY <2>1 DEF LinesOf, OwnLines
<1>2. PICK u \in Seq(AnyLine), v \in Seq(AnyLine) : u = TextOf(x) /\ v = TextOf(y)
  BY DEF Good
<1>3. PICK o \in Seq(AnyLine), n \in Seq(AnyLine), d \in Seq(AnyLine), e \in Seq(AnyLine) :
        o = <<Opens>> /\ n = <<Next_>> /\ d = LastRule(x) /\ e = LastRule(y)
  BY TextsAre
<1>6. \A w \in Seq(AnyLine) : (o \o u) \o w = o \o (u \o w)
  BY SMTT(120)
<1>4. ASSUME t.kids = <<x>> PROVE TextOf(t) = OwnLines(t) \o (<<Opens>> \o LastText(x))
  <2>0. Len(t.kids) = 1 /\ t.kids[1] = x /\ DOMAIN t.kids = 1..1
    BY <1>4
  <2>1. MemberLines(Render, t, 1) = (o \o u) \o d
    BY <1>2, <1>3, <2>0 DEF MemberLines, LastRule, TextOf
  <2>2. PICK a \in Seq(AnyLine) : a = (o \o u) \o d
    <3>1. (o \o u) \o d \in Seq(AnyLine)
      OBVIOUS
    <3> QED
      BY <3>1
  <2>3. [k \in DOMAIN t.kids |-> MemberLines(Render, t, k)] = <<a>>
    <3>1. \A k \in 1..1 : MemberLines(Render, t, k) = a
      BY <2>1, <2>2
    <3>2. [k \in DOMAIN t.kids |-> MemberLines(Render, t, k)] = [k \in 1..1 |-> a]
      BY <2>0, <3>1, Zenon
    <3>3. [k \in 1..1 |-> a] = <<a>>
      OBVIOUS
    <3> QED
      BY <3>2, <3>3
  <2>4. FlattenSeq(<<a>>) = a
    BY FlattenOne
  <2>6. (o \o u) \o d = o \o (u \o d)
    BY <1>6
  <2>5. a = o \o (u \o d)
    BY <2>2, <2>6
  <2> QED
    BY <1>1, <1>2, <1>3, <2>3, <2>4, <2>5 DEF LastText
<1>5. ASSUME t.kids = <<x, y>> PROVE TextOf(t) = OwnLines(t) \o (<<Opens>> \o TwoText(x, y))
  <2>0. Len(t.kids) = 2 /\ t.kids[1] = x /\ t.kids[2] = y /\ DOMAIN t.kids = 1..2
    BY <1>5
  <2>10. MemberLines(Render, t, 1) = (o \o u) \o <<>>
    BY <1>2, <1>3, <2>0 DEF MemberLines, TextOf
  <2>11. MemberLines(Render, t, 2) = (n \o v) \o e
    <3>1. (IF 2 = 1 THEN Opens ELSE Next_) = Next_
      OBVIOUS
    <3>2. (IF 2 = Len(t.kids) /\ ~t.kids[2].group THEN <<Closes>> ELSE <<>>) = LastRule(y)
      BY <2>0 DEF LastRule
    <3>3. MemberLines(Render, t, 2) = (<<Next_>> \o Render[t.kids[2]]) \o LastRule(y)
      BY <3>1, <3>2, Zenon DEF MemberLines
    <3>4. Render[t.kids[2]] = v
      BY <1>2, <2>0 DEF TextOf
    <3> QED
      BY <1>3, <3>3, <3>4
  <2>1. MemberLines(Render, t, 1) = (o \o u) \o <<>>
        /\ MemberLines(Render, t, 2) = (n \o v) \o e
    BY <2>10, <2>11
  <2>2. PICK a \in Seq(AnyLine), b \in Seq(AnyLine) : a = o \o u /\ b = (n \o v) \o e
    <3>1. o \o u \in Seq(AnyLine) /\ (n \o v) \o e \in Seq(AnyLine)
      OBVIOUS
    <3> QED
      BY <3>1
  <2>3. a \o <<>> = a
    OBVIOUS
  <2>4. [k \in DOMAIN t.kids |-> MemberLines(Render, t, k)] = <<a, b>>
    <3>1. [k \in DOMAIN t.kids |-> MemberLines(Render, t, k)]
            = <<MemberLines(Render, t, 1), MemberLines(Render, t, 2)>>
      BY <2>0
    <3> QED
      BY <2>1, <2>2, <2>3, <3>1
  <2>5. FlattenSeq(<<a, b>>) = a \o b
    BY FlattenTwo
  <2>9. (n \o v) \o e = n \o (v \o e)
    BY SMTT(120)
  <2>6. b = n \o (v \o e)
    BY <2>2, <2>9
  <2>7. PICK c \in Seq(AnyLine) : c = n \o (v \o e)
    BY <2>6
  <2>8. (o \o u) \o c = o \o (u \o c)
    BY <1>6
  <2> QED
    BY <1>1, <1>2, <1>3, <2>2, <2>4, <2>5, <2>6, <2>7, <2>8 DEF LastText, TwoText
<1> QED
  BY <1>4, <1>5

(* The header is what comes before the first member. *)
LEMMA OwnLast ==
  ASSUME TracebackAssumption, NEW t \in AnyTree, FewFrames(t)
  PROVE  LET n == Len(OwnLines(t)) IN
         /\ n \in Nat \ {0} /\ OwnLines(t)[n] = NameLine(t)
         /\ \A k \in 1..(n - 1) : OwnLines(t)[k].kind # "error"
<1>1. CASE t.frames = <<>>
  <2>1. OwnLines(t) = <<NameLine(t)>>
    BY <1>1, OwnIs
  <2>2. Len(OwnLines(t)) = 1 /\ OwnLines(t)[1] = NameLine(t)
    BY <2>1
  <2> QED
    BY <2>2
<1>2. ASSUME NEW l \in Labels, t.frames = <<l>>
      PROVE  /\ Len(OwnLines(t)) = 3 /\ OwnLines(t)[3] = NameLine(t)
             /\ OwnLines(t)[1].kind # "error" /\ OwnLines(t)[2].kind # "error"
  <2>1. PICK a \in AnyLine, b \in AnyLine :
          /\ a.kind = "header" /\ b.kind = "frame"
          /\ OwnLines(t) = (<<a>> \o <<b>>) \o <<NameLine(t)>>
    BY <1>2, OwnIs
  <2>2. OwnLines(t) = <<a, b, NameLine(t)>>
    BY <2>1, ThreeOf
  <2>3. Len(OwnLines(t)) = 3 /\ OwnLines(t)[3] = NameLine(t) /\ OwnLines(t)[1] = a /\ OwnLines(t)[2] = b
    BY <2>2
  <2> QED
    BY <2>1, <2>3
<1>3. ASSUME Len(OwnLines(t)) = 3 PROVE \A k \in 1..(Len(OwnLines(t)) - 1) : k = 1 \/ k = 2
  BY <1>3
<1> QED
  BY <1>1, <1>2, <1>3 DEF FewFrames

LEMMA HeaderOfGroup ==
  ASSUME TracebackAssumption, NEW t \in AnyTree, FewFrames(t), t.name = "group", NEW w \in Seq(AnyLine)
  PROVE  Header(OwnLines(t) \o w) = OwnLines(t)
<1>1. PICK u \in Seq(AnyLine) : u = OwnLines(t)
  BY OwnLinesAre
<1> DEFINE g == Line("error", "group")
           n == Len(u)
<1>2. n \in Nat \ {0} /\ u[n] = g /\ \A k \in 1..(n - 1) : u[k] # g
  <2>1. NameLine(t) = g /\ g.kind = "error"
    BY DEF NameLine, Line
  <2>2. n \in Nat \ {0} /\ u[n] = NameLine(t) /\ \A k \in 1..(n - 1) : u[k].kind # "error"
    BY <1>1, OwnLast
  <2> QED
    BY <2>1, <2>2
<1>3. PICK v \in Seq(AnyLine) : v = u \o w
  <2>1. u \o w \in Seq(AnyLine)
    OBVIOUS
  <2> QED
    BY <2>1
<1>4. Len(v) = n + Len(w) /\ Len(w) \in Nat /\ \A k \in 1..n : v[k] = u[k]
  BY <1>3
<1>5. n \in 1..Len(v) /\ v[n] = g /\ \A k \in 1..(n - 1) : v[k] # g
  <2> HIDE DEF g, n
  <2>1. n \in 1..Len(v) /\ v[n] = g
    BY <1>2, <1>4
  <2>2. ASSUME NEW k \in 1..(n - 1) PROVE v[k] # g
    <3>1. k \in 1..n
      BY <1>2
    <3> QED
      BY <1>2, <1>4, <3>1
  <2> QED
    BY <2>1, <2>2
<1>6. Named(v) = n
  BY <1>5, NamedIs, LinesAre
<1>7. SubSeq(v, 1, n) = u
  <2>1. PICK z \in Seq(AnyLine) : z = SubSeq(v, 1, n) /\ Len(z) = n /\ \A k \in 1..n : z[k] = v[k]
    <3>1. SubSeq(v, 1, n) \in Seq(AnyLine) /\ Len(SubSeq(v, 1, n)) = n
          /\ \A k \in 1..n : SubSeq(v, 1, n)[k] = v[k]
      BY <1>2, <1>5
    <3> QED
      BY <3>1
  <2>2. z = u
    BY <1>4, <2>1, SeqEqual
  <2> QED
    BY <2>1, <2>2
<1> QED
  BY <1>1, <1>2, <1>3, <1>6, <1>7 DEF Header

(* Split has bs and starts on a member. *)
Reading(bs) == [blocks |-> bs, block |-> <<>>, depth |-> 0, inside |-> TRUE]
(* What Split returns *)
Given(end) == IF end.block = <<>> THEN end.blocks ELSE Append(end.blocks, end.block)

LEMMA InIs ==
  ASSUME NEW bs \in Seq(Lines)
  PROVE  Reading(bs) \in SplitState
<1>1. <<>> \in Lines
  BY LinesAre
<1> QED
  BY <1>1 DEF Reading, SplitState

LEMMA MemberRead ==
  ASSUME NEW x, Good(x), ~ClosesTwo[x], NEW bs \in Seq(Lines)
  PROVE  \E k \in Nat :
           /\ ~Ends(x) => k = 0
           /\ Fold(SplitStep, Reading(bs), TextOf(x))
                = [Reading(bs) EXCEPT !.block = TextOf(x), !.depth = k]
<1>1. PICK k \in Nat : Keeps(TextOf(x), 0, k) /\ (~Ends(x) => k = 0)
  BY DEF Good, KeptInside
<1>2. Reading(bs) \in SplitState /\ Reading(bs).inside /\ Reading(bs).depth = 0 + 0
      /\ Reading(bs).block = <<>>
  BY InIs DEF Reading
<1>3. PICK s \in SplitState : s = Reading(bs) /\ s.inside /\ s.depth = 0 + 0 /\ s.block = <<>>
  BY <1>2
<1>4. Fold(SplitStep, s, TextOf(x)) = Grown(s, TextOf(x), 0 + k)
  BY <1>1, <1>3 DEF Keeps
<1>5. PICK u \in Seq(AnyLine) : u = TextOf(x)
  BY DEF Good
<1>6. <<>> \o u = u /\ 0 + k = k
  OBVIOUS
<1>7. Grown(s, TextOf(x), 0 + k) = [s EXCEPT !.block = TextOf(x), !.depth = k]
  BY <1>3, <1>5, <1>6 DEF Grown
<1> QED
  BY <1>1, <1>3, <1>4, <1>7

LEMMA NextMember ==
  ASSUME NEW x, Good(x), ~ClosesTwo[x], ~Ends(x), NEW bs \in Seq(Lines),
         NEW w \in Seq(AnyLine)
  PROVE  Fold(SplitStep, Reading(bs), TextOf(x) \o (<<Next_>> \o w))
           = Fold(SplitStep, Reading(Append(bs, TextOf(x))), w)
<1>1. PICK u \in Seq(AnyLine) : u = TextOf(x) /\ u # <<>>
  BY DEF Good
<1>2. PICK l \in AnyLine : l = Next_ /\ l.kind = "next"
  BY RulesAre DEF Next_, Line
<1>3. PICK n \in Seq(AnyLine) : n = <<l>>
  <2>1. <<l>> \in Seq(AnyLine)
    OBVIOUS
  <2> QED
    BY <2>1
<1>4. PICK v \in Seq(AnyLine) : v = n \o w
  <2>1. n \o w \in Seq(AnyLine)
    OBVIOUS
  <2> QED
    BY <2>1
<1>5. PICK s \in SplitState : s = Reading(bs)
  BY InIs
<1>6. Fold(SplitStep, s, u \o v) = Fold(SplitStep, Fold(SplitStep, s, u), v)
  BY SplitStepIs, FoldConcat
<1>7. PICK z : z = Fold(SplitStep, s, u) /\ z = [s EXCEPT !.block = u, !.depth = 0]
  BY <1>1, <1>5, MemberRead
<1>8. z \in SplitState
  <2>1. Fold(SplitStep, s, u) \in SplitState
    BY SplitStepIs, FoldType
  <2> QED
    BY <1>7, <2>1
<1>9. Fold(SplitStep, z, n \o w) = Fold(SplitStep, Fold(SplitStep, z, n), w)
  BY <1>8, SplitStepIs, FoldConcat
<1>10. Fold(SplitStep, z, <<l>>) = SplitLine(z, l)
  <2>1. Fold(SplitStep, z, <<l>>) = SplitStep[<<z, l>>]
    BY <1>8, SplitStepIs, FoldOne
  <2> QED
    BY <1>8, <2>1, SplitStepIs
<1>11. SplitLine(z, l) = Reading(Append(bs, u))
  <2>1. z.inside = TRUE /\ z.depth = 0 /\ z.block = u /\ z.blocks = bs
    BY <1>5, <1>7 DEF Reading
  <2>2. Flush(z) = [z EXCEPT !.blocks = Append(bs, u), !.block = <<>>]
    BY <1>1, <2>1 DEF Flush
  <2>3. SplitLine(z, l) = [Flush(z) EXCEPT !.inside = TRUE]
    BY <1>2, <2>1 DEF SplitLine
  <2> QED
    BY <1>8, <2>1, <2>2, <2>3 DEF Reading, SplitState
<1> QED
  BY <1>1, <1>2, <1>3, <1>4, <1>5, <1>6, <1>7, <1>9, <1>10, <1>11

LEMMA LastMember ==
  ASSUME NEW x, Good(x), ~ClosesTwo[x], NEW bs \in Seq(Lines)
  PROVE  Given(Fold(SplitStep, Reading(bs), LastText(x))) = Append(bs, TextOf(x))
<1>1. PICK u \in Seq(AnyLine) : u = TextOf(x) /\ u # <<>>
  BY DEF Good
<1>2. PICK s \in SplitState : s = Reading(bs)
  BY InIs
<1>3. PICK k \in Nat : (~Ends(x) => k = 0) /\ Fold(SplitStep, s, u) = [s EXCEPT !.block = u, !.depth = k]
  BY <1>1, <1>2, MemberRead
<1>4. PICK z : z = Fold(SplitStep, s, u) /\ z \in SplitState
  BY SplitStepIs, FoldType
<1>5. z.inside = TRUE /\ z.depth = k /\ z.block = u /\ z.blocks = bs
  BY <1>2, <1>3, <1>4 DEF Reading
<1>6. CASE x.group
  <2>1. u \o <<>> = u
    OBVIOUS
  <2>2. LastText(x) = u
    BY <1>1, <1>6, <2>1 DEF LastText, LastRule
  <2> QED
    BY <1>1, <1>2, <1>4, <1>5, <2>2 DEF Given
<1>7. CASE ~x.group
  <2>1. k = 0
    BY <1>3, <1>7 DEF Ends
  <2>2. PICK l \in AnyLine : l = Closes /\ l.kind = "close"
    BY RulesAre DEF Closes, Line
  <2>3. PICK c \in Seq(AnyLine) : c = <<l>>
    <3>1. <<l>> \in Seq(AnyLine)
      OBVIOUS
    <3> QED
      BY <3>1
  <2>4. LastText(x) = u \o c
    BY <1>1, <1>7, <2>2, <2>3 DEF LastText, LastRule
  <2>5. Fold(SplitStep, s, u \o c) = Fold(SplitStep, Fold(SplitStep, s, u), c)
    BY SplitStepIs, FoldConcat
  <2>6. Fold(SplitStep, z, <<l>>) = SplitLine(z, l)
    <3>1. Fold(SplitStep, z, <<l>>) = SplitStep[<<z, l>>]
      BY <1>4, SplitStepIs, FoldOne
    <3> QED
      BY <1>4, <3>1, SplitStepIs
  <2>7. Flush(z) = [z EXCEPT !.blocks = Append(bs, u), !.block = <<>>]
    BY <1>1, <1>5 DEF Flush
  <2>8. SplitLine(z, l) = [Flush(z) EXCEPT !.inside = FALSE]
    BY <1>5, <2>1, <2>2 DEF SplitLine
  <2>9. PICK e : e = SplitLine(z, l) /\ e.block = <<>> /\ e.blocks = Append(bs, u)
    BY <1>4, <2>7, <2>8 DEF SplitState
  <2> QED
    BY <1>1, <1>2, <1>4, <2>3, <2>4, <2>5, <2>6, <2>9 DEF Given
<1> QED
  BY <1>6, <1>7

LEMMA AppendTwo == ASSUME NEW u, NEW v PROVE Append(<<u>>, v) = <<u, v>>
<1>1. PICK a \in Seq({u, v}) : a = <<u>> /\ Len(a) = 1 /\ a[1] = u
  <2>1. <<u>> \in Seq({u, v})
    OBVIOUS
  <2> QED
    BY <2>1
<1>2. PICK b \in Seq({u, v}) : b = Append(a, v) /\ Len(b) = 2 /\ b[1] = u /\ b[2] = v
  <2>1. Append(a, v) \in Seq({u, v}) /\ Len(Append(a, v)) = 2
        /\ Append(a, v)[1] = u /\ Append(a, v)[2] = v
    BY <1>1
  <2> QED
    BY <2>1
<1>3. PICK c \in Seq({u, v}) : c = <<u, v>> /\ Len(c) = 2 /\ c[1] = u /\ c[2] = v
  <2>1. <<u, v>> \in Seq({u, v})
    OBVIOUS
  <2> QED
    BY <2>1
<1>4. \A n \in 1..2 : n = 1 \/ n = 2
  OBVIOUS
<1>5. \A n \in 1..2 : b[n] = c[n]
  BY <1>2, <1>3, <1>4
<1>6. b = c
  BY <1>2, <1>3, <1>5, SeqEqual
<1> QED
  BY <1>1, <1>2, <1>3, <1>6

LEMMA GroupOpens ==
  ASSUME TracebackAssumption, NEW t \in AnyTree, FewFrames(t), NEW w \in Seq(AnyLine)
  PROVE  Fold(SplitStep, SplitStart, OwnLines(t) \o (<<Opens>> \o w))
           = Fold(SplitStep, Reading(<<>>), w)
<1>1. PICK u \in Seq(AnyLine) : u = OwnLines(t)
  BY OwnLinesAre
<1>2. PICK l \in AnyLine : l = Opens /\ l.kind = "open"
  BY RulesAre DEF Opens, Line
<1>3. PICK n \in Seq(AnyLine) : n = <<l>>
  <2>1. <<l>> \in Seq(AnyLine)
    OBVIOUS
  <2> QED
    BY <2>1
<1>4. PICK v \in Seq(AnyLine) : v = n \o w
  <2>1. n \o w \in Seq(AnyLine)
    OBVIOUS
  <2> QED
    BY <2>1
<1>5. PICK s \in SplitState : s = SplitStart
  BY SplitStepIs
<1>6. Fold(SplitStep, s, u \o v) = Fold(SplitStep, Fold(SplitStep, s, u), v)
  BY SplitStepIs, FoldConcat
<1>7. Fold(SplitStep, s, u) = s
  BY <1>1, <1>5, OwnSkipped
<1>8. Fold(SplitStep, s, n \o w) = Fold(SplitStep, Fold(SplitStep, s, n), w)
  BY SplitStepIs, FoldConcat
<1>9. Fold(SplitStep, s, <<l>>) = SplitLine(s, l)
  <2>1. Fold(SplitStep, s, <<l>>) = SplitStep[<<s, l>>]
    BY SplitStepIs, FoldOne
  <2> QED
    BY <2>1, SplitStepIs
<1>10. SplitLine(s, l) = Reading(<<>>)
  <2>1. s.depth = 0 /\ s.inside = FALSE
    BY <1>5 DEF SplitStart
  <2>2. SplitLine(s, l) = [s EXCEPT !.inside = TRUE]
    BY <1>2, <2>1 DEF SplitLine
  <2> QED
    BY <1>5, <2>2 DEF SplitStart, Reading
<1> QED
  BY <1>1, <1>2, <1>3, <1>4, <1>5, <1>6, <1>7, <1>8, <1>9, <1>10

LEMMA GroupSplits ==
  ASSUME TracebackAssumption, NEW t \in AnyTree, t.group, FewFrames(t), NEW x, Good(x), NEW y, Good(y),
         ~ClosesTwo[x]
  PROVE  /\ t.kids = <<x>> => Split(TextOf(t)) = <<TextOf(x)>>
         /\ t.kids = <<x, y>> /\ ~ClosesTwo[y] /\ ~Ends(x)
              => Split(TextOf(t)) = <<TextOf(x), TextOf(y)>>
<1>1. PICK u \in Lines, v \in Lines : u = TextOf(x) /\ v = TextOf(y)
  BY LinesAre DEF Good
<1>2. PICK a \in Seq(AnyLine), b \in Seq(AnyLine), c \in Seq(AnyLine) :
        /\ a = LastText(x) /\ b = TwoText(x, y) /\ c = LastText(y)
  <2>1. LastText(x) \in Seq(AnyLine) /\ LastText(y) \in Seq(AnyLine) /\ TwoText(x, y) \in Seq(AnyLine)
    BY TextsAre
  <2> QED
    BY <2>1
<1>3. <<>> \in Seq(Lines) /\ <<u>> \in Seq(Lines)
      /\ Append(<<>>, u) = <<u>> /\ Append(<<u>>, v) = <<u, v>>
  <2>1. <<>> \in Seq(Lines) /\ <<u>> \in Seq(Lines)
    OBVIOUS
  <2>2. Append(<<>>, u) = <<u>>
    OBVIOUS
  <2>3. Append(<<u>>, v) = <<u, v>>
    BY AppendTwo
  <2> QED
    BY <2>1, <2>2, <2>3
<1>4. ASSUME NEW w \in Seq(AnyLine), TextOf(t) = OwnLines(t) \o (<<Opens>> \o w)
      PROVE  Split(TextOf(t)) = Given(Fold(SplitStep, Reading(<<>>), w))
  <2>1. PICK z \in Lines : z = TextOf(t)
    <3>1. PICK p \in Seq(AnyLine), q \in Seq(AnyLine) : p = OwnLines(t) /\ q = <<Opens>>
      BY OwnLinesAre, TextsAre
    <3>2. p \o (q \o w) \in Seq(AnyLine)
      OBVIOUS
    <3> QED
      BY <1>4, <3>1, <3>2, LinesAre
  <2>2. Split(z) = Given(Fold(SplitStep, SplitStart, z))
    BY SplitFolds DEF Given
  <2>3. Fold(SplitStep, SplitStart, OwnLines(t) \o (<<Opens>> \o w))
          = Fold(SplitStep, Reading(<<>>), w)
    BY GroupOpens
  <2> QED
    BY <1>4, <2>1, <2>2, <2>3
<1>5. ASSUME t.kids = <<x>> PROVE Split(TextOf(t)) = <<TextOf(x)>>
  <2>1. TextOf(t) = OwnLines(t) \o (<<Opens>> \o a)
    BY <1>2, <1>5, GroupText
  <2>2. Split(TextOf(t)) = Given(Fold(SplitStep, Reading(<<>>), a))
    BY <1>4, <2>1
  <2>3. Given(Fold(SplitStep, Reading(<<>>), LastText(x))) = Append(<<>>, TextOf(x))
    BY <1>3, LastMember
  <2> QED
    BY <1>1, <1>2, <1>3, <2>2, <2>3
<1>6. ASSUME t.kids = <<x, y>>, ~ClosesTwo[y], ~Ends(x)
      PROVE  Split(TextOf(t)) = <<TextOf(x), TextOf(y)>>
  <2>1. TextOf(t) = OwnLines(t) \o (<<Opens>> \o b)
    BY <1>2, <1>6, GroupText
  <2>2. Split(TextOf(t)) = Given(Fold(SplitStep, Reading(<<>>), b))
    BY <1>4, <2>1
  <2>3. Fold(SplitStep, Reading(<<>>), TextOf(x) \o (<<Next_>> \o c))
          = Fold(SplitStep, Reading(Append(<<>>, TextOf(x))), c)
    BY <1>3, <1>6, NextMember
  <2>4. b = TextOf(x) \o (<<Next_>> \o c)
    BY <1>2 DEF TwoText
  <2>5. Given(Fold(SplitStep, Reading(<<u>>), LastText(y))) = Append(<<u>>, TextOf(y))
    BY <1>3, <1>6, LastMember
  <2> QED
    BY <1>1, <1>2, <1>3, <2>2, <2>3, <2>4, <2>5
<1> QED
  BY <1>5, <1>6

(* A group leaves open what its last member does, and itself if that is a  *)
(* group.                                                                  *)
LEMMA LastKeeps ==
  ASSUME NEW x, Good(x), ~ClosesTwo[x]
  PROVE  \E k \in Nat : Keeps(LastText(x), 1, k) /\ (~x.group => k = 0)
<1>1. PICK u \in Seq(AnyLine) : u = TextOf(x)
  BY DEF Good
<1>2. PICK k \in Nat : Keeps(u, 0, k) /\ (~Ends(x) => k = 0)
  BY <1>1 DEF Good, KeptInside
<1>3. Keeps(u, 0 + 1, k + 1) /\ 0 + 1 = 1 /\ k + 1 \in Nat
  BY <1>2, KeepsMore
<1>4. CASE x.group
  <2>1. u \o <<>> = u
    OBVIOUS
  <2>2. LastText(x) = u
    BY <1>1, <1>4, <2>1 DEF LastText, LastRule
  <2> QED
    BY <1>3, <1>4, <2>2
<1>5. CASE ~x.group
  <2>1. k = 0
    BY <1>2, <1>5 DEF Ends
  <2>2. PICK c \in Seq(AnyLine) : c = <<Closes>> /\ Keeps(c, 1, 0)
    <3>1. Closes \in AnyLine /\ Closes.kind = "close"
      BY RulesAre DEF Closes, Line
    <3>2. Keeps(<<Closes>>, 1, 0)
      BY <3>1, KeepsOne
    <3>3. <<Closes>> \in Seq(AnyLine)
      BY <3>1
    <3> QED
      BY <3>2, <3>3
  <2>3. Keeps(u, 1, 1)
    BY <1>3, <2>1
  <2>4. Keeps(u \o c, 1, 0)
    BY <2>2, <2>3, KeepsConcat
  <2>5. LastText(x) = u \o c
    BY <1>1, <1>5, <2>2 DEF LastText, LastRule
  <2> QED
    BY <2>4, <2>5
<1> QED
  BY <1>4, <1>5

LEMMA GroupKeeps ==
  ASSUME TracebackAssumption, NEW t \in AnyTree, t.group, FewFrames(t), NEW x, Good(x), NEW y, Good(y),
         ~ClosesTwo[x],
         \/ t.kids = <<x>>
         \/ t.kids = <<x, y>> /\ ~ClosesTwo[y] /\ ~Ends(x)
  PROVE  KeptInside(t)
<1>1. PICK u \in Seq(AnyLine), p \in Seq(AnyLine), q \in Seq(AnyLine), n \in Seq(AnyLine) :
        u = TextOf(x) /\ p = OwnLines(t) /\ q = <<Opens>> /\ n = <<Next_>>
  BY OwnLinesAre, TextsAre DEF Good
<1>2. Keeps(p, 0, 0) /\ Keeps(q, 0, 1) /\ Keeps(n, 1, 1)
  <2>1. Keeps(OwnLines(t), 0, 0)
    BY KeepsOwn
  <2>2. Opens.kind = "open" /\ Next_.kind = "next"
    BY DEF Opens, Next_, Line
  <2>3. Keeps(<<Opens>>, 0, 1) /\ Keeps(<<Next_>>, 1, 1)
    BY <2>2, RulesAre, KeepsOne
  <2> QED
    BY <1>1, <2>1, <2>3
<1>3. ASSUME NEW w \in Seq(AnyLine), NEW k \in Nat, Keeps(w, 1, k), TextOf(t) = p \o (q \o w)
      PROVE  Keeps(TextOf(t), 0, k)
  <2>1. Keeps(q \o w, 0, k)
    BY <1>2, <1>3, KeepsConcat
  <2>2. PICK v \in Seq(AnyLine) : v = q \o w
    <3>1. q \o w \in Seq(AnyLine)
      OBVIOUS
    <3> QED
      BY <3>1
  <2>3. Keeps(p \o v, 0, k)
    BY <1>2, <2>1, <2>2, KeepsConcat
  <2> QED
    BY <1>3, <2>2, <2>3
<1>4. CASE t.kids = <<x>>
  <2>1. PICK a \in Seq(AnyLine) : a = LastText(x)
    BY TextsAre
  <2>2. PICK k \in Nat : Keeps(a, 1, k) /\ (~x.group => k = 0)
    BY <2>1, LastKeeps
  <2>3. TextOf(t) = p \o (q \o a)
    BY <1>1, <1>4, <2>1, GroupText
  <2>4. Keeps(TextOf(t), 0, k)
    BY <1>3, <2>2, <2>3
  <2>5. Last(t.kids) = x
    BY <1>4 DEF Last
  <2> QED
    BY <2>2, <2>4, <2>5 DEF KeptInside, Ends
<1>5. CASE t.kids = <<x, y>> /\ ~ClosesTwo[y] /\ ~Ends(x)
  <2>1. PICK a \in Seq(AnyLine) : a = LastText(y)
    BY TextsAre
  <2>2. PICK k \in Nat : Keeps(a, 1, k) /\ (~y.group => k = 0)
    BY <1>5, <2>1, LastKeeps
  <2>3. PICK b \in Seq(AnyLine) : b = n \o a
    <3>1. n \o a \in Seq(AnyLine)
      OBVIOUS
    <3> QED
      BY <3>1
  <2>4. PICK c \in Seq(AnyLine) : c = u \o b
    <3>1. u \o b \in Seq(AnyLine)
      OBVIOUS
    <3> QED
      BY <3>1
  <2>5. TextOf(t) = p \o (q \o c)
    <3>1. c = TwoText(x, y)
      BY <1>1, <2>1, <2>3, <2>4 DEF TwoText
    <3> QED
      BY <1>1, <1>5, <3>1, GroupText
  <2>6. Keeps(b, 1, k)
    BY <1>2, <2>2, <2>3, KeepsConcat
  <2>7. Keeps(u, 1, 1)
    <3>1. PICK m \in Nat : Keeps(u, 0, m) /\ (~Ends(x) => m = 0)
      BY <1>1 DEF Good, KeptInside
    <3>2. Keeps(u, 0 + 1, m + 1)
      BY <3>1, KeepsMore
    <3> QED
      BY <1>5, <3>1, <3>2
  <2>8. Keeps(c, 1, k)
    BY <2>4, <2>6, <2>7, KeepsConcat
  <2>9. Keeps(TextOf(t), 0, k)
    BY <1>3, <2>5, <2>8
  <2>10. Last(t.kids) = y
    BY <1>5 DEF Last
  <2> QED
    BY <2>2, <2>9, <2>10 DEF KeptInside, Ends
<1> QED
  BY <1>4, <1>5

LEMMA GroupGood ==
  ASSUME TracebackAssumption, NEW t \in AnyTree, t.group, t.name = "group", FewFrames(t),
         NEW x, Good(x), x.rel = "member", NEW y, Good(y), y.rel = "member",
         t.kids = <<x>> \/ t.kids = <<x, y>>
  PROVE  Good(t)
<1>1. PICK p \in Seq(AnyLine), q \in Seq(AnyLine), w \in Seq(AnyLine) :
        /\ p = OwnLines(t) /\ p # <<>> /\ q = <<Opens>>
        /\ TextOf(t) = p \o (q \o w)
  <2>1. PICK a \in Seq(AnyLine), b \in Seq(AnyLine) : a = LastText(x) /\ b = TwoText(x, y)
    BY TextsAre
  <2>2. TextOf(t) = OwnLines(t) \o (<<Opens>> \o a)
        \/ TextOf(t) = OwnLines(t) \o (<<Opens>> \o b)
    BY <2>1, GroupText
  <2>3. OwnLines(t) \in Seq(AnyLine) /\ OwnLines(t) # <<>> /\ <<Opens>> \in Seq(AnyLine)
    BY OwnLinesAre, TextsAre
  <2> QED
    BY <2>2, <2>3
<1>2. PICK v \in Seq(AnyLine) : v = p \o (q \o w) /\ v # <<>> /\ IsGroup(v)
  <2>1. PICK z \in Seq(AnyLine) : z = q \o w /\ Len(z) = Len(w) + 1 /\ z[1] = Opens
    <3>1. q \o w \in Seq(AnyLine) /\ Len(q \o w) = Len(w) + 1 /\ (q \o w)[1] = Opens
      BY <1>1
    <3> QED
      BY <3>1
  <2>2. p \o z \in Seq(AnyLine) /\ Len(p \o z) = Len(p) + Len(z) /\ Len(z) >= 1
        /\ (p \o z)[Len(p) + 1] = z[1] /\ Len(p) + 1 \in DOMAIN (p \o z)
    <3>1. Len(p) \in Nat /\ Len(w) \in Nat
      OBVIOUS
    <3>2. p \o z \in Seq(AnyLine) /\ Len(p \o z) = Len(p) + Len(z)
      OBVIOUS
    <3>3. Len(z) >= 1 /\ 1 \in 1..Len(z)
      BY <2>1, <3>1
    <3>4. (p \o z)[Len(p) + 1] = z[1]
      BY <3>1, <3>3
    <3>5. Len(p) + 1 \in 1..Len(p \o z) /\ DOMAIN (p \o z) = 1..Len(p \o z)
      BY <2>1, <3>1, <3>2
    <3> QED
      BY <3>2, <3>3, <3>4, <3>5
  <2>3. p \o z # <<>>
    BY <2>2
  <2>4. IsGroup(p \o z)
    <3>0. Opens.kind = "open"
      BY DEF Opens, Line
    <3>1. (p \o z)[Len(p) + 1].kind = "open"
      BY <2>1, <2>2, <3>0
    <3> QED
      BY <2>2, <3>1 DEF IsGroup
  <2> QED
    BY <2>1, <2>2, <2>3, <2>4
<1>3. ASSUME ~ClosesTwo[t]
      PROVE  /\ ~ClosesTwo[x]
             /\ \/ t.kids = <<x>>
                \/ t.kids = <<x, y>> /\ ~ClosesTwo[y] /\ ~Ends(x)
  <2>1. ~ClosesOf(ClosesTwo, t)
    BY <1>3, ClosesTwoIs
  <2>2. CASE t.kids = <<x>>
    <3>1. 1 \in DOMAIN t.kids /\ t.kids[1] = x
      BY <2>2
    <3>2. \A k \in DOMAIN t.kids : ~ClosesTwo[t.kids[k]]
      BY <2>1, Zenon DEF ClosesOf
    <3>3. ~ClosesTwo[x]
      BY <3>1, <3>2
    <3> QED
      BY <2>2, <3>3, Zenon
  <2>3. CASE t.kids = <<x, y>>
    <3>1. DOMAIN t.kids = 1..2 /\ Len(t.kids) = 2 /\ t.kids[1] = x /\ t.kids[2] = y
      BY <2>3
    <3>2. 1 \in DOMAIN t.kids /\ 2 \in DOMAIN t.kids /\ 1 < Len(t.kids)
      BY <3>1
    <3>3. \A k \in DOMAIN t.kids :
            /\ ~ClosesTwo[t.kids[k]]
            /\ ~(t.group /\ k < Len(t.kids) /\ t.kids[k].group /\ Last(t.kids[k].kids).group)
      BY <2>1 DEF ClosesOf
    <3>4. ~ClosesTwo[x] /\ ~ClosesTwo[y]
      BY <3>1, <3>2, <3>3
    <3>5. ~Ends(x)
      BY <3>1, <3>2, <3>3 DEF Ends
    <3> QED
      BY <2>3, <3>4, <3>5
  <2> QED
    BY <2>2, <2>3
<1>4. ASSUME ~ClosesTwo[t] PROVE KeptInside(t)
  BY <1>3, <1>4, GroupKeeps
<1>5. ASSUME NEW z, Good(z), z.rel = "member", ~ClosesTwo[z]
      PROVE  Member(ParseGroup, TextOf(z)) = z
  <2>1. (IF IsGroup(TextOf(z)) THEN ParseGroup[TextOf(z)] ELSE ParseSimple(TextOf(z)))
          = As(z, "root")
    BY <1>5 DEF Good, ReadBack
  <2>2. PICK n, f, k, g : z = Node(n, f, k, "member", g)
    BY <1>5, AnyTreeParts DEF Good
  <2>3. As(As(z, "root"), "member") = z
    <3>1. As(z, "root") = Node(n, f, k, "root", g)
      BY <2>2, AsNode
    <3>2. As(Node(n, f, k, "root", g), "member") = Node(n, f, k, "member", g)
      BY AsNode
    <3> QED
      BY <2>2, <3>1, <3>2
  <2> QED
    BY <2>1, <2>3 DEF Member
<1>6. ASSUME ~ClosesTwo[t] PROVE ReadBack(t) = As(t, "root")
  <2>1. ReadBack(t) = GroupOf(ParseGroup, v)
    BY <1>1, <1>2, ParseGroupIs, LinesAre DEF ReadBack
  <2>2. Read(Header(v)).frames = t.frames
    <3>1. PICK z \in Seq(AnyLine) : z = q \o w
      <4>1. q \o w \in Seq(AnyLine)
        OBVIOUS
      <4> QED
        BY <4>1
    <3>2. Header(OwnLines(t) \o z) = OwnLines(t)
      BY HeaderOfGroup
    <3>3. Header(v) = OwnLines(t)
      BY <1>1, <1>2, <3>1, <3>2
    <3>4. PICK f : f = t.frames
      OBVIOUS
    <3>5. Read(OwnLines(t)) = [frames |-> f, name |-> t.name]
      BY <3>4, OwnRead
    <3> QED
      BY <3>3, <3>4, <3>5
  <2>3. [b \in DOMAIN Split(v) |-> Member(ParseGroup, Split(v)[b])] = t.kids
    <3>1. CASE t.kids = <<x>>
      <4>1. Split(TextOf(t)) = <<TextOf(x)>>
        BY <1>3, <1>6, <3>1, GroupSplits
      <4>2. PICK c : c = Split(v) /\ DOMAIN c = 1..1 /\ c[1] = TextOf(x)
        BY <1>1, <1>2, <4>1
      <4>3. Member(ParseGroup, TextOf(x)) = x
        BY <1>3, <1>5, <1>6
      <4>4. \A b \in 1..1 : Member(ParseGroup, c[b]) = x
        BY <4>2, <4>3
      <4>5. [b \in DOMAIN c |-> Member(ParseGroup, c[b])] = [b \in 1..1 |-> x]
        BY <4>2, <4>4, Zenon
      <4>6. [b \in 1..1 |-> x] = <<x>>
        OBVIOUS
      <4> QED
        BY <3>1, <4>2, <4>5, <4>6
    <3>2. CASE t.kids = <<x, y>> /\ ~ClosesTwo[y] /\ ~Ends(x)
      <4>1. Split(TextOf(t)) = <<TextOf(x), TextOf(y)>>
        BY <1>3, <1>6, <3>2, GroupSplits
      <4>2. PICK c : c = Split(v) /\ DOMAIN c = 1..2 /\ c[1] = TextOf(x) /\ c[2] = TextOf(y)
        BY <1>1, <1>2, <4>1
      <4>3. Member(ParseGroup, TextOf(x)) = x /\ Member(ParseGroup, TextOf(y)) = y
        BY <1>3, <1>5, <1>6, <3>2
      <4>4. PICK m : m = [b \in 1..2 |-> Member(ParseGroup, c[b])]
        OBVIOUS
      <4>5. m = <<m[1], m[2]>> /\ m[1] = Member(ParseGroup, c[1])
            /\ m[2] = Member(ParseGroup, c[2])
        BY <4>4
      <4> QED
        BY <3>2, <4>2, <4>3, <4>4, <4>5
    <3> QED
      BY <1>3, <1>6, <3>1, <3>2
  <2>4. GroupOf(ParseGroup, v) = Node("group", t.frames, t.kids, "root", TRUE)
    BY <2>2, <2>3 DEF GroupOf
  <2>5. PICK n, f, k, r, g :
          /\ n = t.name /\ f = t.frames /\ k = t.kids /\ g = t.group
          /\ t = Node(n, f, k, r, g)
    <3>1. t = Node(t.name, t.frames, t.kids, t.rel, t.group)
      BY AnyTreeParts
    <3> QED
      BY <3>1, Zenon
  <2>6. As(Node(n, f, k, r, g), "root") = Node(n, f, k, "root", g)
    BY AsNode
  <2>7. g = TRUE /\ n = "group"
    BY <2>5, AnyTreeParts
  <2> QED
    BY <2>1, <2>4, <2>5, <2>6, <2>7
<1> QED
  BY <1>1, <1>2, <1>4, <1>6 DEF Good

-----------------------------------------------------------------------------
(* Chains are read back *)

LEMMA KidsNode ==
  ASSUME NEW n, NEW f, NEW k, NEW q, NEW g, NEW z
  PROVE  [Node(n, f, k, q, g) EXCEPT !.kids = z] = Node(n, f, z, q, g)
BY DEF Node

LEMMA ChainOwn ==
  ASSUME TracebackAssumption, NEW t \in AnyTree, FewFrames(t), NEW s \in ChainState
  PROVE  Fold(ChainStep, s, OwnLines(t)) = [s EXCEPT !.part = s.part \o OwnLines(t)]
<1>1. PICK v \in Seq(AnyLine) : v = s.part
  BY LinesAre DEF ChainState
<1>2. ASSUME NEW z \in ChainState, NEW l \in AnyLine, l.kind \in {"header", "frame", "error"}
      PROVE  ChainStep[<<z, l>>] = [z EXCEPT !.part = Append(z.part, l)]
  <2>1. ChainStep[<<z, l>>] = ChainLine(z, l)
    BY ChainStepIs
  <2> QED
    BY <1>2, <2>1 DEF ChainLine
<1>3. CASE t.frames = <<>>
  <2>1. PICK e \in AnyLine : e = NameLine(t) /\ e.kind = "error" /\ OwnLines(t) = <<e>>
    BY <1>3, OwnIs
  <2>2. Fold(ChainStep, s, <<e>>) = ChainStep[<<s, e>>]
    BY ChainStepIs, FoldOne
  <2>3. ChainStep[<<s, e>>] = [s EXCEPT !.part = Append(s.part, e)]
    BY <1>2, <2>1
  <2>4. Append(v, e) = v \o <<e>>
    OBVIOUS
  <2> QED
    BY <1>1, <2>1, <2>2, <2>3, <2>4
<1>4. ASSUME NEW l \in Labels, t.frames = <<l>>
      PROVE  Fold(ChainStep, s, OwnLines(t)) = [s EXCEPT !.part = s.part \o OwnLines(t)]
  <2>1. PICK a \in AnyLine, b \in AnyLine, c \in AnyLine :
          /\ a.kind = "header" /\ b.kind = "frame" /\ c.kind = "error"
          /\ OwnLines(t) = (<<a>> \o <<b>>) \o <<c>>
    BY <1>4, OwnIs
  <2>2. Fold(ChainStep, s, (<<a>> \o <<b>>) \o <<c>>)
          = ChainStep[<<ChainStep[<<ChainStep[<<s, a>>], b>>], c>>]
    BY ChainStepIs, FoldThree
  <2>3. PICK z1 \in ChainState : z1 = ChainStep[<<s, a>>]
    BY ChainStepIs DEF IsStep
  <2>4. PICK z2 \in ChainState : z2 = ChainStep[<<z1, b>>]
    BY ChainStepIs DEF IsStep
  <2>5. z1 = [s EXCEPT !.part = Append(s.part, a)]
    BY <1>2, <2>1, <2>3
  <2>6. z2 = [z1 EXCEPT !.part = Append(z1.part, b)]
    BY <1>2, <2>1, <2>4
  <2>7. ChainStep[<<z2, c>>] = [z2 EXCEPT !.part = Append(z2.part, c)]
    BY <1>2, <2>1
  <2>8. z1.part = Append(v, a) /\ z2.part = Append(Append(v, a), b)
    BY <1>1, <2>3, <2>4, <2>5, <2>6 DEF ChainState
  <2>9. ChainStep[<<z2, c>>] = [s EXCEPT !.part = Append(Append(Append(v, a), b), c)]
    BY <2>3, <2>4, <2>5, <2>6, <2>7, <2>8 DEF ChainState
  <2>10. Append(Append(Append(v, a), b), c) = v \o ((<<a>> \o <<b>>) \o <<c>>)
    <3>1. Append(v, a) = v \o <<a>> /\ <<a>> \in Seq(AnyLine) /\ <<b>> \in Seq(AnyLine)
          /\ <<c>> \in Seq(AnyLine)
      OBVIOUS
    <3>2. PICK fa \in Seq(AnyLine), fb \in Seq(AnyLine), fc \in Seq(AnyLine) :
            fa = <<a>> /\ fb = <<b>> /\ fc = <<c>>
      BY <3>1
    <3>3. PICK w \in Seq(AnyLine) : w = v \o fa
      <4>1. v \o fa \in Seq(AnyLine)
        OBVIOUS
      <4> QED
        BY <4>1
    <3>4. Append(w, b) = w \o <<b>>
      OBVIOUS
    <3>5. PICK x \in Seq(AnyLine) : x = w \o fb
      <4>1. w \o fb \in Seq(AnyLine)
        OBVIOUS
      <4> QED
        BY <4>1
    <3>6. Append(x, c) = x \o <<c>>
      OBVIOUS
    <3>7. (v \o fa) \o fb = v \o (fa \o fb)
      BY SMTT(120)
    <3>8. PICK y \in Seq(AnyLine) : y = fa \o fb
      <4>1. fa \o fb \in Seq(AnyLine)
        OBVIOUS
      <4> QED
        BY <4>1
    <3>9. (v \o y) \o fc = v \o (y \o fc)
      BY SMTT(120)
    <3> QED
      BY <3>1, <3>2, <3>3, <3>4, <3>5, <3>6, <3>7, <3>8, <3>9
  <2> QED
    BY <1>1, <2>1, <2>2, <2>3, <2>4, <2>9, <2>10
<1> QED
  BY <1>3, <1>4 DEF FewFrames

(* A chain is good if its text is no group's, has a marker unless it is    *)
(* one exception, and leaves what led to its end and then its own lines.   *)
Marked(w) == \E n \in DOMAIN w : w[n].kind \in {"cause", "context"}
ChainGood(c) ==
  /\ c \in AnyTree /\ ~c.group /\ FewFrames(c)
  /\ TextOf(c) \in Seq(AnyLine) /\ TextOf(c) # <<>> /\ ~IsGroup(TextOf(c))
  /\ Marked(TextOf(c)) <=> c.kids # <<>>
  /\ Fold(ChainStep, ChainStart, TextOf(c)) = [kid |-> c.kids, part |-> OwnLines(c)]

LEMMA ChainEnd ==
  ASSUME TracebackAssumption, NEW t \in AnyTree, ~t.group, t.kids = <<>>, FewFrames(t)
  PROVE  ChainGood(t)
<1>1. TextOf(t) = OwnLines(t) /\ TextOf(t) \in Seq(AnyLine) /\ TextOf(t) # <<>>
  BY LeafGood DEF Good
<1>2. ~IsGroup(TextOf(t)) /\ ~Marked(TextOf(t))
  <2>1. \A n \in DOMAIN TextOf(t) : TextOf(t)[n].kind \in {"header", "frame", "error"}
    BY <1>1, OwnPlain
  <2> QED
    BY <2>1 DEF IsGroup, Marked
<1>3. Fold(ChainStep, ChainStart, TextOf(t)) = [kid |-> t.kids, part |-> OwnLines(t)]
  <2>1. Fold(ChainStep, ChainStart, OwnLines(t))
          = [ChainStart EXCEPT !.part = ChainStart.part \o OwnLines(t)]
    BY ChainStepIs, ChainOwn
  <2>2. PICK u \in Seq(AnyLine) : u = OwnLines(t)
    BY <1>1
  <2>3. <<>> \o u = u
    OBVIOUS
  <2>4. ChainStart.part = <<>> /\ ChainStart.kid = <<>>
    BY DEF ChainStart
  <2>5. [ChainStart EXCEPT !.part = u] = [kid |-> <<>>, part |-> u]
    BY DEF ChainStart
  <2> QED
    BY <1>1, <2>1, <2>2, <2>3, <2>4, <2>5
<1> QED
  BY <1>1, <1>2, <1>3 DEF ChainGood

LEMMA ChainGrows ==
  ASSUME TracebackAssumption, NEW t \in AnyTree, ~t.group, FewFrames(t),
         NEW c, ChainGood(c), c.rel \in {"cause", "context"}, t.kids = <<c>>
  PROVE  ChainGood(t)
<1>1. PICK u \in Seq(AnyLine), p \in Seq(AnyLine) :
        u = TextOf(c) /\ p = OwnLines(t) /\ p # <<>>
  BY OwnLinesAre DEF ChainGood
<1>2. PICK l \in AnyLine : l = Line(c.rel, "") /\ l.kind = c.rel
  <2>1. Line(c.rel, "") \in AnyLine /\ Line(c.rel, "").kind = c.rel
    BY DEF Line, AnyLine, Labels
  <2> QED
    BY <2>1
<1>3. PICK m \in Seq(AnyLine) : m = <<l>> /\ Len(m) = 1 /\ m[1] = l
  <2>1. <<l>> \in Seq(AnyLine) /\ Len(<<l>>) = 1 /\ <<l>>[1] = l
    OBVIOUS
  <2> QED
    BY <2>1
<1>4. PICK um \in Seq(AnyLine) : um = u \o m
  <2>1. u \o m \in Seq(AnyLine)
    OBVIOUS
  <2> QED
    BY <2>1
<1>5. PICK v \in Seq(AnyLine) : v = um \o p
  <2>1. um \o p \in Seq(AnyLine)
    OBVIOUS
  <2> QED
    BY <2>1
<1>6. TextOf(t) = v
  <2>1. PICK f \in Seq(AnyLine), e \in Seq(AnyLine) :
          f = FrameLines(t) /\ e = <<Line("error", t.name)>>
    BY FrameLinesAre
  <2>2. t.kids # <<>> /\ t.kids[1] = c
    OBVIOUS
  <2>3. TextOf(t) = ((TextOf(c) \o <<Line(c.rel, "")>>) \o f) \o e
    <3>1. TextOf(t) = LinesOf(Render, t)
      BY RenderIs DEF TextOf
    <3> QED
      BY <2>1, <2>2, <3>1 DEF LinesOf, TextOf
  <2>4. (um \o f) \o e = um \o (f \o e)
    BY SMTT(120)
  <2>5. p = f \o e
    BY <1>1, <2>1 DEF OwnLines
  <2> QED
    BY <1>1, <1>2, <1>3, <1>4, <1>5, <2>3, <2>4, <2>5
<1>7. Len(u) \in Nat /\ Len(p) \in Nat /\ Len(um) = Len(u) + 1 /\ Len(v) = Len(um) + Len(p)
  BY <1>3, <1>4, <1>5
<1>8. /\ \A n \in 1..Len(u) : v[n] = u[n]
      /\ v[Len(u) + 1] = l
      /\ \A n \in 1..Len(p) : v[Len(um) + n] = p[n]
  <2>1. \A n \in 1..Len(um) : v[n] = um[n]
    BY <1>5
  <2>2. (\A n \in 1..Len(u) : um[n] = u[n]) /\ um[Len(u) + 1] = m[1]
    BY <1>3, <1>4, <1>7
  <2>3. \A n \in 1..Len(p) : v[Len(um) + n] = p[n]
    BY <1>5, <1>7
  <2>4. \A n \in 1..Len(u) : n \in 1..Len(um)
    BY <1>7
  <2>5. Len(u) + 1 \in 1..Len(um)
    BY <1>7
  <2> QED
    BY <1>3, <2>1, <2>2, <2>3, <2>4, <2>5
<1>9. ~IsGroup(v)
  <2>1. \A n \in 1..Len(u) : u[n].kind \notin {"open", "next"}
    BY <1>1 DEF ChainGood, IsGroup
  <2>2. \A n \in 1..Len(p) : p[n].kind \in {"header", "frame", "error"}
    BY <1>1, OwnPlain
  <2>3. ASSUME NEW n \in 1..Len(v) PROVE v[n].kind \notin {"open", "next"}
    <3>1. CASE n \in 1..Len(u)
      BY <1>8, <2>1, <3>1
    <3>2. CASE n = Len(u) + 1
      BY <1>2, <1>8, <3>2
    <3>3. CASE n > Len(u) + 1
      <4>1. PICK k \in 1..Len(p) : n = Len(um) + k
        <5>1. n - Len(um) \in 1..Len(p) /\ n = Len(um) + (n - Len(um))
          BY <1>7, <3>3
        <5> QED
          BY <5>1
      <4>2. v[n] = p[k]
        BY <1>8, <4>1
      <4> QED
        BY <2>2, <4>2
    <3> QED
      BY <1>7, <3>1, <3>2, <3>3
  <2> QED
    BY <2>3 DEF IsGroup
<1>10. Marked(v)
  <2>1. Len(u) + 1 \in DOMAIN v
    BY <1>7
  <2> QED
    BY <1>2, <1>8, <2>1 DEF Marked
<1>11. Fold(ChainStep, ChainStart, v) = [kid |-> t.kids, part |-> OwnLines(t)]
  <2>1. PICK s \in ChainState :
          s = Fold(ChainStep, ChainStart, u) /\ s = [kid |-> c.kids, part |-> OwnLines(c)]
    <3>1. Fold(ChainStep, ChainStart, u) \in ChainState
      BY ChainStepIs, FoldType
    <3> QED
      BY <1>1, <3>1 DEF ChainGood
  <2>2. Fold(ChainStep, ChainStart, u \o m) = Fold(ChainStep, s, m)
    <3>1. Fold(ChainStep, ChainStart, u \o m)
            = Fold(ChainStep, Fold(ChainStep, ChainStart, u), m)
      BY ChainStepIs, FoldConcat
    <3> QED
      BY <2>1, <3>1
  <2>3. Fold(ChainStep, s, <<l>>) = ChainStep[<<s, l>>]
    BY ChainStepIs, FoldOne
  <2>4. ChainStep[<<s, l>>] = ChainLine(s, l)
    BY ChainStepIs
  <2>5. ChainLine(s, l)
          = [kid |-> <<As([ParseSimple(s.part) EXCEPT !.kids = s.kid], l.kind)>>,
             part |-> <<>>]
    BY <1>2 DEF ChainLine
  <2>6. As([ParseSimple(s.part) EXCEPT !.kids = s.kid], l.kind) = c
    <3>1. PICK n, f, k, r, g :
            /\ n = c.name /\ f = c.frames /\ k = c.kids /\ r = c.rel /\ g = c.group
            /\ c = Node(n, f, k, r, g)
      <4>1. c = Node(c.name, c.frames, c.kids, c.rel, c.group)
        BY AnyTreeParts DEF ChainGood
      <4> QED
        BY <4>1, Zenon
    <3>2. g = FALSE
      BY <3>1, AnyTreeParts DEF ChainGood
    <3>3. ParseSimple(OwnLines(c)) = Node(n, f, <<>>, "root", g)
      BY <3>1, <3>2, OwnRead DEF ChainGood
    <3>4. [Node(n, f, <<>>, "root", g) EXCEPT !.kids = k] = Node(n, f, k, "root", g)
      BY KidsNode
    <3>5. As(Node(n, f, k, "root", g), r) = Node(n, f, k, r, g)
      BY AsNode
    <3>6. s.part = OwnLines(c) /\ s.kid = k
      BY <2>1, <3>1
    <3> QED
      BY <1>2, <3>1, <3>3, <3>4, <3>5, <3>6
  <2>7. PICK z \in ChainState : z = ChainLine(s, l) /\ z = [kid |-> <<c>>, part |-> <<>>]
    <3>1. ChainStep[<<s, l>>] \in ChainState
      BY ChainStepIs DEF IsStep
    <3> QED
      BY <2>4, <2>5, <2>6, <3>1
  <2>8. Fold(ChainStep, ChainStart, um) = z
    BY <1>3, <1>4, <2>2, <2>3, <2>4, <2>7
  <2>9. Fold(ChainStep, ChainStart, um \o p) = Fold(ChainStep, z, p)
    BY <2>8, ChainStepIs, FoldConcat
  <2>10. Fold(ChainStep, z, p) = [z EXCEPT !.part = z.part \o p]
    BY <1>1, ChainOwn
  <2>11. <<>> \o p = p
    OBVIOUS
  <2>12. [z EXCEPT !.part = z.part \o p] = [kid |-> <<c>>, part |-> p]
    BY <2>7, <2>11
  <2> QED
    BY <1>1, <1>5, <2>9, <2>10, <2>12
<1>12. v # <<>> /\ t.kids # <<>>
  BY <1>7
<1> QED
  BY <1>6, <1>9, <1>10, <1>11, <1>12 DEF ChainGood

-----------------------------------------------------------------------------
(* Every tree that may be raised is read back *)

LeafLike(t) == ~t.group /\ t.kids = <<>> /\ FewFrames(t)
GroupLike(t) ==
  /\ t.group /\ t.name = "group" /\ FewFrames(t)
  /\ \E x, y : /\ Good(x) /\ x.rel = "member" /\ Good(y) /\ y.rel = "member"
               /\ t.kids = <<x>> \/ t.kids = <<x, y>>
Sound(t) ==
  /\ t \in AnyTree
  /\ LeafLike(t) \/ GroupLike(t)

LEMMA SoundGood == ASSUME TracebackAssumption, NEW t, Sound(t) PROVE Good(t)
<1>1. t \in AnyTree
  BY DEF Sound
<1>2. CASE LeafLike(t)
  BY <1>1, <1>2, LeafGood DEF LeafLike
<1>3. CASE GroupLike(t)
  <2>1. PICK x, y : /\ Good(x) /\ x.rel = "member" /\ Good(y) /\ y.rel = "member"
                    /\ t.kids = <<x>> \/ t.kids = <<x, y>>
    BY <1>3 DEF GroupLike
  <2> QED
    BY <1>1, <1>3, <2>1, GroupGood DEF GroupLike
<1> QED
  BY <1>2, <1>3 DEF Sound

LEMMA SoundAs ==
  ASSUME TracebackAssumption, NEW t, Sound(t), NEW r \in Rels
  PROVE  Sound(As(t, r)) /\ As(t, r).rel = r
<1>1. t \in AnyTree
  BY DEF Sound
<1>2. PICK u : u = As(t, r)
  OBVIOUS
<1>3. u \in AnyTree
  BY <1>1, <1>2, AsIs, AnyTreeIs, AnyTreeTo
<1>4. /\ u.name = t.name /\ u.frames = t.frames /\ u.kids = t.kids
      /\ u.rel = r /\ u.group = t.group
  <2>1. PICK n, f, k, q, g :
          /\ n = t.name /\ f = t.frames /\ k = t.kids /\ g = t.group
          /\ t = Node(n, f, k, q, g)
    <3>1. t = Node(t.name, t.frames, t.kids, t.rel, t.group)
      BY <1>1, AnyTreeParts
    <3> QED
      BY <3>1, Zenon
  <2>2. u = Node(n, f, k, r, g)
    BY <1>2, <2>1, AsNode
  <2> QED
    BY <2>1, <2>2 DEF Node
<1>5. FewFrames(t) => FewFrames(u)
  BY <1>4 DEF FewFrames
<1>6. LeafLike(t) => LeafLike(u)
  BY <1>4, <1>5 DEF LeafLike
<1>7. GroupLike(t) => GroupLike(u)
  BY <1>4, <1>5 DEF GroupLike
<1> QED
  BY <1>2, <1>3, <1>4, <1>6, <1>7 DEF Sound

LEMMA LeavesSound ==
  ASSUME TracebackAssumption, NEW t \in AllLeaves
  PROVE  t \in AnyTree /\ LeafLike(t) /\ t.rel = "root" /\ Sound(t)
<1>1. t \in AnyTree
  BY LeavesDepth, AnyTreeIs
<1>2. PICK l \in Leaves : t = Leaf(l)
  BY DEF AllLeaves
<1>3. ~t.group /\ t.kids = <<>> /\ t.rel = "root" /\ t.frames = Frames(l)
  BY <1>2 DEF Leaf, Node
<1>4. FewFrames(t)
  <2>1. l \in Labels
    BY DEF Labels
  <2> QED
    BY <1>3, <2>1 DEF Frames, FewFrames
<1> QED
  BY <1>1, <1>3, <1>4 DEF LeafLike, Sound

LEMMA GroupSound ==
  ASSUME TracebackAssumption, NEW A, \A u \in A : Sound(u), NEW t \in AnyTree, IsGroupOf(t, A)
  PROVE  Sound(t) /\ t.rel = "root"
<1>1. PICK f \in GroupFrames, k \in GroupKids(A) : t = Node("group", f, k, "root", TRUE)
  BY DEF IsGroupOf
<1>2. t.group /\ t.name = "group" /\ t.kids = k /\ t.frames = f /\ t.rel = "root"
  BY <1>1 DEF Node
<1>3. FewFrames(t)
  <2>1. "group" \in Labels
    BY DEF Labels
  <2> QED
    BY <1>2, <2>1 DEF FewFrames, GroupFrames
<1>4. \A x \in Members(A) : Good(x) /\ x.rel = "member"
  BY SoundAs, SoundGood DEF Members, Rels
<1>5. \E x, y \in Members(A) : k = <<x>> \/ k = <<x, y>>
  BY DEF GroupKids
<1>6. PICK x \in Members(A), y \in Members(A) : k = <<x>> \/ k = <<x, y>>
  BY <1>5
<1>7. GroupLike(t)
  BY <1>2, <1>3, <1>4, <1>6 DEF GroupLike
<1> QED
  BY <1>2, <1>7 DEF Sound

LEMMA NestedSound ==
  ASSUME TracebackAssumption, NEW d \in Nat, d <= GroupDepth, NEW t \in Nested[d]
  PROVE  Sound(t) /\ t.rel = "root"
<1> DEFINE N == Nested
           Fine(e) == \A u \in N[e] : Sound(u) /\ u.rel = "root"
           T == {e \in Nat : \A n \in 0..e : n <= GroupDepth => Fine(n)}
<1>1. N[0] = AllLeaves
      /\ \A e \in Nat : \E n \in 0..e :
           \A u \in N[e + 1] : u \in AllLeaves \/ IsGroupOf(u, N[e] \cup N[n])
  BY NestedIs
<1>2. \A e \in Nat : e <= GroupDepth => N[e] \subseteq AnyTree
  <2>1. GroupDepth \in Nat /\ MaxChain \in Nat
    BY DEF TracebackAssumption
  <2>2. \A e \in Nat : e <= GroupDepth => e <= TreeDepth
    BY <2>1 DEF TreeDepth
  <2> QED
    BY <2>2, NestedDepth, AnyTreeIs
<1>3. GroupDepth \in Nat
  BY DEF TracebackAssumption
<1> HIDE DEF N
<1>4. 0 \in T
  BY <1>1, LeavesSound
<1>5. \A e \in Nat : e \in T => e + 1 \in T
  <2> SUFFICES ASSUME NEW e \in Nat, e \in T, e + 1 <= GroupDepth, NEW u \in N[e + 1]
               PROVE  Sound(u) /\ u.rel = "root"
    OBVIOUS
  <2>1. PICK n \in 0..e : u \in AllLeaves \/ IsGroupOf(u, N[e] \cup N[n])
    BY <1>1
  <2>2. Fine(e) /\ Fine(n)
    <3>1. e \in 0..e /\ e <= GroupDepth /\ n <= GroupDepth
      BY <1>3
    <3> QED
      BY <3>1
  <2>3. u \in AnyTree
    BY <1>2
  <2>4. CASE IsGroupOf(u, N[e] \cup N[n])
    <3>1. PICK A : A = N[e] \cup N[n]
      OBVIOUS
    <3>2. \A v \in A : Sound(v)
      BY <2>2, <3>1
    <3> QED
      BY <2>3, <2>4, <3>1, <3>2, GroupSound
  <2> QED
    BY <2>1, <2>4, LeavesSound
<1>6. \A e \in Nat : e \in T
  <2> HIDE DEF T
  <2> QED
    BY <1>4, <1>5, InductionOnNaturals
<1>7. d \in 0..d
  OBVIOUS
<1> QED
  BY <1>6, <1>7 DEF N

ChainLike(c) ==
  /\ c \in AnyTree /\ ~c.group /\ FewFrames(c)
  /\ \/ c.kids = <<>>
     \/ \E b : ChainGood(b) /\ b.rel \in {"cause", "context"} /\ c.kids = <<b>>

LEMMA ChainLikeGood == ASSUME TracebackAssumption, NEW c, ChainLike(c) PROVE ChainGood(c)
<1>1. CASE c.kids = <<>>
  BY <1>1, ChainEnd DEF ChainLike
<1>2. CASE \E b : ChainGood(b) /\ b.rel \in {"cause", "context"} /\ c.kids = <<b>>
  <2>1. PICK b : ChainGood(b) /\ b.rel \in {"cause", "context"} /\ c.kids = <<b>>
    BY <1>2
  <2> QED
    BY <2>1, ChainGrows DEF ChainLike
<1> QED
  BY <1>1, <1>2 DEF ChainLike

LEMMA ChainAs ==
  ASSUME TracebackAssumption, NEW t, ChainLike(t), NEW r \in Rels
  PROVE  ChainLike(As(t, r)) /\ As(t, r).rel = r
<1>1. t \in AnyTree
  BY DEF ChainLike
<1>2. PICK u : u = As(t, r)
  OBVIOUS
<1>3. u \in AnyTree
  BY <1>1, <1>2, AsIs, AnyTreeIs, AnyTreeTo
<1>4. u.frames = t.frames /\ u.kids = t.kids /\ u.rel = r /\ u.group = t.group
  <2>1. PICK n, f, k, q, g :
          /\ f = t.frames /\ k = t.kids /\ g = t.group
          /\ t = Node(n, f, k, q, g)
    <3>1. t = Node(t.name, t.frames, t.kids, t.rel, t.group)
      BY <1>1, AnyTreeParts
    <3> QED
      BY <3>1, Zenon
  <2>2. u = Node(n, f, k, r, g)
    BY <1>2, <2>1, AsNode
  <2> QED
    BY <2>1, <2>2 DEF Node
<1>5. FewFrames(t) => FewFrames(u)
  BY <1>4 DEF FewFrames
<1>6. ChainLike(u)
  BY <1>3, <1>4, <1>5 DEF ChainLike
<1> QED
  BY <1>2, <1>4, <1>6

LEMMA ChainsSound ==
  ASSUME TracebackAssumption, NEW n \in 1..MaxChain, NEW t \in Chains[n]
  PROVE  ChainLike(t) /\ t.rel = "root"
<1> DEFINE C == Chains
           F == TreesTo
           Fine(e) == \A u \in C[e] : ChainLike(u) /\ u.rel = "root" /\ u \in F[e - 1]
           T == {e \in Nat : e + 1 <= MaxChain => Fine(e + 1)}
<1>1. C[1] = AllLeaves
      /\ \A e \in Nat \ {0} : e + 1 <= MaxChain =>
           \A u \in C[e + 1] : IsChainOf(u, C[e])
  BY ChainsIs
<1>2. /\ \A e \in Nat : F[e + 1] = Level(Seq(F[e]))
      /\ \A d, e \in Nat : d <= e => F[d] \subseteq F[e]
      /\ \A e \in Nat : \A u \in F[e], r \in Rels : As(u, r) \in F[e]
      /\ AllLeaves \subseteq F[0]
  BY TreeLevels, TreesGrow, AsIs, LeavesDepth
<1>9. \A e \in Nat : AllLeaves \subseteq F[e]
  <2>1. \A e \in Nat : 0 <= e
    OBVIOUS
  <2>2. \A e \in Nat : TreesTo[0] \subseteq TreesTo[e]
    BY <2>1, TreesGrow
  <2> QED
    BY <2>2, LeavesDepth
<1>3. MaxChain \in Nat /\ GroupDepth \in Nat
  BY DEF TracebackAssumption
<1>4. \A e \in Nat : e <= MaxChain => F[e] \subseteq AnyTree
  <2>1. \A e \in Nat : e <= MaxChain => e <= TreeDepth
    BY <1>3 DEF TreeDepth
  <2> QED
    BY <2>1, AnyTreeIs
<1> HIDE DEF C, F
<1>5. 0 \in T
  <2>1. \A u \in AllLeaves : ChainLike(u) /\ u.rel = "root"
    BY LeavesSound DEF ChainLike, LeafLike
  <2>2. 0 + 1 = 1 /\ 1 - 1 = 0
    OBVIOUS
  <2> QED
    BY <1>1, <1>2, <2>1, <2>2
<1>6. \A e \in Nat : e \in T => e + 1 \in T
  <2> HIDE DEF Fine
  <2>0. SUFFICES ASSUME NEW e \in Nat, e \in T, (e + 1) + 1 <= MaxChain PROVE Fine((e + 1) + 1)
    <3>1. \A e \in Nat : e + 1 \in Nat
      OBVIOUS
    <3>2. \A e \in Nat : e \in T <=> (e + 1 <= MaxChain => Fine(e + 1))
      OBVIOUS
    <3> HIDE DEF T
    <3> QED
      BY ONLY <2>0, <3>1, <3>2
  <2> USE <2>0
  <2> USE DEF Fine
  <2> SUFFICES ASSUME NEW u \in C[(e + 1) + 1]
               PROVE  ChainLike(u) /\ u.rel = "root" /\ u \in F[((e + 1) + 1) - 1]
    OBVIOUS
  <2>1. e + 1 <= MaxChain /\ e + 1 \in Nat \ {0} /\ ((e + 1) + 1) - 1 = e + 1 /\ (e + 1) - 1 = e
    BY <1>3
  <2>2. IsChainOf(u, C[e + 1])
    BY <1>1, <2>1
  <2>3. Fine(e + 1)
    BY <2>1
  <2>4. PICK l \in AllLeaves, v \in C[e + 1], r \in {"cause", "context"} :
          u = [l EXCEPT !.kids = <<As(v, r)>>]
    BY <2>2 DEF IsChainOf
  <2>5. ChainLike(v) /\ v \in F[e]
    BY <2>1, <2>3
  <2>6. PICK b : b = As(v, r)
    OBVIOUS
  <2>7. ChainGood(b) /\ b.rel = r /\ b \in F[e]
    BY <1>2, <2>5, <2>6, ChainAs, ChainLikeGood DEF Rels
  <2>8. l \in AnyTree /\ LeafLike(l) /\ l.rel = "root"
    BY LeavesSound
  <2>9. u.kids = <<b>> /\ u.frames = l.frames /\ u.group = l.group /\ u.rel = l.rel
    <3>1. PICK m, f, k, q, g : l = Node(m, f, k, q, g)
      BY <2>8, AnyTreeParts
    <3>2. u = Node(m, f, <<b>>, q, g)
      BY <2>4, <2>6, <3>1, KidsNode
    <3> QED
      BY <3>1, <3>2 DEF Node
  <2>10. u \in F[e + 1]
    <3>1. <<b>> \in Seq(F[e])
      <4>1. PICK A : A = F[e]
        OBVIOUS
      <4>2. \A x \in A : <<x>> \in Seq(A)
        OBVIOUS
      <4> QED
        BY <2>7, <4>1, <4>2
    <3>2. l \in F[e + 1]
      BY <1>9, <2>1
    <3>3. l \in Level(Seq(F[e]))
      BY <1>2, <3>2
    <3>4. [l EXCEPT !.kids = <<b>>] \in Level(Seq(F[e]))
      BY <3>1, <3>3 DEF Level
    <3> QED
      BY <1>2, <2>4, <2>6, <3>4
  <2>11. u \in AnyTree
    BY <1>4, <2>1, <2>10
  <2>12. FewFrames(u)
    BY <2>8, <2>9 DEF FewFrames, LeafLike
  <2>13. ChainLike(u)
    BY <2>7, <2>8, <2>9, <2>11, <2>12 DEF ChainLike, LeafLike
  <2> QED
    BY <2>1, <2>8, <2>9, <2>10, <2>13
<1>7. \A e \in Nat : e \in T
  <2> HIDE DEF T
  <2> QED
    BY <1>5, <1>6, InductionOnNaturals
<1>8. n - 1 \in Nat /\ (n - 1) + 1 = n /\ n <= MaxChain
  BY <1>3
<1> QED
  BY <1>7, <1>8 DEF C

-----------------------------------------------------------------------------
(* How deep a text can be read *)

(* Sequences are made by appending. *)
LEMMA InductionOnSequences ==
  ASSUME NEW L, NEW P, <<>> \in P, \A w \in Seq(L), l \in L : w \in P => Append(w, l) \in P
  PROVE  Seq(L) \subseteq P
<1> SUFFICES ASSUME NEW w \in Seq(L) PROVE w \in P
  OBVIOUS
<1> DEFINE T == {n \in Nat : n <= Len(w) => SubSeq(w, 1, n) \in P}
<1>1. Len(w) \in Nat /\ w = SubSeq(w, 1, Len(w))
  BY SubSeqFull
<1>2. 0 \in T
  <2>1. SubSeq(w, 1, 0) = <<>>
    OBVIOUS
  <2> QED
    BY <2>1
<1>3. \A n \in Nat : n \in T => n + 1 \in T
  <2> SUFFICES ASSUME NEW n \in Nat, n \in T, n + 1 <= Len(w) PROVE SubSeq(w, 1, n + 1) \in P
    OBVIOUS
  <2>1. n <= Len(w) /\ n + 1 \in 1..Len(w) /\ w[n + 1] \in L
    BY <1>1
  <2>2. SubSeq(w, 1, n) \in Seq(L) /\ SubSeq(w, 1, n + 1) = Append(SubSeq(w, 1, n), w[n + 1])
    BY <2>1
  <2>3. SubSeq(w, 1, n) \in P
    BY <2>1
  <2> QED
    BY <2>1, <2>2, <2>3
<1>4. Len(w) \in T
  <2> HIDE DEF T
  <2> QED
    BY <1>1, <1>2, <1>3, InductionOnNaturals
<1> QED
  <2>1. SubSeq(w, 1, Len(w)) \in P
    BY <1>1, <1>4
  <2> QED
    BY <1>1, <2>1

(* The separators of a text: the lines that open or go on with a group *)
IsSeparator(l) == l.kind \in {"open", "next"}
Weight(l) == IF IsSeparator(l) THEN 1 ELSE 0
CountStep == [p \in Nat \X AnyLine |-> p[1] + Weight(p[2])]
Separators(w) == Fold(CountStep, 0, w)

LEMMA CountStepIs ==
  /\ 0 \in Nat /\ IsStep(CountStep, Nat, AnyLine)
  /\ \A n \in Nat, l \in AnyLine : CountStep[<<n, l>>] = n + Weight(l)
  /\ \A l : Weight(l) \in {0, 1}
<1>1. \A l : Weight(l) \in {0, 1}
  BY DEF Weight
<1>2. \A n \in Nat, l \in AnyLine : n + Weight(l) \in Nat
  BY <1>1
<1> QED
  BY <1>1, <1>2 DEF CountStep, IsStep

LEMMA SeparatorsAre ==
  /\ Separators(<<>>) = 0
  /\ \A w \in Seq(AnyLine) : Separators(w) \in Nat
  /\ \A w \in Seq(AnyLine), l \in AnyLine : Separators(Append(w, l)) = Separators(w) + Weight(l)
  /\ \A l \in AnyLine : Separators(<<l>>) = Weight(l)
<1>1. Separators(<<>>) = 0
  BY CountStepIs, FoldEmpty DEF Separators
<1>2. \A w \in Seq(AnyLine) : Separators(w) \in Nat
  BY CountStepIs, FoldType DEF Separators
<1>3. ASSUME NEW w \in Seq(AnyLine), NEW l \in AnyLine
      PROVE  Separators(Append(w, l)) = Separators(w) + Weight(l)
  <2>1. Separators(Append(w, l)) = CountStep[<<Separators(w), l>>]
    BY CountStepIs, FoldAppend DEF Separators
  <2> QED
    BY <1>2, <2>1, CountStepIs
<1>4. ASSUME NEW l \in AnyLine PROVE Separators(<<l>>) = Weight(l)
  <2>1. Separators(<<l>>) = CountStep[<<0, l>>]
    BY CountStepIs, FoldOne DEF Separators
  <2> QED
    BY <2>1, CountStepIs
<1> QED
  BY <1>1, <1>2, <1>3, <1>4

LEMMA SeparatorsAdd ==
  ASSUME NEW u \in Seq(AnyLine), NEW w \in Seq(AnyLine)
  PROVE  Separators(u \o w) = Separators(u) + Separators(w)
<1> DEFINE P == {v \in Seq(AnyLine) : Separators(u \o v) = Separators(u) + Separators(v)}
<1>1. <<>> \in P
  <2>1. u \o <<>> = u /\ <<>> \in Seq(AnyLine)
    OBVIOUS
  <2>2. Separators(<<>>) = 0 /\ Separators(u) \in Nat
    BY SeparatorsAre
  <2> QED
    BY <2>1, <2>2
<1>2. ASSUME NEW v \in Seq(AnyLine), NEW l \in AnyLine, v \in P PROVE Append(v, l) \in P
  <2>1. u \o Append(v, l) = Append(u \o v, l) /\ u \o v \in Seq(AnyLine)
        /\ Append(v, l) \in Seq(AnyLine)
    OBVIOUS
  <2>2. Separators(u) \in Nat /\ Separators(v) \in Nat /\ Weight(l) \in Nat
    BY SeparatorsAre, CountStepIs
  <2>3. Separators(Append(v, l)) = Separators(v) + Weight(l)
    BY SeparatorsAre
  <2>4. PICK c \in Seq(AnyLine) : c = u \o v /\ Append(c, l) = u \o Append(v, l)
    BY <2>1
  <2>5. Separators(Append(c, l)) = Separators(c) + Weight(l)
    BY SeparatorsAre
  <2>6. Separators(c) = Separators(u) + Separators(v)
    BY <1>2, <2>4
  <2>7. Separators(u \o Append(v, l)) = Separators(u) + Separators(Append(v, l))
    BY <2>2, <2>3, <2>4, <2>5, <2>6
  <2> QED
    BY <2>1, <2>7
<1>3. w \in P
  <2> HIDE DEF P
  <2> QED
    BY <1>1, <1>2, InductionOnSequences
<1> QED
  BY <1>3

(* A text without separators is none of a group. *)
LEMMA GroupSeparates ==
  ASSUME NEW w \in Seq(AnyLine)
  PROVE  IsGroup(w) <=> Separators(w) # 0
<1> DEFINE P == {v \in Seq(AnyLine) : IsGroup(v) <=> Separators(v) # 0}
<1>1. <<>> \in P
  BY SeparatorsAre DEF IsGroup
<1>2. ASSUME NEW v \in Seq(AnyLine), NEW l \in AnyLine, v \in P PROVE Append(v, l) \in P
  <2>1. Append(v, l) \in Seq(AnyLine) /\ DOMAIN Append(v, l) = 1..(Len(v) + 1) /\ DOMAIN v = 1..Len(v)
        /\ Append(v, l)[Len(v) + 1] = l /\ \A n \in 1..Len(v) : Append(v, l)[n] = v[n]
        /\ Len(v) \in Nat
    OBVIOUS
  <2>2. PICK c \in Seq(AnyLine) : c = Append(v, l) /\ DOMAIN c = 1..(Len(v) + 1)
          /\ c[Len(v) + 1] = l /\ \A n \in 1..Len(v) : c[n] = v[n]
    BY <2>1
  <2>3. IsGroup(c) <=> IsGroup(v) \/ IsSeparator(l)
    BY <2>1, <2>2 DEF IsGroup, IsSeparator
  <2>4. Separators(c) = Separators(v) + Weight(l) /\ Separators(v) \in Nat
    BY <2>2, SeparatorsAre
  <2>5. Weight(l) # 0 <=> IsSeparator(l)
    BY DEF Weight
  <2>6. Separators(c) # 0 <=> Separators(v) # 0 \/ IsSeparator(l)
    BY <2>4, <2>5, CountStepIs
  <2>7. IsGroup(v) <=> Separators(v) # 0
    BY <1>2
  <2> QED
    BY <2>2, <2>3, <2>6, <2>7
<1>3. w \in P
  <2> HIDE DEF P
  <2> QED
    BY <1>1, <1>2, InductionOnSequences
<1> QED
  BY <1>3

(* Every member has fewer separators than the group. *)
IsFlatter(s, n) ==
  /\ IF s.inside THEN Separators(s.block) < n ELSE s.block = <<>>
  /\ \A b \in DOMAIN s.blocks : Separators(s.blocks[b]) < n

LEMMA FlatterStep ==
  ASSUME NEW s \in SplitState, NEW n \in Nat, NEW l \in AnyLine, IsFlatter(s, n)
  PROVE  IsFlatter(SplitStep[<<s, l>>], n + Weight(l))
<1> DEFINE z == SplitLine(s, l)
           m == n + Weight(l)
<1>1. SplitStep[<<s, l>>] = z
  BY SplitStepIs
<1>2. s.blocks \in Seq(Lines) /\ s.block \in Seq(AnyLine) /\ s.depth \in Nat
      /\ s.inside \in BOOLEAN /\ Separators(s.block) \in Nat
  BY LinesAre, SeparatorsAre DEF SplitState
<1>3. \A b \in DOMAIN s.blocks : Separators(s.blocks[b]) \in Nat
  BY <1>2, LinesAre, SeparatorsAre
<1>4. Weight(l) \in Nat /\ m \in Nat /\ n <= m /\ (IsSeparator(l) => m = n + 1)
  BY CountStepIs DEF Weight
<1> HIDE DEF m
<1>5. ASSUME NEW d, s.inside PROVE IsFlatter(Keep(s, l, d), m)
  <2> DEFINE k == Keep(s, l, d)
  <2>1. k.block = Append(s.block, l) /\ k.blocks = s.blocks /\ k.inside = s.inside
    BY DEF Keep, SplitState
  <2>2. Separators(Append(s.block, l)) = Separators(s.block) + Weight(l)
    BY <1>2, SeparatorsAre
  <2>3. Separators(s.block) < n /\ \A b \in DOMAIN s.blocks : Separators(s.blocks[b]) < n
    BY <1>5 DEF IsFlatter
  <2> HIDE DEF k
  <2>4. Separators(k.block) < m
    BY <1>2, <1>4, <2>1, <2>2, <2>3 DEF m
  <2>5. \A b \in DOMAIN k.blocks : Separators(k.blocks[b]) < m
    BY <1>3, <1>4, <2>1, <2>3
  <2>6. IsFlatter(k, m)
    BY <1>5, <2>1, <2>4, <2>5 DEF IsFlatter
  <2> QED
    BY <2>6 DEF k
<1>6. LET f == Flush(s) IN
      /\ f.block = <<>> /\ \A b \in DOMAIN f.blocks : Separators(f.blocks[b]) < m
  <2>1. CASE s.inside /\ s.block # <<>>
    <3> DEFINE c == Append(s.blocks, s.block)
    <3>1. Flush(s).block = <<>> /\ Flush(s).blocks = c
      BY <2>1 DEF Flush, SplitState
    <3>2. \A b \in DOMAIN c : (b \in DOMAIN s.blocks /\ c[b] = s.blocks[b]) \/ c[b] = s.block
      BY <1>2
    <3> HIDE DEF c
    <3> QED
      BY <1>2, <1>3, <1>4, <2>1, <3>1, <3>2 DEF IsFlatter
  <2>2. CASE ~(s.inside /\ s.block # <<>>)
    <3>1. Flush(s) = s
      BY <2>2 DEF Flush
    <3> QED
      BY <1>2, <1>3, <1>4, <2>2, <3>1 DEF IsFlatter
  <2> QED
    BY <2>1, <2>2
<1>7. ASSUME NEW b \in BOOLEAN, b => m > 0 PROVE IsFlatter([Flush(s) EXCEPT !.inside = b], m)
  <2> DEFINE f == [Flush(s) EXCEPT !.inside = b]
  <2>1. Flush(s) \in SplitState
    BY FlushIs
  <2>2. f.block = Flush(s).block /\ f.blocks = Flush(s).blocks /\ f.inside = b
    BY <2>1 DEF SplitState
  <2> HIDE DEF f
  <2>3. Separators(<<>>) = 0
    BY SeparatorsAre
  <2>4. IsFlatter(f, m)
    BY <1>4, <1>6, <1>7, <2>2, <2>3 DEF IsFlatter
  <2> QED
    BY <2>4 DEF f
<1>8. ASSUME ~s.inside PROVE IsFlatter(s, m) /\ (m > 0 => IsFlatter([s EXCEPT !.inside = TRUE], m))
  <2> DEFINE f == [s EXCEPT !.inside = TRUE]
  <2>1. f.block = s.block /\ f.blocks = s.blocks /\ f.inside = TRUE
    BY DEF SplitState
  <2> HIDE DEF f
  <2>2. s.block = <<>> /\ Separators(s.block) = 0 /\ \A b \in DOMAIN s.blocks : Separators(s.blocks[b]) < m
    BY <1>3, <1>4, <1>8, SeparatorsAre DEF IsFlatter
  <2>3. IsFlatter(s, m) /\ (m > 0 => IsFlatter(f, m))
    BY <1>4, <1>8, <2>1, <2>2 DEF IsFlatter
  <2> QED
    BY <2>3 DEF f
<1>9. l.kind \in {"open", "next"} => m > 0
  BY <1>4 DEF IsSeparator
<1>10. IsFlatter(z, m)
  BY <1>2, <1>5, <1>7, <1>8, <1>9 DEF SplitLine
<1> QED
  BY <1>1, <1>10 DEF m

LEMMA SplitFlatter ==
  ASSUME NEW w \in Lines
  PROVE  \A b \in DOMAIN Split(w) : Separators(Split(w)[b]) < Separators(w)
<1> DEFINE End(v) == Fold(SplitStep, SplitStart, v)
           P == {v \in Seq(AnyLine) : IsFlatter(End(v), Separators(v))}
           end == End(w)
<1>1. w \in Seq(AnyLine) /\ Separators(w) \in Nat
  BY LinesAre, SeparatorsAre
<1>2. <<>> \in P
  <2>1. End(<<>>) = SplitStart
    BY SplitStepIs, FoldEmpty
  <2>2. IsFlatter(SplitStart, 0)
    <3>1. SplitStart.inside = FALSE /\ SplitStart.block = <<>> /\ SplitStart.blocks = <<>>
      BY DEF SplitStart
    <3>2. DOMAIN SplitStart.blocks = {}
      BY <3>1
    <3> HIDE DEF SplitStart
    <3> QED
      BY <3>1, <3>2 DEF IsFlatter
  <2> QED
    BY <2>1, <2>2, SeparatorsAre
<1>3. ASSUME NEW v \in Seq(AnyLine), NEW l \in AnyLine, v \in P PROVE Append(v, l) \in P
  <2>1. End(Append(v, l)) = SplitStep[<<End(v), l>>] /\ End(v) \in SplitState
    BY SplitStepIs, FoldAppend, FoldType
  <2>2. Separators(Append(v, l)) = Separators(v) + Weight(l) /\ Separators(v) \in Nat
        /\ Append(v, l) \in Seq(AnyLine)
    BY SeparatorsAre
  <2>3. IsFlatter(End(v), Separators(v))
    BY <1>3
  <2> HIDE DEF End
  <2>4. IsFlatter(SplitStep[<<End(v), l>>], Separators(v) + Weight(l))
    BY <2>1, <2>2, <2>3, FlatterStep
  <2> QED
    BY <2>1, <2>2, <2>4
<1>4. w \in P
  <2> HIDE DEF P
  <2> QED
    BY <1>1, <1>2, <1>3, InductionOnSequences
<1>5. IsFlatter(end, Separators(w)) /\ end \in SplitState
  BY <1>1, <1>4, SplitStepIs, FoldType
<1>6. Split(w) = IF end.block = <<>> THEN end.blocks ELSE Append(end.blocks, end.block)
  BY SplitFolds
<1> HIDE DEF end, P
<1>7. end.blocks \in Seq(Lines) /\ end.block \in Lines /\ end.inside \in BOOLEAN
  BY <1>5 DEF SplitState
<1>8. CASE end.block = <<>>
  BY <1>5, <1>6, <1>7, <1>8 DEF IsFlatter
<1>9. CASE end.block # <<>>
  <2> DEFINE c == Append(end.blocks, end.block)
  <2>1. \A b \in DOMAIN c : (b \in DOMAIN end.blocks /\ c[b] = end.blocks[b]) \/ c[b] = end.block
    BY <1>7
  <2>2. Split(w) = c
    BY <1>6, <1>9
  <2> HIDE DEF c
  <2>3. Separators(end.block) < Separators(w)
        /\ \A b \in DOMAIN end.blocks : Separators(end.blocks[b]) < Separators(w)
    BY <1>5, <1>7, <1>9 DEF IsFlatter
  <2> QED
    BY <2>1, <2>2, <2>3
<1> QED
  BY <1>8, <1>9

(* A text is read as a tree no deeper than it has separators. *)
LEMMA GroupDepthIs ==
  \A n \in Nat : \A w \in Lines :
    IsGroup(w) /\ Separators(w) <= n => ParseGroup[w] \in TreesTo[n]
<1> DEFINE F == TreesTo
           Fine(n) == \A w \in Lines : IsGroup(w) /\ Separators(w) <= n => ParseGroup[w] \in F[n]
           T == {n \in Nat : Fine(n)}
<1>1. /\ F[0] = Level({<<>>}) /\ \A d \in Nat : F[d + 1] = Level(Seq(F[d]))
      /\ \A d \in Nat : F[0] \subseteq F[d]
      /\ \A d \in Nat : \A t \in F[d] : As(t, "member") \in F[d]
  <2>1. \A d \in Nat : 0 <= d
    OBVIOUS
  <2> QED
    BY <2>1, TreeLevels, TreesGrow, AsIs DEF Rels
<1> HIDE DEF F
<1>2. 0 \in T
  BY LinesAre, SeparatorsAre, GroupSeparates
<1>3. \A n \in Nat : n \in T => n + 1 \in T
  <2> HIDE DEF Fine
  <2> SUFFICES ASSUME NEW n \in Nat, Fine(n) PROVE Fine(n + 1)
    OBVIOUS
  <2> USE DEF Fine
  <2> SUFFICES ASSUME NEW w \in Lines, Separators(w) <= n + 1 PROVE ParseGroup[w] \in F[n + 1]
    BY DEF Fine
  <2>1. PICK c \in Seq(Lines) : c = Split(w)
    BY SplitShorter
  <2>2. ASSUME NEW b \in Lines, Separators(b) < Separators(w) PROVE Member(ParseGroup, b) \in F[n]
    <3>1. Separators(b) \in Nat /\ Separators(w) \in Nat
      BY LinesAre, SeparatorsAre
    <3>2. Separators(b) <= n
      BY <2>2, <3>1
    <3>3. IsGroup(b) => ParseGroup[b] \in F[n]
      BY <3>2
    <3>4. ParseSimple(b) \in F[n]
      <4>1. ParseSimple(b) \in F[0]
        <5>1. Read(b) \in ReadState
          BY ReadFolds
        <5>2. <<>> \in {<<>>}
          OBVIOUS
        <5> QED
          BY <1>1, <5>1 DEF ParseSimple, Node, Level, Rels, ReadState
      <4> QED
        BY <1>1, <4>1
    <3>5. (IF IsGroup(b) THEN ParseGroup[b] ELSE ParseSimple(b)) \in F[n]
      BY <3>3, <3>4
    <3> QED
      BY <1>1, <3>5 DEF Member
  <2>3. [b \in DOMAIN c |-> Member(ParseGroup, c[b])] \in Seq(F[n])
    <3>1. Len(c) \in Nat /\ DOMAIN c = 1..Len(c) /\ \A b \in 1..Len(c) : c[b] \in Lines
      OBVIOUS
    <3>2. \A b \in 1..Len(c) : Separators(c[b]) < Separators(w)
      BY <2>1, <3>1, SplitFlatter
    <3>3. \A b \in 1..Len(c) : Member(ParseGroup, c[b]) \in F[n]
      BY <2>2, <3>1, <3>2
    <3>4. [b \in 1..Len(c) |-> Member(ParseGroup, c[b])] \in Seq(F[n])
      BY <3>1, <3>3
    <3> QED
      BY <3>1, <3>4
  <2>4. ParseGroup[w] = GroupOf(ParseGroup, w)
    BY ParseGroupIs
  <2>5. Read(Header(w)) \in ReadState /\ "group" \in Labels
    BY HeaderIs, ReadFolds DEF Labels
  <2>6. GroupOf(ParseGroup, w) \in Level(Seq(F[n]))
    BY <2>1, <2>3, <2>5 DEF GroupOf, Node, Level, Rels, ReadState
  <2> QED
    BY <1>1, <2>4, <2>6
<1>4. \A n \in Nat : n \in T
  <2> HIDE DEF T
  <2> QED
    BY <1>2, <1>3, InductionOnNaturals
<1> QED
  BY <1>4 DEF F

(* How an exception came to be is not part of its text. *)
LEMMA AsText ==
  ASSUME TracebackAssumption, NEW t \in AnyTree, NEW r \in Rels
  PROVE  TextOf(As(t, r)) = TextOf(t)
<1>1. PICK u : u = As(t, r)
  OBVIOUS
<1>2. u \in AnyTree
  BY <1>1, AsIs, AnyTreeIs, AnyTreeTo
<1>3. u.name = t.name /\ u.frames = t.frames /\ u.kids = t.kids /\ u.group = t.group
  <2>1. PICK n, f, k, q, g :
          /\ n = t.name /\ f = t.frames /\ k = t.kids /\ g = t.group
          /\ t = Node(n, f, k, q, g)
    <3>1. t = Node(t.name, t.frames, t.kids, t.rel, t.group)
      BY AnyTreeParts
    <3> QED
      BY <3>1, Zenon
  <2>2. u = Node(n, f, k, r, g)
    BY <1>1, <2>1, AsNode
  <2> QED
    BY <2>1, <2>2 DEF Node
<1>4. LinesOf(Render, u) = LinesOf(Render, t)
  BY <1>3, Zenon DEF LinesOf, OwnLines, FrameLines, MemberLines
<1> QED
  BY <1>1, <1>2, <1>4, RenderIs DEF TextOf

LEMMA OwnWeightless ==
  ASSUME TracebackAssumption, NEW t \in AnyTree, FewFrames(t)
  PROVE  Separators(OwnLines(t)) = 0
<1>1. \A n \in DOMAIN OwnLines(t) : OwnLines(t)[n].kind \in {"header", "frame", "error"}
  BY OwnPlain
<1>2. ~IsGroup(OwnLines(t))
  BY <1>1 DEF IsGroup
<1> QED
  BY <1>2, OwnLinesAre, GroupSeparates

LEMMA RulesWeigh ==
  /\ Separators(<<Opens>>) = 1 /\ Separators(<<Next_>>) = 1
  /\ \A t : Separators(LastRule(t)) = 0
<1>1. Opens \in AnyLine /\ Next_ \in AnyLine /\ Closes \in AnyLine
  BY DEF Opens, Next_, Closes, Line, AnyLine, Labels
<1>2. Weight(Opens) = 1 /\ Weight(Next_) = 1 /\ Weight(Closes) = 0
  BY DEF Weight, IsSeparator, Opens, Next_, Closes, Line
<1> QED
  BY <1>1, <1>2, SeparatorsAre DEF LastRule

LEMMA Joined ==
  ASSUME NEW u \in Seq(AnyLine), NEW w \in Seq(AnyLine)
  PROVE  \E v \in Seq(AnyLine) : v = u \o w /\ Separators(v) = Separators(u) + Separators(w)
<1>1. u \o w \in Seq(AnyLine) /\ Separators(u \o w) = Separators(u) + Separators(w)
  BY SeparatorsAdd
<1> QED
  BY <1>1

LEMMA GroupWeighs ==
  ASSUME TracebackAssumption, NEW t \in AnyTree, t.group, FewFrames(t),
         NEW x, Good(x), NEW y, Good(y)
  PROVE  /\ t.kids = <<x>> => Separators(TextOf(t)) = 1 + Separators(TextOf(x))
         /\ t.kids = <<x, y>> =>
              Separators(TextOf(t)) = 2 + Separators(TextOf(x)) + Separators(TextOf(y))
<1>1. ASSUME NEW z, Good(z)
      PROVE  /\ LastText(z) \in Seq(AnyLine) /\ TextOf(z) \in Seq(AnyLine)
             /\ Separators(LastText(z)) = Separators(TextOf(z)) /\ Separators(TextOf(z)) \in Nat
  <2>1. PICK u \in Seq(AnyLine), v \in Seq(AnyLine) : u = TextOf(z) /\ v = LastRule(z)
    BY <1>1, TextsAre DEF Good
  <2>2. u \o v \in Seq(AnyLine) /\ Separators(u \o v) = Separators(u) + Separators(v)
    BY SeparatorsAdd
  <2>3. Separators(v) = 0 /\ Separators(u) \in Nat
    BY <2>1, RulesWeigh, SeparatorsAre
  <2> QED
    BY <2>1, <2>2, <2>3 DEF LastText
<1>2. PICK own \in Seq(AnyLine), o \in Seq(AnyLine), n \in Seq(AnyLine) :
        /\ own = OwnLines(t) /\ o = <<Opens>> /\ n = <<Next_>>
        /\ Separators(own) = 0 /\ Separators(o) = 1 /\ Separators(n) = 1
  BY OwnLinesAre, TextsAre, OwnWeightless, RulesWeigh
<1>3. PICK tx \in Seq(AnyLine), lx \in Seq(AnyLine), ly \in Seq(AnyLine) :
        /\ tx = TextOf(x) /\ lx = LastText(x) /\ ly = LastText(y)
        /\ Separators(lx) = Separators(tx) /\ Separators(ly) = Separators(TextOf(y))
        /\ Separators(tx) \in Nat /\ Separators(TextOf(y)) \in Nat
  BY <1>1
<1>4. ASSUME NEW w \in Seq(AnyLine), Separators(w) \in Nat
      PROVE  Separators(own \o (o \o w)) = 1 + Separators(w)
  <2>1. PICK v \in Seq(AnyLine) : v = o \o w /\ Separators(v) = Separators(o) + Separators(w)
    BY Joined
  <2>2. Separators(v) = 1 + Separators(w)
    BY <1>2, <2>1
  <2>3. Separators(own \o v) = Separators(own) + Separators(v)
    BY SeparatorsAdd
  <2> QED
    BY <1>2, <1>4, <2>1, <2>2, <2>3
<1>5. t.kids = <<x>> => Separators(TextOf(t)) = 1 + Separators(TextOf(x))
  <2>1. t.kids = <<x>> => TextOf(t) = own \o (o \o lx)
    BY <1>2, <1>3, GroupText
  <2> QED
    BY <1>3, <1>4, <2>1
<1>6. t.kids = <<x, y>> => Separators(TextOf(t)) = 2 + Separators(TextOf(x)) + Separators(TextOf(y))
  <2>1. PICK a \in Seq(AnyLine) : a = n \o ly /\ Separators(a) = Separators(n) + Separators(ly)
    BY Joined
  <2>2. PICK b \in Seq(AnyLine) : b = tx \o a /\ Separators(b) = Separators(tx) + Separators(a)
    BY Joined
  <2>3. t.kids = <<x, y>> => TextOf(t) = own \o (o \o b)
    <3>1. t.kids = <<x, y>> => TextOf(t) = OwnLines(t) \o (<<Opens>> \o TwoText(x, y))
      BY GroupText
    <3>2. TwoText(x, y) = tx \o (n \o ly)
      BY <1>2, <1>3 DEF TwoText
    <3> QED
      BY <1>2, <2>1, <2>2, <3>1, <3>2
  <2>4. Separators(b) \in Nat /\ 1 + Separators(b) = 2 + Separators(TextOf(x)) + Separators(TextOf(y))
    BY <1>2, <1>3, <2>1, <2>2
  <2> QED
    BY <1>4, <2>3, <2>4
<1> QED
  BY <1>5, <1>6

IsFlat(A, p) == \A t \in A : Sound(t) /\ Separators(TextOf(t)) <= p

LEMMA LeavesFlat == ASSUME TracebackAssumption PROVE IsFlat(AllLeaves, 0)
<1> SUFFICES ASSUME NEW t \in AllLeaves PROVE Sound(t) /\ Separators(TextOf(t)) <= 0
  BY DEF IsFlat
<1>1. t \in AnyTree /\ LeafLike(t) /\ Sound(t)
  BY LeavesSound
<1>2. TextOf(t) = OwnLines(t)
  BY <1>1, LeafGood DEF LeafLike
<1>3. Separators(OwnLines(t)) = 0
  BY <1>1, OwnWeightless DEF LeafLike
<1> QED
  BY <1>1, <1>2, <1>3

(* A member of a group of A and B *)
LEMMA MemberFlat ==
  ASSUME TracebackAssumption, NEW A, NEW p \in Nat, IsFlat(A, p), NEW x \in Members(A)
  PROVE  Good(x) /\ Separators(TextOf(x)) \in Nat /\ Separators(TextOf(x)) <= p
<1>1. PICK t \in A : x = As(t, "member")
  BY DEF Members
<1>2. Sound(t) /\ Separators(TextOf(t)) <= p /\ t \in AnyTree
  BY DEF IsFlat, Sound
<1>3. Sound(x) /\ Good(x)
  BY <1>1, <1>2, SoundAs, SoundGood DEF Rels
<1>4. TextOf(x) = TextOf(t) /\ TextOf(x) \in Seq(AnyLine)
  BY <1>1, <1>2, <1>3, AsText DEF Rels, Good
<1> QED
  BY <1>2, <1>3, <1>4, SeparatorsAre

LEMMA GroupsFlat ==
  ASSUME TracebackAssumption, NEW A, NEW B, NEW b, NEW p \in Nat, NEW q \in Nat,
         IsFlat(A, p), IsFlat(B, q), NEW t \in GroupsOf(A, B, b), Sound(t)
  PROVE  Separators(TextOf(t)) <= 2 + p + q
<1>1. PICK k \in {<<u>> : u \in Members(A)} \cup (Members(A) \X Members(B)) \cup (Members(B) \X Members(A)) :
        t = Node("group", IF b THEN <<"group">> ELSE <<>>, k, "root", TRUE)
  BY DEF GroupsOf
<1>2. t.kids = k /\ t.group /\ t \in AnyTree /\ FewFrames(t)
  <2>1. t.kids = k /\ t.group
    BY <1>1 DEF Node
  <2> QED
    BY <2>1 DEF Sound, LeafLike, GroupLike
<1>3. CASE \E x \in Members(A) : k = <<x>>
  <2>1. PICK x \in Members(A) : k = <<x>>
    BY <1>3
  <2>2. Good(x) /\ Separators(TextOf(x)) \in Nat /\ Separators(TextOf(x)) <= p
    BY MemberFlat
  <2>3. Separators(TextOf(t)) = 1 + Separators(TextOf(x))
    BY <1>2, <2>1, <2>2, GroupWeighs
  <2> QED
    BY <2>2, <2>3
<1>4. CASE \E x \in Members(A), y \in Members(B) : k = <<x, y>> \/ k = <<y, x>>
  <2>1. PICK x \in Members(A), y \in Members(B) : k = <<x, y>> \/ k = <<y, x>>
    BY <1>4
  <2>2. /\ Good(x) /\ Separators(TextOf(x)) \in Nat /\ Separators(TextOf(x)) <= p
        /\ Good(y) /\ Separators(TextOf(y)) \in Nat /\ Separators(TextOf(y)) <= q
    BY MemberFlat
  <2>3. Separators(TextOf(t)) = 2 + Separators(TextOf(x)) + Separators(TextOf(y))
    <3>1. k = <<x, y>> => Separators(TextOf(t)) = 2 + Separators(TextOf(x)) + Separators(TextOf(y))
      BY <1>2, <2>2, GroupWeighs
    <3>2. k = <<y, x>> => Separators(TextOf(t)) = 2 + Separators(TextOf(y)) + Separators(TextOf(x))
      BY <1>2, <2>2, GroupWeighs
    <3> QED
      BY <2>1, <2>2, <3>1, <3>2
  <2> QED
    BY <2>2, <2>3
<1> QED
  BY <1>3, <1>4

(* Groups nested to a depth: of two members, one adds at most two. *)
LEMMA NestedFlat ==
  ASSUME TracebackAssumption
  PROVE  IsFlat(Nested[GroupDepth], 4 * GroupDepth)
<1> DEFINE N == Nested
           Fine(d) == d + 1 <= GroupDepth => IsFlat(N[d + 1], 4 * d + 2)
           T == {d \in Nat : Fine(d)}
<1>1. GroupDepth \in Nat /\ N[0] = AllLeaves
  BY NestedEquations DEF TracebackAssumption
<1>2. PICK b : \A d \in Nat : N[d + 1] = AllLeaves \cup GroupsOf(N[d], N[IF d = 0 THEN 0 ELSE 1], b)
  BY NestedEquations
<1>3. \A d \in Nat : d <= GroupDepth => \A t \in N[d] : Sound(t)
  BY NestedSound
<1>4. IsFlat(N[0], 0)
  BY <1>1, LeavesFlat
<1> HIDE DEF N
<1>5. ASSUME NEW d \in Nat, d + 1 <= GroupDepth, NEW p \in Nat, NEW q \in Nat, NEW m,
             IsFlat(N[d], p), IsFlat(N[m], q), N[d + 1] = AllLeaves \cup GroupsOf(N[d], N[m], b)
      PROVE  IsFlat(N[d + 1], 2 + p + q)
  <2> SUFFICES ASSUME NEW t \in N[d + 1] PROVE Sound(t) /\ Separators(TextOf(t)) <= 2 + p + q
    BY DEF IsFlat
  <2>1. Sound(t) /\ TextOf(t) \in Seq(AnyLine)
    BY <1>3, <1>5, SoundGood DEF Good
  <2>2. CASE t \in AllLeaves
    <3>1. Separators(TextOf(t)) <= 0 /\ Separators(TextOf(t)) \in Nat
      BY <2>1, <2>2, LeavesFlat, SeparatorsAre DEF IsFlat
    <3> QED
      BY <2>1, <3>1
  <2>3. CASE t \in GroupsOf(N[d], N[m], b)
    BY <1>5, <2>1, <2>3, GroupsFlat
  <2> QED
    BY <1>5, <2>2, <2>3
<1>6. 0 \in T
  <2>1. N[0 + 1] = AllLeaves \cup GroupsOf(N[0], N[0], b)
    BY <1>2
  <2>2. 0 + 1 <= GroupDepth => IsFlat(N[0 + 1], 2 + 0 + 0)
    BY <1>4, <1>5, <2>1
  <2>3. 2 + 0 + 0 = 4 * 0 + 2
    OBVIOUS
  <2> QED
    BY <2>2, <2>3
<1>7. \A d \in Nat : d \in T => d + 1 \in T
  <2> HIDE DEF Fine
  <2>1. Fine(0)
    BY <1>6
  <2> SUFFICES ASSUME NEW d \in Nat, Fine(d) PROVE Fine(d + 1)
    OBVIOUS
  <2> USE DEF Fine
  <2> SUFFICES ASSUME (d + 1) + 1 <= GroupDepth PROVE IsFlat(N[(d + 1) + 1], 4 * (d + 1) + 2)
    BY DEF Fine
  <2>2. d + 1 <= GroupDepth /\ 0 + 1 <= GroupDepth /\ d + 1 \in Nat /\ d + 1 # 0 /\ 0 + 1 = 1
        /\ 4 * d + 2 \in Nat /\ 4 * 0 + 2 = 2 /\ 2 + (4 * d + 2) + 2 = 4 * (d + 1) + 2
    BY <1>1
  <2>3. IsFlat(N[d + 1], 4 * d + 2) /\ IsFlat(N[1], 2)
    BY <2>1, <2>2
  <2>4. N[(d + 1) + 1] = AllLeaves \cup GroupsOf(N[d + 1], N[1], b)
    BY <1>2, <2>2
  <2>5. IsFlat(N[(d + 1) + 1], 2 + (4 * d + 2) + 2)
    BY <1>5, <2>2, <2>3, <2>4
  <2> QED
    BY <2>2, <2>5
<1>8. \A d \in Nat : d \in T
  <2> HIDE DEF T
  <2> QED
    BY <1>6, <1>7, InductionOnNaturals
<1>9. IsFlat(N[GroupDepth], 4 * GroupDepth)
  <2>1. CASE GroupDepth = 0
    BY <1>4, <2>1
  <2>2. CASE GroupDepth # 0
    <3>1. PICK d \in Nat : d = GroupDepth - 1 /\ d + 1 = GroupDepth /\ 4 * d + 2 <= 4 * GroupDepth
                           /\ 4 * d + 2 \in Nat /\ 4 * GroupDepth \in Nat
      BY <1>1, <2>2
    <3>2. IsFlat(N[GroupDepth], 4 * d + 2)
      <4>1. Fine(d)
        BY <1>8
      <4> QED
        BY <1>1, <3>1, <4>1
    <3>3. \A t \in N[GroupDepth] : Separators(TextOf(t)) \in Nat
      BY <1>1, <1>3, SoundGood, SeparatorsAre DEF Good
    <3> QED
      BY <3>1, <3>2, <3>3 DEF IsFlat
  <2> QED
    BY <2>1, <2>2
<1> QED
  BY <1>9 DEF N

-----------------------------------------------------------------------------
(* The rows of the panel *)

RowOf == Nat \X (Rels \cup {"frame"}) \X Labels
Places == AnyTree \X Nat
Top(t, d) == <<<<d, t.rel, t.name>>>>
FrameRows(t, d) == [k \in DOMAIN t.frames |-> <<d + 1, "frame", t.frames[k]>>]
RowsOf(f, t, d) ==
  Top(t, d) \o FrameRows(t, d)
  \o FlattenSeq([k \in DOMAIN t.kids |-> f[<<t.kids[k], d + 1>>]])

LEMMA RowsOfType ==
  ASSUME TracebackAssumption, NEW f \in [Places -> Seq(RowOf)], NEW t \in AnyTree, NEW d \in Nat
  PROVE  RowsOf(f, t, d) \in Seq(RowOf) /\ RowsOf(f, t, d) # <<>>
<1>1. PICK fr \in Seq(Labels), kids \in Seq(AnyTree) : fr = t.frames /\ kids = t.kids
  BY AnyTreeParts
<1>2. t.rel \in Rels /\ t.name \in Labels
  BY AnyTreeParts
<1>3. <<d, t.rel, t.name>> \in RowOf
  BY <1>2 DEF RowOf
<1>4. PICK r \in RowOf : r = <<d, t.rel, t.name>>
  BY <1>3
<1>5. FrameRows(t, d) \in Seq(RowOf)
  <2>1. Len(fr) \in Nat /\ DOMAIN fr = 1..Len(fr) /\ \A k \in 1..Len(fr) : fr[k] \in Labels
    OBVIOUS
  <2>2. \A k \in 1..Len(fr) : <<d + 1, "frame", fr[k]>> \in RowOf
    BY <2>1 DEF RowOf
  <2>3. [k \in 1..Len(fr) |-> <<d + 1, "frame", fr[k]>>] \in Seq(RowOf)
    BY <2>1, <2>2
  <2> QED
    BY <1>1, <2>1, <2>3 DEF FrameRows
<1>6. [k \in DOMAIN t.kids |-> f[<<t.kids[k], d + 1>>]] \in Seq(Seq(RowOf))
  <2>1. Len(kids) \in Nat /\ DOMAIN kids = 1..Len(kids) /\ \A k \in 1..Len(kids) : kids[k] \in AnyTree
    OBVIOUS
  <2>2. \A k \in 1..Len(kids) : f[<<kids[k], d + 1>>] \in Seq(RowOf)
    BY <2>1 DEF Places
  <2>3. [k \in 1..Len(kids) |-> f[<<kids[k], d + 1>>]] \in Seq(Seq(RowOf))
    BY <2>1, <2>2
  <2> QED
    BY <1>1, <2>1, <2>3
<1>7. PICK a \in Seq(RowOf), b \in Seq(RowOf) :
        /\ a = FrameRows(t, d)
        /\ b = FlattenSeq([k \in DOMAIN t.kids |-> f[<<t.kids[k], d + 1>>]])
  BY <1>5, <1>6, FlattenType
<1>8. (<<r>> \o a) \o b \in Seq(RowOf) /\ (<<r>> \o a) \o b # <<>>
  <2>1. <<r>> \in Seq(RowOf) /\ Len(<<r>>) = 1
    OBVIOUS
  <2>2. PICK c \in Seq(RowOf) : c = <<r>> /\ Len(c) = 1
    BY <2>1
  <2>3. Len((c \o a) \o b) = 1 + Len(a) + Len(b) /\ Len(a) \in Nat /\ Len(b) \in Nat
        /\ (c \o a) \o b \in Seq(RowOf)
    BY <2>2
  <2>4. Len((c \o a) \o b) # 0
    BY <2>3
  <2> QED
    BY <2>2, <2>3, <2>4
<1> QED
  BY <1>4, <1>7, <1>8 DEF RowsOf, Top

LEMMA RowsAre ==
  ASSUME TracebackAssumption
  PROVE  \A t \in AnyTree, d \in Nat : Rows[<<t, d>>] \in Seq(RowOf) /\ Rows[<<t, d>>] # <<>>
<1> DEFINE D == Places
           S == Seq(RowOf)
           H == [f \in [D -> S] |-> [p \in D |-> RowsOf(f, p[1], p[2])]]
           E(f) == f = [p \in AnyTree \X Nat |-> RowsOf(f, p[1], p[2])]
<1>1. PICK height : IsRank(height)
  BY KidsBelow
<1> DEFINE rank == [p \in D |-> height[p[1]]]
<1>2. [p \in D |-> <<>>] \in [D -> S]
  OBVIOUS
<1>0. \A p \in D : p[1] \in AnyTree /\ p[2] \in Nat /\ p = <<p[1], p[2]>>
  BY DEF Places
<1>3. H \in [[D -> S] -> [D -> S]]
  BY <1>0, RowsOfType
<1>4. \A f, h \in [D -> S], p \in D :
        (\A k \in D : rank[k] < rank[p] => f[k] = h[k]) => H[f][p] = H[h][p]
  <2> SUFFICES ASSUME NEW f \in [D -> S], NEW h \in [D -> S], NEW p \in D,
                      \A k \in D : rank[k] < rank[p] => f[k] = h[k]
               PROVE  RowsOf(f, p[1], p[2]) = RowsOf(h, p[1], p[2])
    OBVIOUS
  <2>0. PICK t \in AnyTree, d \in Nat : t = p[1] /\ d = p[2]
    BY <1>0
  <2>1. PICK kids \in Seq(AnyTree) : kids = t.kids
    BY AnyTreeParts
  <2>2. \A k \in DOMAIN kids : kids[k] \in AnyTree /\ height[kids[k]] < height[t]
    BY <1>1, <2>1 DEF IsRank
  <2>3. \A k \in DOMAIN kids : <<kids[k], d + 1>> \in D /\ rank[<<kids[k], d + 1>>] < rank[p]
    BY <2>0, <2>2 DEF Places
  <2>4. \A k \in DOMAIN kids : f[<<kids[k], d + 1>>] = h[<<kids[k], d + 1>>]
    BY <2>3
  <2>5. [k \in DOMAIN t.kids |-> f[<<t.kids[k], d + 1>>]] = [k \in DOMAIN t.kids |-> h[<<t.kids[k], d + 1>>]]
    BY <2>1, <2>4
  <2> QED
    BY <2>0, <2>5 DEF RowsOf
<1>5. PICK f \in [D -> S] : f = H[f]
  <2>1. rank \in [D -> Nat]
    BY <1>0, <1>1 DEF IsRank
  <2> HIDE DEF D, S, H, rank
  <2>2. Approximates(H, D, S, rank)
    BY <1>2, <1>3, <1>4, <2>1 DEF Approximates
  <2> QED
    BY <2>2, RecursionExists
<1>6. E(f)
  BY <1>5 DEF Places
<1> DEFINE g == CHOOSE h : E(h)
<1>7. E(g)
  <2> HIDE DEF E
  <2> QED
    BY <1>6
<1>8. Rows = g
  BY DEF Rows, RowsOf, Top, FrameRows
<1> HIDE DEF g
<1>9. g = f
  <2>1. g = [p \in D |-> RowsOf(g, p[1], p[2])] /\ f = [p \in D |-> RowsOf(f, p[1], p[2])]
    BY <1>6, <1>7 DEF Places
  <2> DEFINE P(n) == \A p \in D : rank[p] < n => g[p] = f[p]
             T == {n \in Nat : P(n)}
  <2>2. rank \in [D -> Nat]
    BY <1>0, <1>1 DEF IsRank
  <2>3. 0 \in T
    <3> HIDE DEF rank, D
    <3>1. \A p \in D : rank[p] \in Nat
      BY <2>2
    <3> QED
      BY <3>1
  <2>4. \A n \in Nat : n \in T => n + 1 \in T
    <3> HIDE DEF P
    <3> SUFFICES ASSUME NEW n \in Nat, P(n) PROVE P(n + 1)
      OBVIOUS
    <3> USE DEF P
    <3> SUFFICES ASSUME NEW p \in D, rank[p] < n + 1 PROVE g[p] = f[p]
      BY DEF P
    <3>1. PICK t \in AnyTree, d \in Nat : t = p[1] /\ d = p[2]
      BY <1>0
    <3>2. PICK kids \in Seq(AnyTree) : kids = t.kids
      BY AnyTreeParts
    <3>3. \A k \in DOMAIN kids : kids[k] \in AnyTree /\ height[kids[k]] < height[t]
      BY <1>1, <3>2 DEF IsRank
    <3>4. ASSUME NEW k \in DOMAIN kids
          PROVE  g[<<kids[k], d + 1>>] = f[<<kids[k], d + 1>>]
      <4>1. <<kids[k], d + 1>> \in D /\ rank[<<kids[k], d + 1>>] < rank[p]
        BY <3>1, <3>3 DEF Places
      <4>2. rank[<<kids[k], d + 1>>] \in Nat /\ rank[p] \in Nat
        BY <2>2, <4>1
      <4> HIDE DEF rank, D
      <4>3. rank[<<kids[k], d + 1>>] < n
        BY <4>1, <4>2
      <4> QED
        BY <4>1, <4>3
    <3>5. [k \in DOMAIN t.kids |-> g[<<t.kids[k], d + 1>>]] = [k \in DOMAIN t.kids |-> f[<<t.kids[k], d + 1>>]]
      BY <3>2, <3>4
    <3>6. RowsOf(g, t, d) = RowsOf(f, t, d)
      BY <3>5 DEF RowsOf
    <3> QED
      BY <2>1, <3>1, <3>6
  <2>5. ASSUME NEW p \in D PROVE g[p] = f[p]
    <3>1. rank[p] \in Nat /\ rank[p] + 1 \in Nat /\ rank[p] < rank[p] + 1
      <4>1. rank[p] \in Nat
        BY <2>2
      <4> HIDE DEF rank
      <4> QED
        BY <4>1
    <3>2. rank[p] + 1 \in T
      <4> HIDE DEF T, rank
      <4> QED
        BY <2>3, <2>4, <3>1, InductionOnNaturals
    <3> QED
      BY <3>1, <3>2
  <2>6. g = [p \in D |-> g[p]] /\ f = [p \in D |-> f[p]]
    BY <2>1
  <2> QED
    BY <2>5, <2>6
<1>10. ASSUME NEW t \in AnyTree, NEW d \in Nat PROVE f[<<t, d>>] \in Seq(RowOf) /\ f[<<t, d>>] # <<>>
  <2>1. f[<<t, d>>] = RowsOf(f, t, d)
    BY <1>6
  <2> QED
    BY <2>1, RowsOfType
<1> QED
  BY <1>8, <1>9, <1>10

-----------------------------------------------------------------------------
(* A tree without the frames of its root is one. *)
LEMMA OuterFrames ==
  ASSUME TracebackAssumption, NEW t \in AnyTree
  PROVE  /\ [t EXCEPT !.frames = <<>>] \in AnyTree
         /\ [t EXCEPT !.frames = <<>>].name = t.name
<1>1. PICK lists : AnyTree = Level(lists)
  BY TreesExist, AnyTreeIs, AnyTreeTo
<1>2. <<>> \in Seq(Labels) /\ t \in Level(lists)
  BY <1>1
<1>3. /\ [t EXCEPT !.frames = <<>>] \in Level(lists)
      /\ [t EXCEPT !.frames = <<>>].name = t.name
  BY <1>2 DEF Level
<1> QED
  BY <1>1, <1>3

(* A tree is read back: its name always, all of it unless one rule closes  *)
(* two groups, but for the frames of an outermost group.                   *)
Readable(t) ==
  /\ t.name \in Labels
  /\ TextOf(t) \in Lines /\ TextOf(t) # <<>>
  /\ \A id : /\ ParseStackTrace(id, TextOf(t)) \in AnyTree
             /\ ParseStackTrace(id, TextOf(t)).name = t.name
  /\ ~ClosesTwo[t] => \A id : ParseStackTrace(id, TextOf(t)) = WithoutOuterFrames(t)

LEMMA GroupReadable ==
  ASSUME TracebackAssumption, NEW t, Sound(t), t.rel = "root", t.group,
         Separators(TextOf(t)) <= 4 * GroupDepth
  PROVE  Readable(t)
<1>1. Good(t) /\ t \in AnyTree /\ GroupLike(t)
  BY SoundGood DEF Sound, LeafLike
<1>2. PICK v \in Lines : v = TextOf(t) /\ v # <<>> /\ IsGroup(v)
  BY <1>1, LinesAre DEF Good
<1>3. \A id : ParseStackTrace(id, v) = [ParseGroup[v] EXCEPT !.frames = <<>>]
  BY <1>2 DEF ParseStackTrace, ParseOutermost
<1>4. ParseGroup[v].name = t.name
  <2>1. ParseGroup[v] = GroupOf(ParseGroup, v)
    BY ParseGroupIs
  <2>2. GroupOf(ParseGroup, v).name = "group"
    BY DEF GroupOf, Node
  <2> QED
    BY <1>1, <2>1, <2>2 DEF GroupLike
<1>5. As(t, "root") = t
  <2>1. PICK n, f, k, g : t = Node(n, f, k, "root", g)
    BY <1>1, AnyTreeParts
  <2> QED
    BY <2>1, AsNode
<1>6. ~ClosesTwo[t] => ParseGroup[v] = t
  BY <1>1, <1>2, <1>5 DEF Good, ReadBack
<1>7. ParseGroup[v] \in AnyTree
  <2>1. PICK n \in Nat : n = 4 * GroupDepth /\ n <= TreeDepth
    BY DEF TracebackAssumption, TreeDepth
  <2>2. ParseGroup[v] \in TreesTo[n]
    BY <1>2, <2>1, GroupDepthIs
  <2> QED
    BY <2>1, <2>2, AnyTreeIs
<1>8. t.name \in Labels
  BY <1>1, AnyTreeParts
<1>9. /\ [ParseGroup[v] EXCEPT !.frames = <<>>] \in AnyTree
      /\ [ParseGroup[v] EXCEPT !.frames = <<>>].name = t.name
  BY <1>4, <1>7, OuterFrames
<1> QED
  BY <1>2, <1>3, <1>6, <1>8, <1>9 DEF Readable, WithoutOuterFrames

LEMMA ChainReadable ==
  ASSUME TracebackAssumption, NEW t, ChainLike(t), t.rel = "root"
  PROVE  Readable(t)
<1>1. ChainGood(t) /\ t \in AnyTree /\ ~t.group /\ FewFrames(t)
  BY ChainLikeGood DEF ChainLike
<1>2. PICK v \in Lines : v = TextOf(t) /\ v # <<>> /\ ~IsGroup(v)
                           /\ (Marked(v) <=> t.kids # <<>>)
  BY <1>1, LinesAre DEF ChainGood
<1>3. PICK n, f, k, g :
        /\ n = t.name /\ f = t.frames /\ k = t.kids /\ g = t.group
        /\ t = Node(n, f, k, "root", g)
  <2>1. t = Node(t.name, t.frames, t.kids, t.rel, t.group)
    BY <1>1, AnyTreeParts
  <2> QED
    BY <2>1, Zenon
<1>4. g = FALSE
  BY <1>1, <1>3, AnyTreeParts
<1>5. ParseSimple(OwnLines(t)) = Node(n, f, <<>>, "root", g)
  BY <1>1, <1>3, <1>4, OwnRead
<1>6. ASSUME t.kids = <<>> PROVE \A id : ParseStackTrace(id, v) = t
  <2>1. v = OwnLines(t)
    BY <1>1, <1>2, <1>6, LeafGood
  <2>2. \A id : ParseStackTrace(id, v) = ParseSimple(v)
    BY <1>2, <1>6 DEF ParseStackTrace, Marked
  <2> QED
    BY <1>3, <1>5, <1>6, <2>1, <2>2
<1>7. ASSUME t.kids # <<>> PROVE \A id : ParseStackTrace(id, v) = t
  <2>1. \A id : ParseStackTrace(id, v) = ParseChained(v)
    BY <1>2, <1>7 DEF ParseStackTrace, Marked
  <2>2. PICK e : e = Fold(ChainStep, ChainStart, v) /\ e.part = OwnLines(t) /\ e.kid = k
    BY <1>1, <1>2, <1>3 DEF ChainGood
  <2>3. ParseChained(v) = [ParseSimple(e.part) EXCEPT !.kids = e.kid]
    BY <2>2, ChainFolds
  <2>4. [Node(n, f, <<>>, "root", g) EXCEPT !.kids = k] = Node(n, f, k, "root", g)
    BY KidsNode
  <2> QED
    BY <1>3, <1>5, <2>1, <2>2, <2>3, <2>4
<1>8. t.name \in Labels
  BY <1>1, AnyTreeParts
<1> QED
  BY <1>1, <1>2, <1>6, <1>7, <1>8 DEF Readable, WithoutOuterFrames

(* A debuggee says which of its own groups carry a frame. *)
LEMMA TreesReadable ==
  ASSUME TracebackAssumption
  PROVE  \A t \in Trees : Readable(t)
<1> SUFFICES ASSUME NEW t \in Trees PROVE Readable(t)
  OBVIOUS
<1>1. \/ \E n \in 1..MaxChain : t \in Chains[n]
      \/ \E u \in Nested[GroupDepth] : t = IF u.group THEN [u EXCEPT !.frames = <<"group">>] ELSE u
  <2>1. PICK ends, groups :
          /\ ends = UNION {Chains[n] : n \in 1..MaxChain}
          /\ groups = {IF u.group THEN [u EXCEPT !.frames = <<"group">>] ELSE u :
                         u \in Nested[GroupDepth]}
          /\ Trees = ends \cup groups
    BY DEF Trees
  <2>2. t \in ends => \E n \in 1..MaxChain : t \in Chains[n]
    BY <2>1
  <2>3. t \in groups => \E u \in Nested[GroupDepth] :
                          t = IF u.group THEN [u EXCEPT !.frames = <<"group">>] ELSE u
    BY <2>1
  <2> QED
    BY <2>1, <2>2, <2>3
<1>2. CASE \E n \in 1..MaxChain : t \in Chains[n]
  BY <1>2, ChainsSound, ChainReadable
<1>3. ASSUME NEW u \in Nested[GroupDepth],
             t = IF u.group THEN [u EXCEPT !.frames = <<"group">>] ELSE u
      PROVE  Readable(t)
  <2>1. GroupDepth \in Nat /\ GroupDepth <= GroupDepth
    BY DEF TracebackAssumption
  <2>2. Sound(u) /\ u.rel = "root" /\ u \in AnyTree
    BY <2>1, NestedSound DEF Sound
  <2>3. CASE u.group
    <3>1. t = [u EXCEPT !.frames = <<"group">>]
      BY <1>3, <2>3
    <3>2. t \in AnyTree
      <4>1. PICK lists : AnyTree = Level(lists)
        BY TreesExist, AnyTreeIs, AnyTreeTo
      <4>2. "group" \in Labels
        BY DEF Labels
      <4>3. <<"group">> \in Seq(Labels)
        BY <4>2
      <4>4. u \in Level(lists)
        BY <2>2, <4>1
      <4>5. [u EXCEPT !.frames = <<"group">>] \in Level(lists)
        BY <4>3, <4>4 DEF Level
      <4> QED
        BY <3>1, <4>1, <4>5
    <3>3. /\ t.name = u.name /\ t.kids = u.kids /\ t.rel = u.rel /\ t.group = u.group
          /\ t.frames = <<"group">>
      <4>1. PICK n, f, k, q, g : u = Node(n, f, k, q, g)
        BY <2>2, AnyTreeParts
      <4> QED
        BY <3>1, <4>1 DEF Node
    <3>4. FewFrames(t)
      BY <3>3 DEF FewFrames, Labels
    <3>5. GroupLike(u)
      BY <2>2, <2>3 DEF Sound, LeafLike
    <3>6. Sound(t)
      BY <3>2, <3>3, <3>4, <3>5 DEF Sound, GroupLike
    <3>7. Separators(TextOf(u)) <= 4 * GroupDepth
      BY NestedFlat DEF IsFlat
    <3>8. Separators(TextOf(t)) = Separators(TextOf(u))
      <4>1. PICK x, y : Good(x) /\ Good(y) /\ (u.kids = <<x>> \/ u.kids = <<x, y>>)
        BY <3>5 DEF GroupLike
      <4> QED
        <5>1. t.group /\ u.group /\ FewFrames(u) /\ t \in AnyTree /\ u \in AnyTree /\ t.kids = u.kids
          BY <2>2, <2>3, <3>2, <3>3, <3>5 DEF GroupLike
        <5>2. /\ u.kids = <<x>> => Separators(TextOf(u)) = 1 + Separators(TextOf(x))
              /\ u.kids = <<x, y>> =>
                   Separators(TextOf(u)) = 2 + Separators(TextOf(x)) + Separators(TextOf(y))
          BY <4>1, <5>1, GroupWeighs
        <5>3. /\ t.kids = <<x>> => Separators(TextOf(t)) = 1 + Separators(TextOf(x))
              /\ t.kids = <<x, y>> =>
                   Separators(TextOf(t)) = 2 + Separators(TextOf(x)) + Separators(TextOf(y))
          BY <3>4, <4>1, <5>1, GroupWeighs
        <5> QED
          BY <4>1, <5>1, <5>2, <5>3
    <3> QED
      BY <2>2, <2>3, <3>3, <3>6, <3>7, <3>8, GroupReadable
  <2>4. CASE ~u.group
    <3>1. t = u
      BY <1>3, <2>4
    <3>2. LeafLike(u)
      BY <2>2, <2>4 DEF Sound, GroupLike
    <3>3. ChainLike(u)
      BY <2>2, <3>2 DEF ChainLike, LeafLike
    <3> QED
      BY <2>2, <3>1, <3>3, ChainReadable
  <2> QED
    BY <2>3, <2>4
<1> QED
  BY <1>1, <1>2, <1>3

LEMMA InfoIs ==
  ASSUME TracebackAssumption, NEW t, Readable(t), NEW lines \in {<<>>, TextOf(t)}
  PROVE  BuildExceptionTree(t.name, lines) \in Infos
<1>1. lines \in Lines
  <2>1. <<>> \in Lines
    BY DEF Lines
  <2> QED
    BY <2>1 DEF Readable
<1>2. ParseStackTrace(t.name, lines) \in AnyTree
  <2>1. CASE lines = <<>>
    <3>1. ParseStackTrace(t.name, lines) = Node(t.name, <<>>, <<>>, "root", FALSE)
      BY <2>1 DEF ParseStackTrace
    <3>2. t.name \in Labels
      BY DEF Readable
    <3>3. ParseStackTrace(t.name, lines) \in Level({<<>>})
      <4>1. <<>> \in Seq(Labels) /\ <<>> \in {<<>>}
        OBVIOUS
      <4> QED
        BY <3>1, <3>2, <4>1 DEF Node, Level, Rels
    <3>4. TreesTo[0] = Level({<<>>}) /\ 0 <= TreeDepth
      BY TreeLevels, AnyTreeIs
    <3> QED
      BY <3>3, <3>4, AnyTreeIs
  <2>2. CASE lines = TextOf(t)
    BY <2>2 DEF Readable
  <2> QED
    BY <2>1, <2>2
<1> QED
  BY <1>1, <1>2 DEF BuildExceptionTree, Infos

(* What was raised can be read, and what is shown was read from its text   *)
(* or, without a text, from its name.                                      *)
TreeInv ==
  /\ inner \in BOOLEAN
  /\ tree # None => Readable(tree)
  /\ info = None => exc_tree = <<>>
  /\ info # None =>
       /\ tree # None
       /\ \E lines \in {<<>>, TextOf(tree)} : info = BuildExceptionTree(tree.name, lines)
       /\ exc_tree = Rows[<<info.tree, 0>>]

LEMMA TreeInit == Init => TreeInv
BY DEF Init, TreeInv

LEMMA TreeStep ==
  ASSUME TracebackAssumption
  PROVE  TreeInv /\ [Next]_vars => TreeInv'
<1> SUFFICES ASSUME TreeInv, [Next]_vars PROVE TreeInv'
  OBVIOUS
<1>1. CASE UNCHANGED vars
  BY <1>1 DEF vars, TreeInv
<1>2. CASE Raised
  <2>1. tree = None /\ tree' \in Trees /\ UNCHANGED <<inner, info, exc_tree>>
    BY <1>2 DEF Raised
  <2>2. info' = None /\ inner' \in BOOLEAN /\ exc_tree' = <<>>
    BY <2>1 DEF TreeInv
  <2>3. Readable(tree')
    BY <2>1, TreesReadable
  <2> QED
    BY <2>2, <2>3 DEF TreeInv
<1>3. ASSUME NEW lines \in {<<>>, TextOf(tree)}, InfoArrives(lines) PROVE TreeInv'
  <2>1. /\ tree # None /\ tree' = tree
        /\ info' = BuildExceptionTree(tree.name, lines)
        /\ exc_tree' = Rows[<<info'.tree, 0>>]
    BY <1>3 DEF InfoArrives
  <2>2. Readable(tree)
    BY <2>1 DEF TreeInv
  <2>3. \E w \in {<<>>, TextOf(tree)} : info' = BuildExceptionTree(tree.name, w)
    BY <2>1
  <2>4. info' # None /\ inner' = inner
    BY <1>3, <2>1, <2>2, InfoIs DEF InfoArrives, TracebackAssumption
  <2> QED
    BY <2>1, <2>2, <2>3, <2>4 DEF TreeInv
<1>4. CASE Continued
  BY <1>4 DEF Continued, TreeInv
<1> QED
  BY <1>1, <1>2, <1>3, <1>4 DEF Next, TextOf

LEMMA TreeTypes == ASSUME TracebackAssumption, TreeInv PROVE TypeOK
<1>1. CASE info = None
  BY <1>1 DEF TreeInv, TypeOK
<1>2. CASE info # None
  <2>1. PICK lines \in {<<>>, TextOf(tree)} : info = BuildExceptionTree(tree.name, lines)
    BY <1>2 DEF TreeInv
  <2>2. Readable(tree) /\ exc_tree = Rows[<<info.tree, 0>>]
    BY <1>2 DEF TreeInv
  <2>3. info \in Infos
    BY <2>1, <2>2, InfoIs
  <2>4. exc_tree # <<>>
    BY <2>2, <2>3, RowsAre DEF Infos
  <2> QED
    BY <1>2, <2>3, <2>4 DEF TreeInv, TypeOK
<1> QED
  BY <1>1, <1>2

LEMMA TreeShown == TreeInv => TreeIsRead
<1> SUFFICES ASSUME TreeInv, info # None
             PROVE  /\ info.tree.name = tree.name
                    /\ info.stack_trace # <<>> /\ ~ClosesTwo[tree]
                       => exc_tree = Rows[<<WithoutOuterFrames(tree), 0>>]
  BY DEF TreeIsRead
<1>1. Readable(tree) /\ exc_tree = Rows[<<info.tree, 0>>]
  BY DEF TreeInv
<1>2. PICK lines \in {<<>>, TextOf(tree)} : info = BuildExceptionTree(tree.name, lines)
  BY DEF TreeInv
<1>3. info.stack_trace = lines /\ info.tree = ParseStackTrace(tree.name, lines)
  BY <1>2 DEF BuildExceptionTree
<1>4. CASE lines = <<>>
  <2>1. info.tree = Node(tree.name, <<>>, <<>>, "root", FALSE)
    BY <1>3, <1>4 DEF ParseStackTrace
  <2> QED
    BY <1>3, <1>4, <2>1 DEF Node
<1>5. CASE lines = TextOf(tree)
  BY <1>1, <1>3, <1>5 DEF Readable
<1> QED
  BY <1>2, <1>4, <1>5
=============================================================================
