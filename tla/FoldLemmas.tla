----------------------------- MODULE FoldLemmas -----------------------------
(***************************************************************************)
(* What the folds of the community modules compute.  A fold applies a      *)
(* function CHOOSEn by its equation; that there is one, and what its       *)
(* values are, is induction over data, done here on sets of numbers: the   *)
(* least number outside a set (WFMin) takes the place of a predicate.      *)
(***************************************************************************)
EXTENDS Integers, Sequences, FiniteSetsExt, FiniteSetTheorems,
        WellFoundedInduction, TLAPS

\* A nonempty set of numbers has a least one.
LEMMA LeastNatural ==
  ASSUME NEW T \in SUBSET Nat, T # {}
  PROVE  \E n \in T : \A m \in T : n <= m
<1> DEFINE R == OpToRel(<, Nat)
<1>1. IsWellFoundedOn(R, Nat)
  BY NatLessThanWellFounded
<1>2. \A x, y \in Nat : x < y => <<x, y>> \in R
  BY DEF OpToRel
<1> HIDE DEF R
<1>3. \E n \in T : \A m \in T : <<m, n>> \notin R
  BY <1>1, WFMin
<1>4. ASSUME NEW n \in T, \A m \in T : <<m, n>> \notin R
      PROVE  \A m \in T : n <= m
  <2>1. \A m \in T : ~(m < n)
    BY <1>2, <1>4, Zenon
  <2> QED
    BY <2>1
<1> QED
  BY <1>3, <1>4

\* A set of numbers with 0 and every successor has all of them.
LEMMA NatSetInduction ==
  ASSUME NEW S \in SUBSET Nat, 0 \in S, \A n \in S : n + 1 \in S
  PROVE  S = Nat
<1> SUFFICES ASSUME S # Nat PROVE FALSE
  OBVIOUS
<1>1. PICK n \in Nat \ S : \A m \in Nat \ S : n <= m
  <2>1. Nat \ S \in SUBSET Nat /\ Nat \ S # {}
    OBVIOUS
  <2> QED BY <2>1, LeastNatural
<1>2. n # 0 /\ n - 1 \in Nat
  BY <1>1
<1>3. n - 1 \in S
  BY <1>1, <1>2
<1> QED
  BY <1>1, <1>2, <1>3

\* g folds each set of D: it takes C[s] out of s and applies G to it.
IsFold(g, D, base, C, G) ==
  \A s \in D : g[s] = IF s = {} THEN base ELSE G[<<C[s], g[s \ {C[s]}]>>]

\* The equation of a fold over a finite set has a solution.
LEMMA FoldExists ==
  ASSUME NEW S, IsFiniteSet(S), NEW A, NEW base \in A,
         NEW C, \A s \in SUBSET S : s # {} => C[s] \in s,
         NEW G \in [S \X A -> A]
  PROVE  \E g \in [SUBSET S -> A] : IsFold(g, SUBSET S, base, C, G)
<1> DEFINE D(n) == {s \in SUBSET S : Cardinality(s) <= n}
           T == {n \in Nat : \E g \in [D(n) -> A] : IsFold(g, D(n), base, C, G)}
<1>1. \A s \in SUBSET S :
        /\ IsFiniteSet(s) /\ Cardinality(s) \in Nat
        /\ Cardinality(s) = 0 <=> s = {}
        /\ \A x \in s : Cardinality(s \ {x}) = Cardinality(s) - 1
  BY FS_Subset, FS_CardinalityType, FS_EmptySet, FS_RemoveElement
<1>2. 0 \in T
  <2> DEFINE g == [s \in D(0) |-> base]
  <2>1. \A s \in D(0) : s = {}
    BY <1>1
  <2>2. g \in [D(0) -> A] /\ IsFold(g, D(0), base, C, G)
    BY <2>1 DEF IsFold
  <2> QED
    BY <2>2
<1>3. ASSUME NEW n \in T
      PROVE  n + 1 \in T
  <2>1. PICK h \in [D(n) -> A] : IsFold(h, D(n), base, C, G)
    OBVIOUS
  <2> DEFINE rest(s) == s \ {C[s]}
             g == [s \in D(n + 1) |->
                     IF s = {} THEN base ELSE G[<<C[s], h[rest(s)]>>]]
  <2>2. ASSUME NEW s \in D(n + 1), s # {}
        PROVE  C[s] \in S /\ rest(s) \in D(n)
    BY <2>2, <1>1
  <2>3. g \in [D(n + 1) -> A]
    <3>1. ASSUME NEW s \in D(n + 1), s # {}
          PROVE  G[<<C[s], h[rest(s)]>>] \in A
      <4>1. <<C[s], h[rest(s)]>> \in S \X A
        BY <2>1, <2>2, <3>1
      <4> QED
        BY <4>1
    <3> QED
      BY <3>1
  <2>4. ASSUME NEW s \in D(n)
        PROVE  s \in D(n + 1) /\ g[s] = h[s]
    BY <2>1, <1>1 DEF IsFold
  <2>5. IsFold(g, D(n + 1), base, C, G)
    <3>1. ASSUME NEW s \in D(n + 1)
          PROVE  g[s] = IF s = {} THEN base ELSE G[<<C[s], g[rest(s)]>>]
      BY <2>2, <2>4
    <3> QED
      BY <3>1 DEF IsFold
  <2> HIDE DEF g
  <2>6. \E f \in [D(n + 1) -> A] : IsFold(f, D(n + 1), base, C, G)
    BY <2>3, <2>5
  <2> HIDE DEF D
  <2> QED
    BY <2>6
<1>4. T = Nat
  <2> HIDE DEF T
  <2>1. T \in SUBSET Nat
    BY DEF T
  <2> QED
    BY <2>1, <1>2, <1>3, NatSetInduction
<1>5. Cardinality(S) \in T
  BY <1>4, FS_CardinalityType
<1>6. D(Cardinality(S)) = SUBSET S
  BY FS_Subset
<1>7. \E g \in [D(Cardinality(S)) -> A] :
        IsFold(g, D(Cardinality(S)), base, C, G)
  BY <1>5, Zenon
<1> HIDE DEF D
<1> QED
  BY <1>6, <1>7

-----------------------------------------------------------------------------
\* The greatest number of a nonempty set of indices is in it.
LEMMA MaxInSet ==
  ASSUME NEW n \in Nat, NEW s \in SUBSET (1..n), s # {}
  PROVE  Max(s) \in s
<1> DEFINE T == {n - x : x \in s}
<1>1. T \in SUBSET Nat /\ T # {}
  OBVIOUS
<1>2. PICK d \in T : \A e \in T : d <= e
  <2> HIDE DEF T
  <2> QED BY <1>1, LeastNatural
<1>3. PICK x \in s : d = n - x
  BY <1>2
<1>4. ASSUME NEW y \in s
      PROVE  x >= y
  <2>1. n - y \in T
    OBVIOUS
  <2>2. d <= n - y
    BY <1>2, <2>1
  <2> QED
    BY <1>3, <2>2
<1> QED
  BY <1>4 DEF Max

\* The greatest index of a prefix is its last, and what is left a prefix.
LEMMA MaxOfPrefix ==
  ASSUME NEW m \in Nat \ {0}
  PROVE  Max(1..m) = m /\ (1..m) \ {m} = 1..(m - 1)
<1>1. Max(1..m) \in 1..m /\ \A y \in 1..m : Max(1..m) >= y
  <2>1. \E x \in 1..m : \A y \in 1..m : x >= y
    <3>1. m \in 1..m /\ \A y \in 1..m : m >= y
      OBVIOUS
    <3> QED BY <3>1
  <2> QED
    BY <2>1 DEF Max
<1> QED
  BY <1>1

\* g folds the indices 1..n, the greatest first, as long as it is of type A.
FoldsIndices(g, n, A, base, G) ==
  /\ g[{}] = base
  /\ \A s \in SUBSET (1..n) : s # {} /\ g[s \ {Max(s)}] \in A =>
                                g[s] = G[<<Max(s), g[s \ {Max(s)}]>>]

\* A fold of indices has a solution.
LEMMA IndexFoldExists ==
  ASSUME NEW n \in Nat, NEW A, NEW base \in A, NEW G \in [(1..n) \X A -> A]
  PROVE  \E g \in [SUBSET (1..n) -> A] : FoldsIndices(g, n, A, base, G)
<1> DEFINE C == [s \in SUBSET (1..n) |-> Max(s)]
<1>1. \A s \in SUBSET (1..n) : s # {} => Max(s) \in s
  BY MaxInSet
<1>2. \A s \in SUBSET (1..n) : C[s] = Max(s)
  OBVIOUS
<1>3. \A s \in SUBSET (1..n) : s # {} => C[s] \in s
  BY <1>1, <1>2
<1> HIDE DEF C
<1>4. IsFiniteSet(1..n)
  BY FS_Interval
<1>5. PICK g \in [SUBSET (1..n) -> A] : IsFold(g, SUBSET (1..n), base, C, G)
  BY <1>3, <1>4, FoldExists
<1>6. g[{}] = base
  BY <1>5 DEF IsFold
<1>7. \A s \in SUBSET (1..n) : s # {} => g[s] = G[<<Max(s), g[s \ {Max(s)}]>>]
  BY <1>2, <1>5 DEF IsFold
<1>8. FoldsIndices(g, n, A, base, G)
  BY <1>6, <1>7 DEF FoldsIndices
<1> QED
  BY <1>8

\* H runs through 1..n as a loop does, from base to last; G is its body.
IsLoop(H, n, base, G, last) ==
  /\ H[0] = base
  /\ H[n] = last
  /\ \A m \in 1..n : H[m] = G[<<m, H[m - 1]>>]

\* A fold that takes the greatest index first is a loop over the indices.
LEMMA FoldIsLoop ==
  ASSUME NEW n \in Nat, NEW A, NEW base \in A, NEW G \in [(1..n) \X A -> A],
         NEW g, FoldsIndices(g, n, A, base, G)
  PROVE  \E H \in [0..n -> A] : IsLoop(H, n, base, G, g[1..n])
<1>0. ASSUME NEW m \in 1..n, g[1..(m - 1)] \in A
      PROVE  g[1..m] = G[<<m, g[1..(m - 1)]>>]
  <2>1. Max(1..m) = m /\ (1..m) \ {m} = 1..(m - 1)
    BY MaxOfPrefix
  <2>2. m \in 1..m /\ \A i \in 1..m : i \in 1..n
    OBVIOUS
  <2>3. 1..m \in SUBSET (1..n) /\ 1..m # {}
    BY <2>2, Zenon
  <2> QED
    BY <1>0, <2>1, <2>3 DEF FoldsIndices
<1> DEFINE T == {m \in Nat : m <= n => g[1..m] \in A}
<1>1. 1..0 = {}
  OBVIOUS
<1>2. 0 \in T
  BY <1>1 DEF FoldsIndices
<1>3. ASSUME NEW m \in T
      PROVE  m + 1 \in T
  <2> SUFFICES ASSUME m + 1 <= n PROVE g[1..(m + 1)] \in A
    OBVIOUS
  <2>1. g[1..m] \in A /\ m + 1 \in 1..n /\ (m + 1) - 1 = m
    OBVIOUS
  <2>2. g[1..(m + 1)] = G[<<m + 1, g[1..m]>>]
    BY <1>0, <2>1
  <2>3. <<m + 1, g[1..m]>> \in (1..n) \X A
    BY <2>1
  <2> QED
    BY <2>2, <2>3
<1>4. T = Nat
  <2>1. T \in SUBSET Nat
    OBVIOUS
  <2> HIDE DEF T
  <2> QED
    BY <2>1, <1>2, <1>3, NatSetInduction
<1>5. \A m \in 0..n : g[1..m] \in A
  BY <1>4
<1> DEFINE H == [m \in 0..n |-> g[1..m]]
<1>6. H \in [0..n -> A]
  BY <1>5
<1>7. IsLoop(H, n, base, G, g[1..n])
  <2>1. H[0] = base
    BY <1>1 DEF FoldsIndices
  <2>2. ASSUME NEW m \in 1..n
        PROVE  H[m] = G[<<m, H[m - 1]>>]
    <3>1. m - 1 \in 0..n /\ m \in 0..n
      OBVIOUS
    <3> QED
      BY <1>0, <1>5, <3>1
  <2>3. H[n] = g[1..n]
    OBVIOUS
  <2> HIDE DEF H
  <2> QED
    BY <2>1, <2>2, <2>3 DEF IsLoop
<1> HIDE DEF H
<1> QED
  BY <1>6, <1>7

\* The entries E[w] of the indices W, in the order of the indices p.
IsOrder(p, k, W) ==
  /\ p \in [1..k -> W]
  /\ \A i, j \in 1..k : i < j => p[i] < p[j]
  /\ \A w \in W : \E i \in 1..k : p[i] = w

Lists(s, E, W, p) ==
  /\ IsOrder(p, Len(s), W)
  /\ \A i \in 1..Len(s) : s[i] = E[p[i]]

\* An entry is appended for an index after the others.
LEMMA ListsMore ==
  ASSUME NEW B, NEW s \in Seq(B), NEW E, NEW V \in SUBSET Nat, NEW p,
         Lists(s, E, V, p),
         NEW w \in Nat, \A v \in V : v < w, E[w] \in B
  PROVE  \E r : Lists(Append(s, E[w]), E, V \cup {w}, r)
<1> DEFINE k == Len(s)
           u == Append(s, E[w])
           U == V \cup {w}
           r == [i \in 1..(k + 1) |-> IF i = k + 1 THEN w ELSE p[i]]
<1>1. /\ k \in Nat /\ Len(u) = k + 1 /\ u[k + 1] = E[w]
      /\ \A i \in 1..k : u[i] = s[i]
  OBVIOUS
<1>2. /\ p \in [1..k -> V]
      /\ \A i, j \in 1..k : i < j => p[i] < p[j]
      /\ \A v \in V : \E i \in 1..k : p[i] = v
      /\ \A i \in 1..k : s[i] = E[p[i]]
  BY DEF Lists, IsOrder
<1> HIDE DEF k, u
<1>3. /\ r[k + 1] = w /\ k + 1 \in 1..(k + 1)
      /\ \A i \in 1..k : i \in 1..(k + 1) /\ r[i] = p[i] /\ r[i] \in V
      /\ \A i \in 1..(k + 1) : i = k + 1 \/ i \in 1..k
  BY <1>1, <1>2
<1>4. r \in [1..(k + 1) -> U]
  BY <1>1, <1>2
<1> HIDE DEF r
<1>5. \A i, j \in 1..(k + 1) : i < j => r[i] < r[j]
  <2> SUFFICES ASSUME NEW i \in 1..(k + 1), NEW j \in 1..(k + 1), i < j
               PROVE  r[i] < r[j]
    OBVIOUS
  <2>1. i \in 1..k
    BY <1>1
  <2>2. CASE j = k + 1
    BY <1>3, <2>1, <2>2
  <2>3. CASE j \in 1..k
    BY <1>2, <1>3, <2>1, <2>3
  <2> QED
    BY <1>3, <2>2, <2>3
<1>6. \A v \in U : \E i \in 1..(k + 1) : r[i] = v
  <2>1. ASSUME NEW v \in V
        PROVE  \E i \in 1..(k + 1) : r[i] = v
    <3>1. PICK i \in 1..k : p[i] = v
      BY <1>2
    <3> QED
      BY <1>3, <3>1
  <2> QED
    BY <1>3, <2>1
<1>7. \A i \in 1..(k + 1) : u[i] = E[r[i]]
  BY <1>1, <1>2, <1>3
<1>8. Lists(u, E, U, r)
  BY <1>1, <1>4, <1>5, <1>6, <1>7 DEF Lists, IsOrder
<1> HIDE DEF U
<1>9. \E f : Lists(u, E, U, f)
  BY <1>8
<1> QED
  BY <1>9 DEF u, U

\* The numbers of a set up to m.
UpTo(W, m) == {w \in W : w <= m}

\* One more number is in the set, or it is not.
LEMMA UpToGrows ==
  ASSUME NEW W, \A w \in W : w \in Nat, NEW m \in Nat
  PROVE  /\ UpTo(W, m) \in SUBSET Nat
         /\ \A w \in UpTo(W, m) : w < m + 1
         /\ m + 1 \in W => UpTo(W, m + 1) = UpTo(W, m) \cup {m + 1}
         /\ m + 1 \notin W => UpTo(W, m + 1) = UpTo(W, m)
<1>1. \A w \in W : w <= m + 1 <=> (w <= m \/ w = m + 1)
  OBVIOUS
<1>2. UpTo(W, m) \in SUBSET Nat /\ \A w \in UpTo(W, m) : w < m + 1
  <2>1. \A w \in W : w \in Nat /\ (w <= m => w < m + 1)
    OBVIOUS
  <2> QED
    BY <2>1, Zenon DEF UpTo
<1>3. m + 1 \in W => UpTo(W, m + 1) = UpTo(W, m) \cup {m + 1}
  BY <1>1 DEF UpTo
<1>4. m + 1 \notin W => UpTo(W, m + 1) = UpTo(W, m)
  BY <1>1 DEF UpTo
<1> QED
  BY <1>2, <1>3, <1>4

\* A loop that appends the entries of some indices lists them in their order.
LEMMA FilterLoop ==
  ASSUME NEW n \in Nat, NEW B, NEW W \in SUBSET (1..n),
         NEW E, \A m \in W : E[m] \in B,
         NEW H \in [0..n -> Seq(B)], H[0] = <<>>,
         \A m \in 1..n : H[m] = IF m \in W THEN Append(H[m - 1], E[m])
                                          ELSE H[m - 1]
  PROVE  \E p : Lists(H[n], E, W, p)
<1>1. /\ UpTo(W, 0) = {} /\ UpTo(W, n) = W
      /\ \A m \in Nat :
           /\ UpTo(W, m) \in SUBSET Nat
           /\ \A w \in UpTo(W, m) : w < m + 1
           /\ m + 1 \in W => UpTo(W, m + 1) = UpTo(W, m) \cup {m + 1}
           /\ m + 1 \notin W => UpTo(W, m + 1) = UpTo(W, m)
  <2>1. \A w \in W : w \in Nat /\ ~(w <= 0) /\ w <= n
    OBVIOUS
  <2>2. UpTo(W, 0) = {} /\ UpTo(W, n) = W
    BY <2>1, Zenon DEF UpTo
  <2> QED
    BY <2>1, <2>2, UpToGrows
<1> DEFINE T == {m \in Nat : m <= n => \E p : Lists(H[m], E, UpTo(W, m), p)}
<1>2. 0 \in T
  <2>1. [i \in 1..0 |-> 0] \in [1..0 -> {}] /\ Len(<<>>) = 0
    OBVIOUS
  <2>2. Lists(H[0], E, UpTo(W, 0), [i \in 1..0 |-> 0])
    BY <1>1, <2>1 DEF Lists, IsOrder
  <2> QED
    BY <2>2
<1>3. ASSUME NEW m \in T
      PROVE  m + 1 \in T
  <2> SUFFICES ASSUME m + 1 <= n PROVE \E p : Lists(H[m + 1], E, UpTo(W, m + 1), p)
    OBVIOUS
  <2>1. PICK p : Lists(H[m], E, UpTo(W, m), p)
    OBVIOUS
  <2>2. /\ m \in Nat /\ m + 1 \in 1..n /\ (m + 1) - 1 = m
        /\ H[m] \in Seq(B)
    OBVIOUS
  <2>3. CASE m + 1 \notin W
    <3>1. H[m + 1] = H[m]
      BY <2>2, <2>3
    <3>2. UpTo(W, m + 1) = UpTo(W, m)
      BY <2>2, <2>3, <1>1
    <3> QED
      BY <2>1, <3>1, <3>2
  <2>4. CASE m + 1 \in W
    <3>1. H[m + 1] = Append(H[m], E[m + 1]) /\ E[m + 1] \in B
      BY <2>2, <2>4
    <3>2. /\ UpTo(W, m) \in SUBSET Nat /\ m + 1 \in Nat
          /\ \A v \in UpTo(W, m) : v < m + 1
          /\ UpTo(W, m + 1) = UpTo(W, m) \cup {m + 1}
      <4>1. m + 1 \in Nat
        BY <2>2
      <4> QED
        BY <2>2, <2>4, <4>1, <1>1
    <3>3. \E r : Lists(Append(H[m], E[m + 1]), E, UpTo(W, m) \cup {m + 1}, r)
      BY <2>1, <2>2, <3>1, <3>2, ListsMore, Zenon
    <3> QED
      BY <3>1, <3>2, <3>3
  <2> QED
    BY <2>3, <2>4
<1>4. T = Nat
  <2>1. T \in SUBSET Nat
    OBVIOUS
  <2> HIDE DEF T
  <2> QED
    BY <2>1, <1>2, <1>3, NatSetInduction
<1>5. \E p : Lists(H[n], E, UpTo(W, n), p)
  <2>1. n \in T
    BY <1>4
  <2> QED
    BY <2>1
<1> QED
  BY <1>1, <1>5

-----------------------------------------------------------------------------
\* The sum of numbers is one, and no less than any of them.
LEMMA SumIsBound ==
  ASSUME NEW S, IsFiniteSet(S), NEW f \in [S -> Nat]
  PROVE  SumFunction(f) \in Nat /\ \A k \in S : f[k] <= SumFunction(f)
<1> DEFINE c(s) == CHOOSE x \in s : TRUE
           Sum(g) == [s \in SUBSET S |->
                        IF s = {} THEN 0 ELSE f[c(s)] + g[s \ {c(s)}]]
           sum == CHOOSE g : g = Sum(g)
<1>1. SumFunction(f) = sum[S]
  BY DEF SumFunction, SumFunctionOnSet, FoldFunctionOnSet, MapThenFoldSet
<1>2. sum = Sum(sum)
  <2> DEFINE C == [s \in SUBSET S |-> c(s)]
             G == [p \in S \X Nat |-> f[p[1]] + p[2]]
  <2>1. \A s \in SUBSET S : s # {} => C[s] \in s
    OBVIOUS
  <2>2. G \in [S \X Nat -> Nat]
    OBVIOUS
  <2> HIDE DEF C, G
  <2>3. PICK g \in [SUBSET S -> Nat] : IsFold(g, SUBSET S, 0, C, G)
    BY <2>1, <2>2, FoldExists
  <2>4. ASSUME NEW s \in SUBSET S, s # {}
        PROVE  g[s] = f[c(s)] + g[s \ {c(s)}]
    <3>1. g[s] = G[<<C[s], g[s \ {C[s]}]>>]
      BY <2>3, <2>4 DEF IsFold
    <3>2. C[s] = c(s) /\ c(s) \in S /\ g[s \ {c(s)}] \in Nat
      BY <2>1, <2>3, <2>4 DEF C
    <3> HIDE DEF c
    <3>3. G[<<c(s), g[s \ {c(s)}]>>] = f[c(s)] + g[s \ {c(s)}]
      BY <3>2 DEF G
    <3> QED
      BY <3>1, <3>2, <3>3
  <2>5. g[{}] = 0
    BY <2>3 DEF IsFold
  <2> HIDE DEF c
  <2>6. g = Sum(g)
    BY <2>3, <2>4, <2>5
  <2> HIDE DEF Sum
  <2> QED
    BY <2>6
<1>3. \A s \in SUBSET S :
        /\ Cardinality(s) \in Nat
        /\ Cardinality(s) = 0 <=> s = {}
        /\ \A x \in s : Cardinality(s \ {x}) = Cardinality(s) - 1
  BY FS_Subset, FS_CardinalityType, FS_EmptySet, FS_RemoveElement
<1>4. /\ sum[{}] = 0
      /\ \A s \in SUBSET S :
           s # {} => c(s) \in s /\ sum[s] = f[c(s)] + sum[s \ {c(s)}]
  <2> HIDE DEF sum
  <2>1. sum[{}] = 0
    BY <1>2
  <2>2. ASSUME NEW s \in SUBSET S, s # {}
        PROVE  c(s) \in s /\ sum[s] = f[c(s)] + sum[s \ {c(s)}]
    <3>1. c(s) \in s
      BY <2>2
    <3>2. sum[s] = Sum(sum)[s]
      BY <1>2
    <3> HIDE DEF c
    <3>3. Sum(sum)[s] = f[c(s)] + sum[s \ {c(s)}]
      BY <2>2
    <3> QED
      BY <3>1, <3>2, <3>3
  <2> QED
    BY <2>1, <2>2
<1> HIDE DEF c, sum
<1> DEFINE Bounds(s) == sum[s] \in Nat /\ \A k \in s : f[k] <= sum[s]
           T == {n \in Nat : \A s \in SUBSET S : Cardinality(s) = n => Bounds(s)}
<1>5. 0 \in T
  <2>1. Bounds({})
    BY <1>4
  <2> HIDE DEF Bounds
  <2> QED
    BY <1>3, <2>1
<1>6. ASSUME NEW n \in T
      PROVE  n + 1 \in T
  <2> SUFFICES ASSUME NEW s \in SUBSET S, Cardinality(s) = n + 1
               PROVE  Bounds(s)
    OBVIOUS
  <2> DEFINE x == c(s)
             r == s \ {x}
  <2>1. s # {}
    BY <1>3
  <2>2. x \in s /\ sum[s] = f[x] + sum[r] /\ r \in SUBSET S /\ s = r \cup {x}
    BY <1>4, <2>1
  <2>3. Cardinality(r) = n
    BY <1>3, <2>2
  <2> HIDE DEF x, r
  <2>4. sum[r] \in Nat /\ \A k \in r : f[k] <= sum[r]
    BY <2>2, <2>3
  <2>5. \A k \in s : f[k] \in Nat
    OBVIOUS
  <2> QED
    BY <2>2, <2>4, <2>5
<1>7. T = Nat
  <2>1. T \in SUBSET Nat
    OBVIOUS
  <2> HIDE DEF T
  <2> QED
    BY <2>1, <1>5, <1>6, NatSetInduction
<1>8. Cardinality(S) \in T
  BY <1>3, <1>7
<1>9. Bounds(S)
  BY <1>8
<1> QED
  BY <1>1, <1>9

=============================================================================
