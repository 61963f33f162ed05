---------------------------- MODULE StatsProofs -----------------------------
(***************************************************************************)
(* Theorems about what STATS answers: the figures (MovementStats.tla), for *)
(* any behaviour of the pause detector, and the dates that the client asks *)
(* for (Calendar.tla), for every year.  The figures are sums, so that sums *)
(* come first: what SumFunction does not depend on (the order), and how it *)
(* splits.  Induction is on the size of the set, by the least              *)
(* counterexample.                                                         *)
(***************************************************************************)
EXTENDS TrackerProofs, MCStats, FiniteSetTheorems, WellFoundedInduction

-----------------------------------------------------------------------------
(***************************************************************************)
(* Sums.                                                                   *)
(***************************************************************************)
LEMMA LeastNat ==
  ASSUME NEW T, T \subseteq Nat, T # {}
  PROVE  \E n \in T : \A m \in T : n <= m
<1>1. PICK n \in T : \A m \in T : <<m, n>> \notin OpToRel(<, Nat)
  BY NatLessThanWellFounded, WFMin
<1>2. ASSUME NEW m \in T
      PROVE  n <= m
  <2>1. ~(m < n)
    BY <1>1 DEF OpToRel
  <2>2. QED
    BY <2>1
<1>3. QED
  BY <1>2

\* The element a fold takes first.
First(s) == CHOOSE x \in s : TRUE

LEMMA FirstIn == ASSUME NEW s, s # {} PROVE First(s) \in s
BY DEF First

\* g[s] is the sum of f over s, for the sets s of at most n of S.
Sums(f, S, g, n) == \A s \in SUBSET S : Cardinality(s) <= n =>
  g[s] = IF s = {} THEN 0 ELSE f[First(s)] + g[s \ {First(s)}]

LEMMA Smaller ==
  ASSUME NEW S, IsFiniteSet(S), NEW s \in SUBSET S, NEW x \in s
  PROVE  /\ IsFiniteSet(s) /\ s \ {x} \in SUBSET S
         /\ Cardinality(s) \in Nat /\ Cardinality(s \ {x}) \in Nat
         /\ Cardinality(s) = Cardinality(s \ {x}) + 1
<1>1. IsFiniteSet(s)
  BY FS_Subset
<1>2. IsFiniteSet(s \ {x}) /\ Cardinality(s \ {x}) = Cardinality(s) - 1
  BY <1>1, FS_RemoveElement
<1>3. Cardinality(s) \in Nat /\ Cardinality(s \ {x}) \in Nat
  BY <1>1, <1>2, FS_CardinalityType
<1>4. QED
  BY <1>1, <1>2, <1>3

LEMMA SumsExist ==
  ASSUME NEW f, NEW S, IsFiniteSet(S), NEW n \in Nat
  PROVE  \E g : Sums(f, S, g, n)
<1> DEFINE T == {m \in Nat : ~\E g : Sums(f, S, g, m)}
<1> SUFFICES ASSUME T # {}
             PROVE  FALSE
  OBVIOUS
<1>1. PICK m \in T : \A k \in T : m <= k
  BY LeastNat
<1>2. m # 0
  <2> DEFINE g == [s \in SUBSET S |-> 0]
  <2>1. ASSUME NEW s \in SUBSET S, Cardinality(s) <= 0
        PROVE  s = {}
    BY <2>1, FS_Subset, FS_CardinalityType, FS_EmptySet
  <2>2. Sums(f, S, g, 0)
    BY <2>1 DEF Sums
  <2>3. QED
    BY <1>1, <2>2
<1>3. m - 1 \in Nat /\ m - 1 \notin T
  BY <1>1, <1>2
<1>4. PICK g : Sums(f, S, g, m - 1)
  BY <1>3
<1> DEFINE h == [s \in SUBSET S |-> IF Cardinality(s) = m THEN f[First(s)] + g[s \ {First(s)}] ELSE g[s]]
<1>5. ASSUME NEW s \in SUBSET S, Cardinality(s) <= m
      PROVE  h[s] = IF s = {} THEN 0 ELSE f[First(s)] + h[s \ {First(s)}]
  <2>1. CASE s = {}
    <3>1. Cardinality(s) = 0
      BY <2>1, FS_EmptySet
    <3>2. h[s] = g[s] /\ Cardinality(s) <= m - 1
      BY <1>2, <1>3, <3>1
    <3>3. QED
      BY <1>4, <2>1, <3>2 DEF Sums
  <2>2. CASE s # {}
    <3> DEFINE r == s \ {First(s)}
    <3>1. /\ r \in SUBSET S /\ Cardinality(r) \in Nat /\ Cardinality(s) \in Nat
          /\ Cardinality(s) = Cardinality(r) + 1
      BY <2>2, FirstIn, Smaller
    <3>2. h[r] = g[r]
      BY <1>3, <1>5, <3>1
    <3>3. CASE Cardinality(s) = m
      BY <2>2, <3>2, <3>3
    <3>4. CASE Cardinality(s) # m
      <4>1. h[s] = g[s] /\ Cardinality(s) <= m - 1
        BY <1>3, <1>5, <3>1, <3>4
      <4>2. QED
        BY <1>4, <2>2, <3>2, <4>1 DEF Sums
    <3>5. QED
      BY <3>3, <3>4
  <2>3. QED
    BY <2>1, <2>2
<1>6. Sums(f, S, h, m)
  BY <1>5 DEF Sums
<1>7. QED
  BY <1>1, <1>6

\* What the community module's fold amounts to.
LEMMA FoldSums ==
  ASSUME NEW f, NEW S, IsFiniteSet(S)
  PROVE  \E g : Sums(f, S, g, Cardinality(S)) /\ SumFunctionOnSet(f, S) = g[S]
<1> DEFINE Rec(g) == g = [s \in SUBSET S |-> IF s = {} THEN 0 ELSE f[First(s)] + g[s \ {First(s)}]]
           iter == CHOOSE g : Rec(g)
<1>1. \E g : Rec(g)
  <2>1. PICK g : Sums(f, S, g, Cardinality(S))
    BY FS_CardinalityType, SumsExist
  <2> DEFINE h == [s \in SUBSET S |-> g[s]]
  <2>2. ASSUME NEW s \in SUBSET S
        PROVE  h[s] = IF s = {} THEN 0 ELSE f[First(s)] + h[s \ {First(s)}]
    <3>1. Cardinality(s) <= Cardinality(S)
      BY FS_Subset
    <3>2. s \ {First(s)} \in SUBSET S
      OBVIOUS
    <3>3. QED
      BY <2>1, <3>1, <3>2 DEF Sums
  <2>3. Rec(h)
    BY <2>2
  <2>4. QED
    BY <2>3
<1>2. Rec(iter)
  BY <1>1
<1>3. Sums(f, S, iter, Cardinality(S))
  <2> HIDE DEF iter
  <2>1. QED
    BY <1>2 DEF Sums
<1>4. SumFunctionOnSet(f, S) = iter[S]
  BY DEF SumFunctionOnSet, FoldFunctionOnSet, MapThenFoldSet, First
<1>5. QED
  BY <1>3, <1>4
\* Two sums of the same values are equal.
LEMMA SumsAgree ==
  ASSUME NEW f, NEW e, NEW S, IsFiniteSet(S), NEW R \in SUBSET S, NEW g, NEW h, \A x \in S : e[x] = f[x],
         Sums(f, S, g, Cardinality(S)), Sums(e, R, h, Cardinality(R))
  PROVE  \A s \in SUBSET R : g[s] = h[s]
<1> DEFINE T == {m \in Nat : \E s \in SUBSET R : Cardinality(s) = m /\ g[s] # h[s]}
<1>0. ASSUME NEW s \in SUBSET R
      PROVE  /\ s \in SUBSET S /\ IsFiniteSet(s) /\ Cardinality(s) \in Nat
             /\ Cardinality(s) <= Cardinality(S) /\ Cardinality(s) <= Cardinality(R)
  <2>1. IsFiniteSet(R) /\ s \in SUBSET S
    BY FS_Subset
  <2>2. QED
    BY <2>1, FS_Subset, FS_CardinalityType
<1> SUFFICES ASSUME T # {}
             PROVE  FALSE
  BY <1>0
<1>1. PICK m \in T : \A k \in T : m <= k
  BY LeastNat
<1>2. PICK s \in SUBSET R : Cardinality(s) = m /\ g[s] # h[s]
  BY <1>1
<1>3. s # {}
  BY <1>0, <1>2 DEF Sums
<1> DEFINE r == s \ {First(s)}
<1>4. First(s) \in s /\ r \in SUBSET R /\ Cardinality(r) \in Nat /\ Cardinality(r) < m
  BY <1>0, <1>2, <1>3, FirstIn, Smaller
<1>5. g[r] = h[r]
  BY <1>1, <1>4
<1>6. g[s] = f[First(s)] + g[r] /\ h[s] = e[First(s)] + h[r] /\ e[First(s)] = f[First(s)]
  BY <1>0, <1>3, <1>4 DEF Sums
<1>7. QED
  BY <1>2, <1>5, <1>6

Sum(f, S) == SumFunctionOnSet(f, S)

\* The fold takes one element of the set first.
LEMMA SumUnfolds ==
  ASSUME NEW f, NEW S, IsFiniteSet(S)
  PROVE  Sum(f, S) = IF S = {} THEN 0 ELSE f[First(S)] + Sum(f, S \ {First(S)})
<1>1. PICK g : Sums(f, S, g, Cardinality(S)) /\ Sum(f, S) = g[S]
  BY FoldSums DEF Sum
<1>2. g[S] = IF S = {} THEN 0 ELSE f[First(S)] + g[S \ {First(S)}]
  BY <1>1, FS_CardinalityType DEF Sums
<1>3. S \ {First(S)} \in SUBSET S /\ IsFiniteSet(S \ {First(S)})
  BY FS_Subset
<1>4. PICK h : Sums(f, S \ {First(S)}, h, Cardinality(S \ {First(S)})) /\ Sum(f, S \ {First(S)}) = h[S \ {First(S)}]
  BY <1>3, FoldSums DEF Sum
<1>5. g[S \ {First(S)}] = h[S \ {First(S)}]
  BY <1>1, <1>3, <1>4, SumsAgree
<1>6. QED
  BY <1>1, <1>2, <1>4, <1>5

\* And depends on the values at its elements only.
LEMMA SumDependsOn ==
  ASSUME NEW f, NEW e, NEW S, IsFiniteSet(S), \A x \in S : e[x] = f[x]
  PROVE  Sum(e, S) = Sum(f, S)
<1>1. PICK g : Sums(f, S, g, Cardinality(S)) /\ Sum(f, S) = g[S]
  BY FoldSums DEF Sum
<1>2. PICK h : Sums(e, S, h, Cardinality(S)) /\ Sum(e, S) = h[S]
  BY FoldSums DEF Sum
<1>3. g[S] = h[S]
  BY <1>1, <1>2, SumsAgree
<1>4. QED
  BY <1>1, <1>2, <1>3

\* Induction on finite sets: what holds of a set if it does of its proper
\* subsets holds of all.
LEMMA SetInduction ==
  ASSUME NEW S, IsFiniteSet(S), NEW G,
         \A s \in SUBSET S : (\A r \in SUBSET s : r # s => r \in G) => s \in G
  PROVE  S \in G
<1> DEFINE T == {m \in Nat : \E s \in SUBSET S : Cardinality(s) = m /\ s \notin G}
<1>1. \A s \in SUBSET S : IsFiniteSet(s) /\ Cardinality(s) \in Nat
  BY FS_Subset, FS_CardinalityType
<1> SUFFICES ASSUME T # {}
             PROVE  FALSE
  BY <1>1
<1>2. PICK m \in T : \A k \in T : m <= k
  BY LeastNat
<1>3. PICK s \in SUBSET S : Cardinality(s) = m /\ s \notin G
  BY <1>2
<1>4. PICK r \in SUBSET s : r # s /\ r \notin G
  BY <1>3
<1>5. Cardinality(r) \in Nat /\ Cardinality(r) <= m /\ Cardinality(r) # m
  BY <1>1, <1>3, <1>4, FS_Subset
<1>6. r \in SUBSET S
  OBVIOUS
<1>7. QED
  BY <1>2, <1>4, <1>5, <1>6

\* The order does not matter: any element may be taken out first.
LEMMA SumTakesOut ==
  ASSUME NEW f, NEW S, IsFiniteSet(S), \A x \in S : f[x] \in Nat
  PROVE  Sum(f, S) \in Nat /\ \A x \in S : f[x] + Sum(f, S \ {x}) = Sum(f, S)
<1> DEFINE G == {s \in SUBSET S : Sum(f, s) \in Nat /\ \A x \in s : f[x] + Sum(f, s \ {x}) = Sum(f, s)}
<1>1. ASSUME NEW s \in SUBSET S, \A r \in SUBSET s : r # s => r \in G
      PROVE  s \in G
  <2>1. IsFiniteSet(s)
    BY FS_Subset
  <2>2. CASE s = {}
    <3>1. Sum(f, s) = 0
      BY <2>1, <2>2, SumUnfolds
    <3>2. QED
      BY <2>2, <3>1
  <2>3. CASE s # {}
    <3>1. PICK y \in s : f[y] + Sum(f, s \ {y}) = Sum(f, s)
      BY <2>1, <2>3, SumUnfolds, FirstIn
    <3>2. \A x \in s : s \ {x} \in G /\ f[x] \in Nat
      BY <1>1
    <3>3. Sum(f, s) \in Nat
      BY <3>1, <3>2
    <3>4. ASSUME NEW x \in s, x # y
          PROVE  f[x] + Sum(f, s \ {x}) = Sum(f, s)
      <4>1. f[x] + Sum(f, (s \ {y}) \ {x}) = Sum(f, s \ {y})
        BY <3>2, <3>4
      <4>2. f[y] + Sum(f, (s \ {x}) \ {y}) = Sum(f, s \ {x})
        BY <3>2, <3>4
      <4>3. (s \ {x}) \ {y} = (s \ {y}) \ {x} /\ (s \ {x}) \ {y} \in SUBSET s /\ (s \ {x}) \ {y} # s
        OBVIOUS
      <4>4. Sum(f, (s \ {x}) \ {y}) \in Nat
        BY <1>1, <4>3
      <4>5. QED
        BY <3>1, <3>2, <4>1, <4>2, <4>3, <4>4
    <3>5. QED
      BY <3>1, <3>3, <3>4
  <2>4. QED
    BY <2>2, <2>3
<1>2. S \in G
  <2> HIDE DEF G
  <2>1. QED
    BY <1>1, SetInduction
<1>3. QED
  BY <1>2
LEMMA EmptySum == \A f : Sum(f, {}) = 0
BY FS_EmptySet, SumUnfolds

LEMMA SumSplits ==
  ASSUME NEW f, NEW S, IsFiniteSet(S), \A x \in S : f[x] \in Nat, NEW R \in SUBSET S
  PROVE  /\ Sum(f, R) \in Nat /\ Sum(f, S \ R) \in Nat
         /\ Sum(f, R) + Sum(f, S \ R) = Sum(f, S)
<1> DEFINE G == {s \in SUBSET S : Sum(f, s \cap R) + Sum(f, s \ R) = Sum(f, s)}
<1>0. ASSUME NEW s \in SUBSET S
      PROVE  IsFiniteSet(s) /\ Sum(f, s) \in Nat /\ \A x \in s : f[x] + Sum(f, s \ {x}) = Sum(f, s)
  <2>1. IsFiniteSet(s)
    BY FS_Subset
  <2>2. \A x \in s : f[x] \in Nat
    OBVIOUS
  <2>3. QED
    BY <2>1, <2>2, SumTakesOut
<1>1. ASSUME NEW s \in SUBSET S, \A r \in SUBSET s : r # s => r \in G
      PROVE  s \in G
  <2>1. CASE s = {}
    <3>1. s \cap R = {} /\ s \ R = {}
      BY <2>1
    <3>2. QED
      BY <2>1, <3>1, EmptySum
  <2>2. CASE s # {}
    <3>1. PICK x \in s : TRUE
      BY <2>2
    <3> DEFINE r == s \ {x}
    <3>2. Sum(f, r \cap R) + Sum(f, r \ R) = Sum(f, r)
      BY <1>1
    <3>3. f[x] + Sum(f, r) = Sum(f, s) /\ f[x] \in Nat
      BY <1>0
    <3>4. Sum(f, r \cap R) \in Nat /\ Sum(f, r \ R) \in Nat
      BY <1>0
    <3>5. CASE x \in R
      <4>1. s \ R = r \ R /\ (s \cap R) \ {x} = r \cap R /\ x \in s \cap R /\ s \cap R \in SUBSET S
        BY <3>5
      <4>2. f[x] + Sum(f, r \cap R) = Sum(f, s \cap R)
        BY <1>0, <4>1
      <4>3. Sum(f, s \ R) = Sum(f, r \ R)
        BY <4>1
      <4>4. Sum(f, s \cap R) + Sum(f, s \ R) = Sum(f, s)
        BY <3>2, <3>3, <3>4, <4>2, <4>3
      <4>5. QED
        BY <4>4
    <3>6. CASE x \notin R
      <4>1. s \cap R = r \cap R /\ (s \ R) \ {x} = r \ R /\ x \in s \ R /\ s \ R \in SUBSET S
        BY <3>6
      <4>2. f[x] + Sum(f, r \ R) = Sum(f, s \ R)
        BY <1>0, <4>1
      <4>3. Sum(f, s \cap R) = Sum(f, r \cap R)
        BY <4>1
      <4>4. Sum(f, s \cap R) + Sum(f, s \ R) = Sum(f, s)
        BY <3>2, <3>3, <3>4, <4>2, <4>3
      <4>5. QED
        BY <4>4
    <3>7. QED
      BY <3>5, <3>6
  <2>3. QED
    BY <2>1, <2>2
<1>2. S \in G
  <2> HIDE DEF G
  <2>1. QED
    BY <1>1, SetInduction
<1>3. S \cap R = R /\ S \ R \in SUBSET S
  OBVIOUS
<1>4. QED
  BY <1>0, <1>2, <1>3

\* Two parts that have nothing in common.
LEMMA SumOfTwo ==
  ASSUME NEW f, NEW S, IsFiniteSet(S), \A x \in S : f[x] \in Nat,
         NEW A \in SUBSET S, NEW B \in SUBSET S, A \cap B = {}
  PROVE  Sum(f, A) + Sum(f, B) <= Sum(f, S)
<1>1. /\ Sum(f, A) \in Nat /\ Sum(f, S \ A) \in Nat
      /\ Sum(f, A) + Sum(f, S \ A) = Sum(f, S)
  BY SumSplits
<1>2. IsFiniteSet(S \ A) /\ B \in SUBSET (S \ A) /\ \A x \in S \ A : f[x] \in Nat
  BY FS_Subset
<1>3. /\ Sum(f, B) \in Nat /\ Sum(f, (S \ A) \ B) \in Nat
      /\ Sum(f, B) + Sum(f, (S \ A) \ B) = Sum(f, S \ A)
  BY <1>2, SumSplits
<1>4. QED
  BY <1>1, <1>3

\* A sum by groups.
LEMMA SumByGroup ==
  ASSUME NEW f, NEW S, IsFiniteSet(S), \A x \in S : f[x] \in Nat,
         NEW I, IsFiniteSet(I), NEW p, \A x \in S : p[x] \in I
  PROVE  Sum(f, S) = Sum([i \in I |-> Sum(f, {x \in S : p[x] = i})], I)
<1> DEFINE F == [i \in I |-> Sum(f, {x \in S : p[x] = i})]
           Part(J) == {x \in S : p[x] \in J}
           G == {J \in SUBSET I : Sum(f, Part(J)) = Sum(F, J)}
<1>1. \A i \in I : F[i] \in Nat
  <2>1. \A i \in I : {x \in S : p[x] = i} \in SUBSET S
    OBVIOUS
  <2>2. QED
    BY <2>1, SumSplits
<1>2. ASSUME NEW J \in SUBSET I, \A K \in SUBSET J : K # J => K \in G
      PROVE  J \in G
  <2>1. CASE J = {}
    <3>1. Part(J) = {}
      BY <2>1
    <3>2. QED
      BY <2>1, <3>1, EmptySum
  <2>2. CASE J # {}
    <3>1. PICK i \in J : TRUE
      BY <2>2
    <3>2. Sum(f, Part(J \ {i})) = Sum(F, J \ {i})
      BY <1>2
    <3>3. F[i] + Sum(F, J \ {i}) = Sum(F, J)
      <4>1. IsFiniteSet(J) /\ \A j \in J : F[j] \in Nat
        BY <1>1, FS_Subset
      <4>2. QED
        BY <4>1, SumTakesOut
    <3>4. Sum(f, {x \in S : p[x] = i}) + Sum(f, Part(J \ {i})) = Sum(f, Part(J))
      <4>1. IsFiniteSet(Part(J)) /\ \A x \in Part(J) : f[x] \in Nat
        <5>1. Part(J) \in SUBSET S
          OBVIOUS
        <5>2. QED
          BY <5>1, FS_Subset
      <4>2. /\ {x \in S : p[x] = i} \in SUBSET Part(J)
            /\ Part(J) \ {x \in S : p[x] = i} = Part(J \ {i})
        OBVIOUS
      <4> HIDE DEF Part
      <4>3. QED
        BY <4>1, <4>2, SumSplits
    <3>5. F[i] = Sum(f, {x \in S : p[x] = i})
      OBVIOUS
    <3>6. QED
      BY <3>2, <3>3, <3>4, <3>5
  <2>3. QED
    BY <2>1, <2>2
<1>3. I \in G
  <2> HIDE DEF G
  <2>1. QED
    BY <1>2, SetInduction
<1>4. Part(I) = S
  OBVIOUS
<1>5. QED
  BY <1>3, <1>4

\* Intervals that do not overlap are no longer, together, than the time they
\* lie in.
LEMMA SumOfSpans ==
  ASSUME NEW f, NEW W, IsFiniteSet(W), NEW m \in Nat,
         \A w \in W : /\ w[1].ts \in Nat /\ w[2].ts \in Nat /\ w[1].ts < w[2].ts /\ w[2].ts <= m
                      /\ f[w] = w[2].ts - w[1].ts,
         \A w, v \in W : w # v => w[2].ts <= v[1].ts \/ v[2].ts <= w[1].ts
  PROVE  Sum(f, W) <= m
<1> DEFINE Until(V, k) == \A w \in V : w[2].ts <= k
           T == {k \in Nat : \E V \in SUBSET W : Until(V, k) /\ ~(Sum(f, V) <= k)}
<1>0. \A V \in SUBSET W : IsFiniteSet(V) /\ Sum(f, V) \in Nat /\ \A w \in V : f[w] + Sum(f, V \ {w}) = Sum(f, V)
  <2>1. \A w \in W : f[w] \in Nat
    OBVIOUS
  <2>2. ASSUME NEW V \in SUBSET W
        PROVE  IsFiniteSet(V) /\ \A w \in V : f[w] \in Nat
    BY <2>1, FS_Subset
  <2>3. QED
    BY <2>2, SumTakesOut
<1> SUFFICES ASSUME T # {}
             PROVE  FALSE
  <2>1. Until(W, m)
    OBVIOUS
  <2>2. QED
    BY <2>1
<1>1. PICK k \in T : \A j \in T : k <= j
  BY LeastNat
<1>2. PICK V \in SUBSET W : Until(V, k) /\ ~(Sum(f, V) <= k)
  BY <1>1
<1>3. V # {} /\ k \in Nat
  BY <1>2, EmptySum
<1>4. CASE \A w \in V : w[2].ts # k
  <2>1. k - 1 \in Nat /\ Until(V, k - 1)
    BY <1>2, <1>3, <1>4
  <2>2. k - 1 \notin T
    BY <1>1, <1>3
  <2>3. Sum(f, V) <= k - 1
    BY <2>1, <2>2
  <2>4. QED
    BY <1>0, <1>2, <1>3, <2>3
<1>5. CASE \E w \in V : w[2].ts = k
  <2>1. PICK w \in V : w[2].ts = k
    BY <1>5
  <2>2. w[1].ts \in Nat /\ w[1].ts < k /\ f[w] = k - w[1].ts
    BY <2>1
  <2>3. Until(V \ {w}, w[1].ts)
    <3>1. ASSUME NEW v \in V \ {w}
          PROVE  v[2].ts <= w[1].ts
      <4>1. v \in W /\ w \in W /\ v[1].ts < v[2].ts /\ v[2].ts <= k /\ v[1].ts \in Nat /\ v[2].ts \in Nat
        BY <1>2
      <4>2. w[2].ts <= v[1].ts \/ v[2].ts <= w[1].ts
        BY <3>1, <4>1
      <4>3. QED
        BY <2>1, <2>2, <4>1, <4>2
    <3>2. QED
      BY <3>1
  <2>4. w[1].ts \notin T
    BY <1>1, <1>3, <2>2
  <2>5. Sum(f, V \ {w}) <= w[1].ts /\ Sum(f, V \ {w}) \in Nat
    BY <1>0, <2>2, <2>3, <2>4
  <2>6. f[w] + Sum(f, V \ {w}) = Sum(f, V)
    BY <1>0
  <2>7. QED
    BY <1>0, <1>2, <1>3, <2>2, <2>5, <2>6
<1>6. QED
  BY <1>4, <1>5

-----------------------------------------------------------------------------
(***************************************************************************)
(* Windows.                                                                *)
(***************************************************************************)
LEMMA WindowFields ==
  ASSUME NEW R \in SUBSET Row, NEW w \in Counted(R)
  PROVE  /\ w[1] \in R /\ w[2] \in R /\ w = <<w[1], w[2]>>
         /\ w[1].trip \in Trips /\ w[1].trip \in Nat /\ w[1].trip = w[2].trip
         /\ w[1].ts \in Nat /\ w[2].ts \in Nat /\ w[1].ts < w[2].ts
         /\ w[1].at \in Int /\ w[2].at \in Int
         /\ ~\E r \in R : r.trip = w[1].trip /\ w[1].ts < r.ts /\ r.ts < w[2].ts
<1>1. /\ w \in R \X R /\ w[1].trip = w[2].trip /\ Span(w) \in 1..MaxGap
      /\ ~\E r \in R : Before(w[1], r) /\ Before(r, w[2])
  BY DEF Counted, Windows
<1>2. /\ w[1] \in R /\ w[2] \in R /\ w = <<w[1], w[2]>> /\ w[1] \in Row /\ w[2] \in Row
  BY <1>1
<1>3. /\ w[1].trip \in Trips /\ w[1].trip \in Nat
      /\ w[1].ts \in Nat /\ w[2].ts \in Nat /\ w[1].at \in Int /\ w[2].at \in Int
  BY <1>2, RowFields, TripsOrdered
<1>4. w[1].ts < w[2].ts
  BY <1>1, <1>3, MaxGapIsTime DEF Span
<1>5. ~\E r \in R : r.trip = w[1].trip /\ w[1].ts < r.ts /\ r.ts < w[2].ts
  BY <1>1, <1>3 DEF Before
<1>6. QED
  BY <1>1, <1>2, <1>3, <1>4, <1>5

\* What a window of a trip is.
LEMMA IsCounted ==
  ASSUME NEW R \in SUBSET Row, NEW r \in R, NEW s \in R, r.trip = s.trip, r.ts < s.ts, s.ts - r.ts <= MaxGap,
         ~\E q \in R : q.trip = r.trip /\ r.ts < q.ts /\ q.ts < s.ts
  PROVE  <<r, s>> \in Counted(R)
<1>1. r.trip \in Nat /\ r.ts \in Nat /\ s.ts \in Nat /\ \A q \in R : q.trip \in Nat /\ q.ts \in Nat
  <2>1. \A q \in R : q.trip \in Trips /\ q.ts \in Nat
    BY RowFields
  <2>2. QED
    BY <2>1, TripsOrdered
<1>2. Before(r, s)
  BY <1>1 DEF Before
<1>3. ASSUME NEW q \in R, Before(r, q), Before(q, s)
      PROVE  FALSE
  <2>1. q.trip = r.trip /\ r.ts < q.ts /\ q.ts < s.ts
    BY <1>1, <1>3 DEF Before
  <2>2. QED
    BY <2>1
<1>4. <<r, s>> \in Windows(R)
  BY <1>2, <1>3 DEF Windows
<1>5. s.ts - r.ts \in 1..MaxGap
  BY <1>1, MaxGapIsTime
<1>6. QED
  BY <1>4, <1>5 DEF Counted, Span

\* The rows of a trip, or of an interval: with two rows of a trip they have
\* all of the trip's between them, and their windows are some of all.
Whole(Q, R) == \A q, s \in Q : \A r \in R :
  q.trip = r.trip /\ s.trip = r.trip /\ q.ts < r.ts /\ r.ts < s.ts => r \in Q

LEMMA CountedWithin ==
  ASSUME NEW R \in SUBSET Row, NEW Q \in SUBSET R, Whole(Q, R)
  PROVE  Counted(Q) = {w \in Counted(R) : w[1] \in Q /\ w[2] \in Q}
<1>0. Q \in SUBSET Row
  OBVIOUS
<1>1. ASSUME NEW w \in Counted(Q)
      PROVE  w \in Counted(R) /\ w[1] \in Q /\ w[2] \in Q
  <2>1. /\ w[1] \in Q /\ w[2] \in Q /\ w = <<w[1], w[2]>> /\ w[1].trip = w[2].trip /\ w[1].ts < w[2].ts
        /\ ~\E r \in Q : r.trip = w[1].trip /\ w[1].ts < r.ts /\ r.ts < w[2].ts
    BY <1>0, WindowFields
  <2>2. ~\E r \in R : r.trip = w[1].trip /\ w[1].ts < r.ts /\ r.ts < w[2].ts
    BY <2>1 DEF Whole
  <2>3. w[2].ts - w[1].ts <= MaxGap
    BY MaxGapIsTime DEF Counted, Span
  <2>4. QED
    BY <2>1, <2>2, <2>3, IsCounted
<1>2. ASSUME NEW w \in Counted(R), w[1] \in Q, w[2] \in Q
      PROVE  w \in Counted(Q)
  <2>1. /\ w = <<w[1], w[2]>> /\ w[1].trip = w[2].trip /\ w[1].ts < w[2].ts
        /\ ~\E r \in R : r.trip = w[1].trip /\ w[1].ts < r.ts /\ r.ts < w[2].ts
    BY WindowFields
  <2>2. w[2].ts - w[1].ts <= MaxGap
    BY MaxGapIsTime DEF Counted, Span
  <2>3. QED
    BY <1>0, <1>2, <2>1, <2>2, IsCounted
<1>3. QED
  BY <1>1, <1>2

LEMMA WindowsFinite ==
  ASSUME NEW R, IsFiniteSet(R)
  PROVE  IsFiniteSet(Counted(R))
<1>1. IsFiniteSet(R \X R)
  BY FS_Product
<1>2. Counted(R) \in SUBSET (R \X R)
  BY DEF Counted, Windows
<1>3. QED
  BY <1>1, <1>2, FS_Subset

-----------------------------------------------------------------------------
(***************************************************************************)
(* The figures of some of the windows, as sums of the same two functions.  *)
(***************************************************************************)
SpanOn(C) == [w \in C |-> Span(w)]
LengthOn(C) == [w \in C |-> Distance(w[1].at, w[2].at)]

LEMMA FiguresAreSums ==
  ASSUME NEW C, IsFiniteSet(C), NEW W \in SUBSET C
  PROVE  Seconds(W) = Sum(SpanOn(C), W) /\ Meters(W) = Sum(LengthOn(C), W)
<1>1. IsFiniteSet(W)
  BY FS_Subset
<1>2. Seconds(W) = Sum(SpanOn(W), W)
  BY DEF Seconds, SumFunction, Sum, SpanOn
<1>3. Meters(W) = Sum(LengthOn(W), W)
  BY DEF Meters, SumFunction, Sum, LengthOn
<1>4. \A w \in W : SpanOn(W)[w] = SpanOn(C)[w] /\ LengthOn(W)[w] = LengthOn(C)[w]
  BY DEF SpanOn, LengthOn
<1>5. QED
  BY <1>1, <1>2, <1>3, <1>4, SumDependsOn

LEMMA FiguresAreNat ==
  ASSUME NEW R \in SUBSET Row, NEW w \in Counted(R)
  PROVE  /\ SpanOn(Counted(R))[w] \in Nat /\ LengthOn(Counted(R))[w] \in Nat
         /\ SpanOn(Counted(R))[w] = w[2].ts - w[1].ts
<1>1. Span(w) = w[2].ts - w[1].ts /\ Span(w) \in Nat
  BY WindowFields DEF Span
<1>2. Distance(w[1].at, w[2].at) \in Nat
  BY WindowFields, DistanceIsMetric
<1>3. QED
  BY <1>1, <1>2 DEF SpanOn, LengthOn

-----------------------------------------------------------------------------
(***************************************************************************)
(* The table.                                                              *)
(***************************************************************************)

\* It is finite, of the past, and has one row for each key: so it is whatever
\* the clients' timestamps are and whichever inserts fail.
Kept == /\ IsFiniteSet(rows)
        /\ \A r \in Recorded : r.ts <= clock /\ coord[r.trip] # None
        /\ \A r, s \in rows : r.trip = s.trip /\ r.ts = s.ts => r = s

LEMMA KeptInit == Init => Kept
<1> SUFFICES ASSUME Init
             PROVE  Kept
  OBVIOUS
<1>1. rows = {} /\ Recorded = {}
  BY DEF Init, Recorded
<1>2. QED
  BY <1>1, FS_EmptySet DEF Kept

LEMMA KeptStep == TypeOK /\ TypeOK' /\ Kept /\ [Next]_vars => Kept'
<1> SUFFICES ASSUME TypeOK, TypeOK', Kept, [Next]_vars
             PROVE  Kept'
  OBVIOUS
<1>0. \A r \in Recorded : r \in Row /\ r.trip \in Trips /\ r.ts \in Nat
  BY RecordedRows, RowFields
<1>1. ASSUME NEW i \in Trips, NEW p \in Places, NEW d \in Steps, Hear(i, p, d)
      PROVE  clock \in Nat /\ clock' \in Nat /\ clock <= clock' /\ clock + d \in Nat
  <2>1. clock \in Nat /\ d \in Nat
    BY TimeGoesOn DEF TypeOK
  <2>2. clock' = clock + d
    BY <1>1, HearKeeps
  <2>3. QED
    BY <2>1, <2>2
<1>2. ASSUME NEW i \in Trips, NEW p \in Places, NEW d \in Steps, Start(i, p, d)
      PROVE  Kept'
  <2>1. clock \in Nat /\ clock' \in Nat /\ clock <= clock' /\ coord[i] = None
    BY <1>1, <1>2 DEF Start
  <2>2. PICK r \in Row : /\ r.trip = i /\ r.ts = clock' /\ rows' = rows \cup {r}
                         /\ Recorded' = Recorded \cup {r} /\ pending = None
    BY <1>2, StartRecords
  <2>3. coord' = [coord EXCEPT ![i] = NewEntry(p)] /\ NewEntry(p) # None
    BY <1>2, Made DEF Start
  <2>4. \A j \in Trips : coord[j] # None => coord'[j] # None
    BY <2>3 DEF TypeOK
  <2>5. coord'[i] # None
    BY <2>3 DEF TypeOK
  <2>6. \A s \in rows : s \in Recorded
    BY DEF Recorded
  <2>7. IsFiniteSet(rows')
    BY <2>2, FS_AddElement DEF Kept
  <2>8. \A s \in Recorded' : s.ts <= clock' /\ coord'[s.trip] # None
    BY <1>0, <2>1, <2>2, <2>4, <2>5 DEF Kept
  <2>9. \A s, t \in rows' : s.trip = t.trip /\ s.ts = t.ts => s = t
    BY <2>1, <2>2, <2>6 DEF Kept
  <2>10. QED
    BY <2>7, <2>8, <2>9 DEF Kept
<1>3. ASSUME NEW i \in Trips, NEW p \in Places, NEW d \in Steps, Sample(i, p, d)
      PROVE  Kept'
  <2>1. clock \in Nat /\ clock' \in Nat /\ clock <= clock' /\ clock + d \in Nat /\ coord[i] # None
    BY <1>1, <1>3 DEF Sample
  <2>2. rows' = rows /\ \A s \in Recorded' : s \in Recorded \/ (s.ts = clock' /\ s.trip = i)
    BY <1>3, SampleRecords
  <2>3. coord'[i] # None /\ \A j \in Trips \ {i} : coord'[j] = coord[j]
    BY <1>3, <2>1, JudgeKeeps, Made DEF Sample
  <2>4. \A s \in Recorded' : s.ts <= clock' /\ coord'[s.trip] # None
    <3>1. ASSUME NEW s \in Recorded
          PROVE  s.ts <= clock' /\ coord'[s.trip] # None
      <4>1. s.ts <= clock /\ s.ts \in Nat /\ s.trip \in Trips /\ coord[s.trip] # None
        BY <1>0 DEF Kept
      <4>2. QED
        BY <2>1, <2>3, <4>1
    <3>2. QED
      BY <2>1, <2>2, <2>3, <3>1
  <2>5. QED
    BY <2>2, <2>4 DEF Kept
<1>4. CASE Write
  <2>1. /\ rows' = rows \cup {pending.row} /\ Recorded' = Recorded /\ UNCHANGED <<coord, clock>>
        /\ KeyFree(pending.row)
    BY <1>4, WriteRecords DEF Write
  <2>2. IsFiniteSet(rows')
    BY <2>1, FS_AddElement DEF Kept
  <2>3. \A s, t \in rows' : s.trip = t.trip /\ s.ts = t.ts => s = t
    BY <2>1 DEF Kept, KeyFree
  <2>4. QED
    BY <2>1, <2>2, <2>3 DEF Kept
<1>5. CASE WriteFails \/ UNCHANGED vars
  <2>1. rows' = rows /\ UNCHANGED <<coord, clock>> /\ Recorded' \subseteq Recorded
    BY <1>5 DEF WriteFails, vars, Recorded
  <2>2. QED
    BY <2>1 DEF Kept
<1>6. QED
  BY <1>2, <1>3, <1>4, <1>5 DEF Next

LEMMA TableIsKept == Spec => [](TypeOK /\ Kept)
BY TypeInit, TypeStep, KeptInit, KeptStep, PTL DEF Spec

-----------------------------------------------------------------------------
(***************************************************************************)
(* The theorems.                                                           *)
(***************************************************************************)
Moves(R) == {w \in Counted(R) : ~IsPause(w)}

LEMMA StatsAre ==
  ASSUME NEW R, NEW from \in Nat, NEW to \in Nat, from <= to
  PROVE  LET Q == Between(R, from, to)
         IN  /\ Stats(R, from, to).total = Seconds(Counted(Q))
             /\ Stats(R, from, to).movement = Seconds(Moves(Q))
             /\ Stats(R, from, to).pause = Seconds(Counted(Q) \ Moves(Q))
             /\ Stats(R, from, to).distance = Meters(Moves(Q))
<1>1. ~(from > to)
  OBVIOUS
<1>2. QED
  BY <1>1 DEF Stats, Moves

\* All rows are between the start and now.
LEMMA AllOfThem ==
  ASSUME TypeOK, Kept, NEW R \in SUBSET rows
  PROVE  Between(R, 0, clock) = R
<1>1. \A r \in R : r.ts \in Nat /\ r.ts <= clock /\ clock \in Nat
  BY RowFields DEF TypeOK, Kept, Recorded
<1>2. QED
  BY <1>1 DEF Between

\* The windows of a trip do not overlap.
LEMMA Apart ==
  ASSUME TypeOK, Kept, NEW w \in Counted(rows), NEW v \in Counted(rows), w # v, w[1].trip = v[1].trip
  PROVE  w[2].ts <= v[1].ts \/ v[2].ts <= w[1].ts
<1>1. /\ w[1] \in rows /\ w[2] \in rows /\ w = <<w[1], w[2]>> /\ w[2].trip = w[1].trip
      /\ w[1].ts \in Nat /\ w[2].ts \in Nat /\ w[1].ts < w[2].ts
      /\ ~\E r \in rows : r.trip = w[1].trip /\ w[1].ts < r.ts /\ r.ts < w[2].ts
  BY WindowFields DEF TypeOK
<1>2. /\ v[1] \in rows /\ v[2] \in rows /\ v = <<v[1], v[2]>> /\ v[2].trip = v[1].trip
      /\ v[1].ts \in Nat /\ v[2].ts \in Nat /\ v[1].ts < v[2].ts
      /\ ~\E r \in rows : r.trip = v[1].trip /\ v[1].ts < r.ts /\ r.ts < v[2].ts
  BY WindowFields DEF TypeOK
<1> SUFFICES ASSUME v[1].ts < w[2].ts, w[1].ts < v[2].ts
             PROVE  FALSE
  BY <1>1, <1>2
<1>3. w[1].ts = v[1].ts
  BY <1>1, <1>2
<1>4. w[2].ts = v[2].ts
  BY <1>1, <1>2, <1>3
<1>5. w[1] = v[1] /\ w[2] = v[2]
  BY <1>1, <1>2, <1>3, <1>4 DEF Kept
<1>6. QED
  BY <1>1, <1>2, <1>5

\* The figures of one trip, as sums over the windows of all.
LEMMA FiguresOfTrip ==
  ASSUME TypeOK, Kept, NEW i \in Trips
  PROVE  LET R == {r \in rows : r.trip = i}
             C == Counted(rows)
         IN  /\ Stats(R, 0, clock).total = Sum(SpanOn(C), {w \in C : w[1].trip = i})
             /\ Stats(R, 0, clock).distance = Sum(LengthOn(C), {w \in Moves(rows) : w[1].trip = i})
             /\ Stats(R, 0, clock).total <= clock
<1> DEFINE R == {r \in rows : r.trip = i}
           C == Counted(rows)
           W == {w \in C : w[1].trip = i}
<1>1. /\ Between(R, 0, clock) = R /\ R \in SUBSET rows /\ rows \in SUBSET Row
      /\ IsFiniteSet(C) /\ W \in SUBSET C /\ clock \in Nat
  <2>1. R \in SUBSET rows /\ W \in SUBSET C
    OBVIOUS
  <2>2. rows \in SUBSET Row /\ clock \in Nat /\ IsFiniteSet(C)
    BY WindowsFinite DEF Kept, TypeOK
  <2>3. Between(R, 0, clock) = R
    BY <2>1, AllOfThem
  <2>4. QED
    BY <2>1, <2>2, <2>3
<1>2. Counted(R) = W
  <2>1. Whole(R, rows)
    BY DEF Whole
  <2>2. Counted(R) = {w \in C : w[1] \in R /\ w[2] \in R}
    BY <1>1, <2>1, CountedWithin
  <2>3. \A w \in C : w[1] \in rows /\ w[2] \in rows /\ w[1].trip = w[2].trip
    BY <1>1, WindowFields
  <2>4. QED
    BY <2>2, <2>3
<1>3. Moves(R) = {w \in Moves(rows) : w[1].trip = i}
  BY <1>2 DEF Moves
<1>4. Moves(R) \in SUBSET C
  BY <1>2 DEF Moves
<1>5. Seconds(W) = Sum(SpanOn(C), W) /\ Meters(Moves(R)) = Sum(LengthOn(C), Moves(R))
  <2> HIDE DEF C, W, R
  <2>1. QED
    BY <1>1, <1>4, FiguresAreSums
<1>6. Sum(SpanOn(C), W) <= clock
  <2>1. IsFiniteSet(W)
    BY <1>1, FS_Subset
  <2>2. ASSUME NEW w \in W
        PROVE  /\ w[1].ts \in Nat /\ w[2].ts \in Nat /\ w[1].ts < w[2].ts /\ w[2].ts <= clock
               /\ SpanOn(C)[w] = w[2].ts - w[1].ts
    <3>1. w[2] \in rows /\ w[1].ts \in Nat /\ w[2].ts \in Nat /\ w[1].ts < w[2].ts
      BY <1>1, WindowFields
    <3>2. w[2].ts <= clock
      BY <3>1 DEF Kept, Recorded
    <3>3. QED
      BY <1>1, <3>1, <3>2, FiguresAreNat
  <2>3. \A w, v \in W : w # v => w[2].ts <= v[1].ts \/ v[2].ts <= w[1].ts
    BY Apart
  <2> HIDE DEF C, W
  <2>4. QED
    BY <1>1, <2>1, <2>2, <2>3, SumOfSpans
<1>7. Stats(R, 0, clock).total = Seconds(Counted(R)) /\ Stats(R, 0, clock).distance = Meters(Moves(R))
  <2>1. Between(R, 0, clock) = R
    BY <1>1
  <2> HIDE DEF R
  <2>2. /\ Stats(R, 0, clock).total = Seconds(Counted(Between(R, 0, clock)))
        /\ Stats(R, 0, clock).distance = Meters(Moves(Between(R, 0, clock)))
    <3>1. 0 \in Nat /\ clock \in Nat /\ 0 <= clock
      BY <1>1
    <3>2. QED
      BY <3>1, StatsAre
  <2>3. QED
    BY <2>1, <2>2
<1>8. QED
  BY <1>2, <1>3, <1>5, <1>6, <1>7

LEMMA TripsAddUpHolds == TypeOK /\ Kept => TripsAddUp
<1> SUFFICES ASSUME TypeOK, Kept
             PROVE  TripsAddUp
  OBVIOUS
<1> DEFINE C == Counted(rows)
           M == Moves(rows)
           all == Stats(rows, 0, clock)
           of(i) == Stats({r \in rows : r.trip = i}, 0, clock)
           trip == [w \in C |-> w[1].trip]
<1>1. /\ Between(rows, 0, clock) = rows /\ rows \in SUBSET Row /\ IsFiniteSet(C) /\ IsFiniteSet(M)
      /\ M \in SUBSET C /\ C \in SUBSET C /\ C \ M \in SUBSET C
  <2>1. rows \in SUBSET rows /\ rows \in SUBSET Row /\ M \in SUBSET C
    BY DEF Moves, TypeOK
  <2>2. IsFiniteSet(C)
    BY WindowsFinite DEF Kept
  <2>3. IsFiniteSet(M)
    BY <2>1, <2>2, FS_Subset
  <2>4. QED
    BY <2>1, <2>2, <2>3, AllOfThem
<1>2. /\ all.total = Seconds(C) /\ all.movement = Seconds(M) /\ all.pause = Seconds(C \ M)
      /\ all.distance = Meters(M)
  <2>1. 0 \in Nat /\ clock \in Nat /\ 0 <= clock
    BY DEF TypeOK
  <2>2. QED
    BY <1>1, <2>1, StatsAre
<1>3. /\ Seconds(C) = Sum(SpanOn(C), C) /\ Seconds(M) = Sum(SpanOn(C), M)
      /\ Seconds(C \ M) = Sum(SpanOn(C), C \ M) /\ Meters(M) = Sum(LengthOn(C), M)
  <2> HIDE DEF C, M
  <2>1. QED
    BY <1>1, FiguresAreSums
<1>4. \A w \in C : SpanOn(C)[w] \in Nat /\ LengthOn(C)[w] \in Nat /\ trip[w] \in Trips
  BY <1>1, FiguresAreNat, WindowFields
<1>5. all.movement + all.pause = all.total
  <2>1. Sum(SpanOn(C), M) + Sum(SpanOn(C), C \ M) = Sum(SpanOn(C), C)
    <3> HIDE DEF C, M
    <3>1. QED
      BY <1>1, <1>4, SumSplits
  <2>2. QED
    BY <1>2, <1>3, <2>1
<1>6. all.total = SumFunction([i \in Trips |-> of(i).total])
  <2>1. Sum(SpanOn(C), C) = Sum([i \in Trips |-> Sum(SpanOn(C), {w \in C : trip[w] = i})], Trips)
    <3> HIDE DEF C, trip
    <3>1. QED
      BY <1>1, <1>4, TripsFinite, SumByGroup
  <2>2. \A i \in Trips : of(i).total = Sum(SpanOn(C), {w \in C : trip[w] = i})
    <3>1. \A i \in Trips : {w \in C : trip[w] = i} = {w \in C : w[1].trip = i}
      OBVIOUS
    <3>2. QED
      BY <3>1, FiguresOfTrip
  <2>3. [i \in Trips |-> of(i).total] = [i \in Trips |-> Sum(SpanOn(C), {w \in C : trip[w] = i})]
    BY <2>2
  <2>4. SumFunction([i \in Trips |-> of(i).total]) = Sum([i \in Trips |-> of(i).total], Trips)
    BY DEF SumFunction, Sum
  <2>5. QED
    BY <1>2, <1>3, <2>1, <2>3, <2>4
<1>7. all.distance = SumFunction([i \in Trips |-> of(i).distance])
  <2>1. Sum(LengthOn(C), M) = Sum([i \in Trips |-> Sum(LengthOn(C), {w \in M : trip[w] = i})], Trips)
    <3>1. \A w \in M : LengthOn(C)[w] \in Nat /\ trip[w] \in Trips
      BY <1>1, <1>4
    <3> HIDE DEF C, M, trip
    <3>2. QED
      BY <1>1, <3>1, TripsFinite, SumByGroup
  <2>2. \A i \in Trips : of(i).distance = Sum(LengthOn(C), {w \in M : trip[w] = i})
    <3>1. \A i \in Trips : {w \in M : trip[w] = i} = {w \in M : w[1].trip = i}
      BY <1>1
    <3>2. QED
      BY <3>1, FiguresOfTrip
  <2>3. [i \in Trips |-> of(i).distance] = [i \in Trips |-> Sum(LengthOn(C), {w \in M : trip[w] = i})]
    BY <2>2
  <2>4. SumFunction([i \in Trips |-> of(i).distance]) = Sum([i \in Trips |-> of(i).distance], Trips)
    BY DEF SumFunction, Sum
  <2>5. QED
    BY <1>2, <1>3, <2>1, <2>3, <2>4
<1>8. \A i \in Trips : of(i).total <= clock
  BY FiguresOfTrip
<1>9. QED
  BY <1>5, <1>6, <1>7, <1>8 DEF TripsAddUp

\* The figures of a user are the sums of those of the trips, however many are
\* under way at the same time, whichever rows were lost, and no trip is longer
\* than the time since its user's first.
THEOREM TripsDoNotBlend == Spec => []TripsAddUp
BY TableIsKept, TripsAddUpHolds, PTL

\* The figures of an interval, as sums over the windows of all.
LEMMA FiguresOfInterval ==
  ASSUME TypeOK, Kept, NEW a \in Nat, NEW b \in Nat, a <= b
  PROVE  LET C == Counted(rows)
             W == {w \in C : w[1] \in Between(rows, a, b) /\ w[2] \in Between(rows, a, b)}
             M == {w \in W : ~IsPause(w)}
         IN  /\ Stats(rows, a, b).total = Sum(SpanOn(C), W)
             /\ Stats(rows, a, b).pause = Sum(SpanOn(C), W \ M)
             /\ Stats(rows, a, b).distance = Sum(LengthOn(C), M)
<1> DEFINE C == Counted(rows)
           R == Between(rows, a, b)
           W == {w \in C : w[1] \in R /\ w[2] \in R}
           M == {w \in W : ~IsPause(w)}
<1>1. rows \in SUBSET Row /\ IsFiniteSet(C) /\ R \in SUBSET rows
  BY WindowsFinite DEF Kept, TypeOK, Between
<1>2. Whole(R, rows)
  <2>1. \A r \in rows : r.ts \in Nat
    BY <1>1, RowFields
  <2>2. QED
    BY <2>1 DEF Whole, Between
<1>3. Counted(R) = W
  <2> HIDE DEF R
  <2>1. QED
    BY <1>1, <1>2, CountedWithin
<1>4. Moves(R) = M
  BY <1>3 DEF Moves
<1>5. W \in SUBSET C /\ M \in SUBSET C /\ W \ M \in SUBSET C
  OBVIOUS
<1>6. /\ Seconds(W) = Sum(SpanOn(C), W) /\ Seconds(W \ M) = Sum(SpanOn(C), W \ M)
      /\ Meters(M) = Sum(LengthOn(C), M)
  <2> HIDE DEF C, W, M
  <2>1. QED
    BY <1>1, <1>5, FiguresAreSums
<1>7. /\ Stats(rows, a, b).total = Seconds(Counted(R)) /\ Stats(rows, a, b).distance = Meters(Moves(R))
      /\ Stats(rows, a, b).pause = Seconds(Counted(R) \ Moves(R))
  BY StatsAre
<1>8. QED
  BY <1>3, <1>4, <1>6, <1>7

LEMMA IntervalsAddUpHolds == TypeOK /\ Kept => IntervalsAddUp
<1> SUFFICES ASSUME TypeOK, Kept, NEW r \in rows, r.ts < clock
             PROVE  LET cut == r.ts
                        all == Stats(rows, 0, clock)
                        before == Stats(rows, 0, cut)
                        after == Stats(rows, cut + 1, clock)
                    IN  /\ before.total + after.total <= all.total
                        /\ before.pause + after.pause <= all.pause
                        /\ before.distance + after.distance <= all.distance
  BY DEF IntervalsAddUp
<1> DEFINE C == Counted(rows)
           R(a, b) == Between(rows, a, b)
           W(a, b) == {w \in C : w[1] \in R(a, b) /\ w[2] \in R(a, b)}
           M(a, b) == {w \in W(a, b) : ~IsPause(w)}
           cut == r.ts
<1>1. /\ rows \in SUBSET Row /\ IsFiniteSet(C) /\ cut \in Nat /\ cut + 1 \in Nat /\ clock \in Nat /\ 0 \in Nat
      /\ 0 <= cut /\ 0 <= clock /\ cut + 1 <= clock
  <2>1. rows \in SUBSET Row /\ clock \in Nat /\ IsFiniteSet(C) /\ r.ts <= clock
    BY WindowsFinite DEF Kept, TypeOK, Recorded
  <2>2. r.ts \in Nat
    BY <2>1, RowFields
  <2>3. QED
    BY <2>1, <2>2
<1>2. \A q \in rows : q.ts \in Nat /\ q.ts <= clock
  BY <1>1, RowFields DEF Kept, Recorded
<1>3. \A w \in C : w[1] \in rows /\ w[2] \in rows /\ SpanOn(C)[w] \in Nat /\ LengthOn(C)[w] \in Nat
  BY <1>1, WindowFields, FiguresAreNat
<1>4. R(0, clock) = rows /\ R(0, cut) \cap R(cut + 1, clock) = {}
  BY <1>1, <1>2 DEF Between
<1>5. W(0, clock) = C
  BY <1>3, <1>4
<1>6. W(0, cut) \cap W(cut + 1, clock) = {}
  BY <1>4
<1>7. /\ Stats(rows, 0, clock).total = Sum(SpanOn(C), W(0, clock))
      /\ Stats(rows, 0, clock).pause = Sum(SpanOn(C), W(0, clock) \ M(0, clock))
      /\ Stats(rows, 0, clock).distance = Sum(LengthOn(C), M(0, clock))
  BY <1>1, FiguresOfInterval
<1>8. /\ Stats(rows, 0, cut).total = Sum(SpanOn(C), W(0, cut))
      /\ Stats(rows, 0, cut).pause = Sum(SpanOn(C), W(0, cut) \ M(0, cut))
      /\ Stats(rows, 0, cut).distance = Sum(LengthOn(C), M(0, cut))
  BY <1>1, FiguresOfInterval
<1>9. /\ Stats(rows, cut + 1, clock).total = Sum(SpanOn(C), W(cut + 1, clock))
      /\ Stats(rows, cut + 1, clock).pause = Sum(SpanOn(C), W(cut + 1, clock) \ M(cut + 1, clock))
      /\ Stats(rows, cut + 1, clock).distance = Sum(LengthOn(C), M(cut + 1, clock))
  BY <1>1, FiguresOfInterval
<1> HIDE DEF C, R, cut
<1>10. ASSUME NEW f, \A w \in C : f[w] \in Nat, NEW S \in SUBSET C, NEW A \in SUBSET S, NEW B \in SUBSET S, A \cap B = {}
       PROVE  Sum(f, A) + Sum(f, B) <= Sum(f, S)
  <2>1. IsFiniteSet(S) /\ \A w \in S : f[w] \in Nat
    BY <1>1, <1>10, FS_Subset
  <2>2. QED
    BY <1>10, <2>1, SumOfTwo
<1>11. /\ W(0, cut) \in SUBSET C /\ W(cut + 1, clock) \in SUBSET C
       /\ M(0, clock) \in SUBSET C /\ C \ M(0, clock) \in SUBSET C
       /\ M(0, cut) \in SUBSET M(0, clock) /\ M(cut + 1, clock) \in SUBSET M(0, clock)
       /\ W(0, cut) \ M(0, cut) \in SUBSET (C \ M(0, clock))
       /\ W(cut + 1, clock) \ M(cut + 1, clock) \in SUBSET (C \ M(0, clock))
       /\ M(0, cut) \cap M(cut + 1, clock) = {}
       /\ (W(0, cut) \ M(0, cut)) \cap (W(cut + 1, clock) \ M(cut + 1, clock)) = {}
  BY <1>5, <1>6
<1> HIDE DEF W, M
<1>12. Sum(SpanOn(C), W(0, cut)) + Sum(SpanOn(C), W(cut + 1, clock)) <= Sum(SpanOn(C), W(0, clock))
  BY <1>3, <1>5, <1>6, <1>10, <1>11
<1>13. Sum(SpanOn(C), W(0, cut) \ M(0, cut)) + Sum(SpanOn(C), W(cut + 1, clock) \ M(cut + 1, clock))
         <= Sum(SpanOn(C), W(0, clock) \ M(0, clock))
  BY <1>3, <1>5, <1>10, <1>11
<1>14. Sum(LengthOn(C), M(0, cut)) + Sum(LengthOn(C), M(cut + 1, clock)) <= Sum(LengthOn(C), M(0, clock))
  BY <1>3, <1>10, <1>11
<1>15. QED
  BY <1>7, <1>8, <1>9, <1>12, <1>13, <1>14 DEF cut

\* The figures of an interval cover those of its parts: nothing is counted
\* twice where two intervals meet.
THEOREM IntervalsDoNotOverlap == Spec => []IntervalsAddUp
BY TableIsKept, IntervalsAddUpHolds, PTL

-----------------------------------------------------------------------------
(***************************************************************************)
(* The calendar of the client (Calendar.tla).  The days of an era are      *)
(* taken apart, as the conversions do, and put together; then what the     *)
(* conversions compute is what one counts, year by year and month by month.*)
(***************************************************************************)
\* The months, from March on.
Months == 0..11

\* A year that begins in March ends with the leap day, if there is one.
LastDay(yoe) == IF Leap(yoe + 1) THEN 365 ELSE 364
MonthEnd(yoe, mp) == IF mp = 11 THEN LastDay(yoe) ELSE MonthStart(mp + 1) - 1

\* The century, the leap cycle and the year of an era's year, and whether a day
\* of it is one.
Parts(c, q, r) == c \in Nat /\ c <= 3 /\ q \in Nat /\ q <= 24 /\ r \in Nat /\ r <= 3
DayOfParts(c, q, r, doy) == /\ doy \in Nat /\ doy <= 365
                            /\ doy = 365 => r = 3 /\ (q # 24 \/ c = 3)

LEMMA YearParts ==
  ASSUME NEW yoe \in Nat, yoe <= 399
  PROVE  \E c, q, r : /\ Parts(c, q, r)
                      /\ yoe = 100 * c + 4 * q + r
                      /\ YearStart(yoe) = 36524 * c + 1461 * q + 365 * r
                      /\ LastDay(yoe) = IF r = 3 /\ (q # 24 \/ c = 3) THEN 365 ELSE 364
<1> DEFINE c == yoe \div 100
           q == (yoe % 100) \div 4
           r == yoe % 4
<1>1. Parts(c, q, r) /\ yoe = 100 * c + 4 * q + r
  BY DEF Parts
<1>2. yoe \div 4 = 25 * c + q
  OBVIOUS
<1>3. YearStart(yoe) = 36524 * c + 1461 * q + 365 * r
  BY <1>1, <1>2 DEF YearStart, Parts
<1>4. Leap(yoe + 1) <=> r = 3 /\ (q # 24 \/ c = 3)
  BY DEF Leap
<1>5. LastDay(yoe) = IF r = 3 /\ (q # 24 \/ c = 3) THEN 365 ELSE 364
  BY <1>4 DEF LastDay
<1> HIDE DEF c, q, r
<1>6. QED
  BY <1>1, <1>3, <1>5

\* The formula for the year finds the one a day was made from: it subtracts the
\* leap days before, of every fourth year, century and era.
LEMMA YearFormula ==
  ASSUME NEW c, NEW q, NEW r, NEW doy, Parts(c, q, r), DayOfParts(c, q, r, doy),
         NEW doe, doe = 36524 * c + 1461 * q + 365 * r + doy
  PROVE  doe \in Nat /\ doe <= 146096 /\ YearOfDay(doe) = 100 * c + 4 * q + r
<1>1. doe \in Nat /\ doe <= 146096
  BY DEF Parts, DayOfParts
<1>2. (doe - doe \div 1460 + doe \div 36524 - doe \div 146096) \div 365 = 100 * c + 4 * q + r
  BY DEF Parts, DayOfParts
<1>3. QED
  BY <1>1, <1>2 DEF YearOfDay

LEMMA YearFound ==
  ASSUME NEW yoe \in Nat, yoe <= 399, NEW doy \in Nat, doy <= LastDay(yoe)
  PROVE  /\ YearStart(yoe) + doy \in Nat
         /\ YearStart(yoe) + doy <= 146096
         /\ YearOfDay(YearStart(yoe) + doy) = yoe
<1>1. PICK c, q, r : /\ Parts(c, q, r)
                     /\ yoe = 100 * c + 4 * q + r
                     /\ YearStart(yoe) = 36524 * c + 1461 * q + 365 * r
                     /\ LastDay(yoe) = IF r = 3 /\ (q # 24 \/ c = 3) THEN 365 ELSE 364
  BY YearParts
<1>2. DayOfParts(c, q, r, doy)
  BY <1>1 DEF DayOfParts
<1>3. YearStart(yoe) + doy = 36524 * c + 1461 * q + 365 * r + doy
  BY <1>1
<1>4. QED
  BY <1>1, <1>2, <1>3, YearFormula

\* And every day of an era was made from one.
LEMMA DayParts ==
  ASSUME NEW doe \in Nat, doe <= 146096
  PROVE  \E c, q, r, doy : /\ Parts(c, q, r) /\ DayOfParts(c, q, r, doy)
                           /\ doe = 36524 * c + 1461 * q + 365 * r + doy
<1>1. PICK c \in Nat, rest \in Nat : /\ doe = 36524 * c + rest
                                     /\ c <= 3 /\ rest <= 36524 /\ (rest = 36524 => c = 3)
  <2> DEFINE c == doe \div 36524 - doe \div 146096
             rest == doe - 36524 * c
  <2>1. c \in Nat /\ rest \in Nat /\ doe = 36524 * c + rest
    OBVIOUS
  <2>2. c <= 3 /\ rest <= 36524 /\ (rest = 36524 => c = 3)
    OBVIOUS
  <2> HIDE DEF c, rest
  <2>3. QED
    BY <2>1, <2>2
<1>2. PICK q \in Nat, days \in Nat : rest = 1461 * q + days /\ q <= 24 /\ days <= 1460
  <2> DEFINE q == rest \div 1461
             days == rest - 1461 * q
  <2>1. q \in Nat /\ days \in Nat /\ rest = 1461 * q + days
    OBVIOUS
  <2>2. q <= 24 /\ days <= 1460
    BY <1>1
  <2> HIDE DEF q, days
  <2>3. QED
    BY <2>1, <2>2
<1>3. PICK r \in Nat, doy \in Nat : days = 365 * r + doy /\ r <= 3 /\ doy <= 365 /\ (doy = 365 => r = 3)
  <2> DEFINE r == days \div 365 - days \div 1460
             doy == days - 365 * r
  <2>1. r \in Nat /\ doy \in Nat /\ days = 365 * r + doy
    BY <1>2
  <2>2. r <= 3 /\ doy <= 365 /\ (doy = 365 => r = 3)
    BY <1>2
  <2> HIDE DEF r, doy
  <2>3. QED
    BY <2>1, <2>2
<1>4. Parts(c, q, r) /\ DayOfParts(c, q, r, doy)
  BY <1>1, <1>2, <1>3 DEF Parts, DayOfParts
<1>5. doe = 36524 * c + 1461 * q + 365 * r + doy
  BY <1>1, <1>2, <1>3
<1>6. QED
  BY <1>4, <1>5

LEMMA EveryYearDay ==
  ASSUME NEW doe \in Nat, doe <= 146096
  PROVE  \E yoe \in Nat, doy \in Nat : yoe <= 399 /\ doy <= LastDay(yoe) /\ doe = YearStart(yoe) + doy
<1>1. PICK c, q, r, doy : /\ Parts(c, q, r) /\ DayOfParts(c, q, r, doy)
                          /\ doe = 36524 * c + 1461 * q + 365 * r + doy
  BY DayParts
<1> DEFINE yoe == 100 * c + 4 * q + r
<1>2. yoe \in Nat /\ yoe <= 399 /\ yoe \div 100 = c /\ yoe \div 4 = 25 * c + q
  BY <1>1 DEF Parts
<1>3. YearStart(yoe) + doy = doe
  BY <1>1, <1>2 DEF YearStart, Parts, DayOfParts
<1>4. doy = 365 => Leap(yoe + 1)
  BY <1>1 DEF Leap, Parts, DayOfParts
<1> HIDE DEF yoe
<1>5. doy \in Nat /\ doy <= LastDay(yoe)
  BY <1>1, <1>4 DEF LastDay, DayOfParts
<1>6. QED
  BY <1>2, <1>3, <1>5

\* The same for the months of a year.
LEMMA MonthFound ==
  ASSUME NEW yoe \in Nat, NEW mp \in Months, NEW doy \in MonthStart(mp)..MonthEnd(yoe, mp)
  PROVE  doy \in Nat /\ doy <= LastDay(yoe) /\ (5 * doy + 2) \div 153 = mp
BY DEF Months, MonthStart, MonthEnd, LastDay

LEMMA EveryMonthDay ==
  ASSUME NEW yoe \in Nat, NEW doy \in Nat, doy <= LastDay(yoe)
  PROVE  \E mp \in Months : doy \in MonthStart(mp)..MonthEnd(yoe, mp)
<1> DEFINE mp == (5 * doy + 2) \div 153
<1>1. doy \in 0..365
  BY DEF LastDay
<1>2. mp \in Months /\ MonthStart(mp) <= doy
  BY <1>1 DEF Months, MonthStart
<1>3. doy <= MonthEnd(yoe, mp)
  BY <1>1, <1>2 DEF Months, MonthStart, MonthEnd
<1>4. QED
  BY <1>1, <1>2, <1>3 DEF Months, MonthStart, MonthEnd, LastDay

-----------------------------------------------------------------------------
\* The date of a month of a year of an era, and the day number of a day of such
\* a year.
YearOf(era, yoe, mp) == 400 * era + yoe + IF mp < 10 THEN 0 ELSE 1
MonthOf(mp) == IF mp < 10 THEN mp + 3 ELSE mp - 9
DayNumber(era, yoe, doy) == era * 146097 + YearStart(yoe) + doy - 719468

\* Every month of the calendar is one.
LEMMA EveryMonth ==
  ASSUME NEW year \in Nat, year >= 1, NEW month \in 1..12
  PROVE  \E era \in Nat, yoe \in Nat, mp \in Months :
           yoe <= 399 /\ year = YearOf(era, yoe, mp) /\ month = MonthOf(mp)
<1> DEFINE y == IF month <= 2 THEN year - 1 ELSE year
           mp == IF month <= 2 THEN month + 9 ELSE month - 3
           era == y \div 400
           yoe == y - 400 * era
<1>1. era \in Nat /\ yoe \in Nat /\ yoe <= 399
  OBVIOUS
<1>2. mp \in Months /\ month = MonthOf(mp)
  BY DEF Months, MonthOf
<1>3. year = YearOf(era, yoe, mp)
  BY <1>1 DEF YearOf
<1> HIDE DEF mp, era, yoe
<1>4. QED
  BY <1>1, <1>2, <1>3

\* Both conversions, in these terms.
LEMMA DaysOfMonth ==
  ASSUME NEW era \in Nat, NEW yoe \in Nat, yoe <= 399, NEW mp \in Months, NEW day \in Int
  PROVE  Days(YearOf(era, yoe, mp), MonthOf(mp), day) = DayNumber(era, yoe, MonthStart(mp) + day - 1)
<1> DEFINE year == YearOf(era, yoe, mp)
           month == MonthOf(mp)
           y == IF month <= 2 THEN year - 1 ELSE year
<1>1. y = 400 * era + yoe
  BY DEF Months, YearOf, MonthOf
<1>2. y % 400 = yoe /\ y \div 400 = era
  BY <1>1
<1>3. (IF month > 2 THEN month - 3 ELSE month + 9) = mp
  BY DEF Months, MonthOf
<1>4. Days(year, month, day) = era * 146097 + YearStart(yoe) + MonthStart(mp) + day - 1 - 719468
  BY <1>2, <1>3 DEF Days
<1>5. YearStart(yoe) \in Int /\ MonthStart(mp) \in Int
  BY DEF Months, YearStart, MonthStart
<1>6. QED
  BY <1>4, <1>5 DEF DayNumber

LEMMA CivilOfDay ==
  ASSUME NEW era \in Nat, NEW yoe \in Nat, yoe <= 399, NEW mp \in Months,
         NEW doy \in MonthStart(mp)..MonthEnd(yoe, mp)
  PROVE  Civil(DayNumber(era, yoe, doy)) = <<YearOf(era, yoe, mp), MonthOf(mp), doy - MonthStart(mp) + 1>>
<1> DEFINE doe == YearStart(yoe) + doy
           z == DayNumber(era, yoe, doy) + 719468
<1>1. doy \in Nat /\ doy <= LastDay(yoe) /\ (5 * doy + 2) \div 153 = mp
  BY MonthFound
<1>2. doe \in Nat /\ doe <= 146096 /\ YearOfDay(doe) = yoe
  BY <1>1, YearFound
<1>3. z = era * 146097 + doe
  BY <1>2 DEF DayNumber, YearStart
<1> HIDE DEF z
<1>4. z % 146097 = doe /\ z \div 146097 = era
  <2> HIDE DEF doe
  <2>1. QED
    BY <1>2, <1>3
<1>5. doe - YearStart(yoe) = doy
  BY <1>1 DEF YearStart
<1> HIDE DEF doe
<1> DEFINE month == IF mp < 10 THEN mp + 3 ELSE mp - 9
<1>6. Civil(DayNumber(era, yoe, doy)) =
        <<yoe + 400 * era + (IF month <= 2 THEN 1 ELSE 0), month, doy - MonthStart(mp) + 1>>
  BY <1>1, <1>2, <1>4, <1>5 DEF Civil, z
<1>7. yoe + 400 * era + (IF month <= 2 THEN 1 ELSE 0) = YearOf(era, yoe, mp) /\ month = MonthOf(mp)
  BY DEF Months, YearOf, MonthOf
<1>8. QED
  BY <1>6, <1>7

\* The months of a year that begins in March have the length of the calendar's.
LEMMA LengthOfMonth ==
  ASSUME NEW era \in Nat, NEW yoe \in Nat, yoe <= 399, NEW mp \in Months
  PROVE  /\ Length(YearOf(era, yoe, mp), MonthOf(mp)) = MonthEnd(yoe, mp) - MonthStart(mp) + 1
         /\ Length(YearOf(era, yoe, mp), MonthOf(mp)) \in Nat
         /\ MonthStart(mp) \in Nat /\ MonthEnd(yoe, mp) \in Nat
<1>1. Leap(YearOf(era, yoe, 11)) <=> Leap(yoe + 1)
  BY DEF Leap, YearOf
<1>2. CASE mp = 11
  BY <1>1, <1>2 DEF Months, Length, MonthOf, MonthEnd, MonthStart, LastDay
<1>3. CASE mp # 11
  BY <1>3 DEF Months, Length, MonthOf, MonthEnd, MonthStart
<1>4. QED
  BY <1>2, <1>3

\* Converting a date to its day number and back gives the date.
LEMMA DateRoundTrip ==
  ASSUME NEW year \in Nat, year >= 1, NEW month \in 1..12, NEW day \in 1..Length(year, month)
  PROVE  Days(year, month, day) \in Int /\ Civil(Days(year, month, day)) = <<year, month, day>>
<1>1. PICK era \in Nat, yoe \in Nat, mp \in Months :
        yoe <= 399 /\ year = YearOf(era, yoe, mp) /\ month = MonthOf(mp)
  BY EveryMonth
<1> DEFINE doy == MonthStart(mp) + day - 1
<1>2. Length(year, month) = MonthEnd(yoe, mp) - MonthStart(mp) + 1 /\ Length(year, month) \in Nat
      /\ MonthStart(mp) \in Nat /\ MonthEnd(yoe, mp) \in Nat
  BY <1>1, LengthOfMonth
<1>3. day \in Nat /\ day >= 1 /\ day <= Length(year, month)
  BY <1>2
<1>4. doy \in MonthStart(mp)..MonthEnd(yoe, mp) /\ doy - MonthStart(mp) + 1 = day
  BY <1>2, <1>3
<1>5. Days(year, month, day) = DayNumber(era, yoe, doy)
  BY <1>1, <1>3, DaysOfMonth
<1>6. DayNumber(era, yoe, doy) \in Int
  BY <1>2, <1>3 DEF DayNumber, YearStart
<1> HIDE DEF doy
<1>7. QED
  BY <1>1, <1>4, <1>5, <1>6, CivilOfDay

\* Every day has a date, and converting it back gives the day.
LEMMA DayRoundTrip ==
  ASSUME NEW n \in Nat
  PROVE  \E year \in Nat, month \in 1..12, day \in Nat :
           /\ year >= 1970 /\ day \in 1..Length(year, month)
           /\ Civil(n) = <<year, month, day>>
           /\ Days(year, month, day) = n
<1> DEFINE z == n + 719468
           era == z \div 146097
           doe == z - 146097 * era
<1>1. era \in Nat /\ doe \in Nat /\ doe <= 146096
  OBVIOUS
<1>2. n = era * 146097 + doe - 719468
  BY <1>1
<1> HIDE DEF era, doe
<1>3. PICK yoe \in Nat, doy \in Nat : yoe <= 399 /\ doy <= LastDay(yoe) /\ doe = YearStart(yoe) + doy
  BY <1>1, EveryYearDay
<1>4. PICK mp \in Months : doy \in MonthStart(mp)..MonthEnd(yoe, mp)
  BY <1>3, EveryMonthDay
<1> DEFINE year == YearOf(era, yoe, mp)
           month == MonthOf(mp)
           day == doy - MonthStart(mp) + 1
<1>5. n = DayNumber(era, yoe, doy)
  BY <1>1, <1>2, <1>3 DEF DayNumber, YearStart
<1>6. Civil(n) = <<year, month, day>>
  BY <1>1, <1>3, <1>4, <1>5, CivilOfDay
<1>7. Length(year, month) = MonthEnd(yoe, mp) - MonthStart(mp) + 1 /\ Length(year, month) \in Nat
      /\ MonthStart(mp) \in Nat /\ MonthEnd(yoe, mp) \in Nat
  BY <1>1, <1>3, LengthOfMonth
<1>8. day \in Nat /\ day \in 1..Length(year, month) /\ MonthStart(mp) + day - 1 = doy
  BY <1>4, <1>7
<1>9. Days(year, month, day) = n
  BY <1>1, <1>3, <1>5, <1>8, DaysOfMonth
<1>10. year \in Nat /\ month \in 1..12
  BY <1>1 DEF Months, YearOf, MonthOf
<1>11. year >= 1970
  <2>1. SUFFICES ASSUME year <= 1969
                 PROVE  FALSE
    BY <1>10
  <2>2. doy <= 365 /\ (mp < 10 => doy <= 305)
    BY <1>3, <1>4 DEF Months, MonthStart, MonthEnd, LastDay
  <2>3. 400 * era + yoe <= 1969 /\ (mp >= 10 => 400 * era + yoe <= 1968)
    BY <1>1, <2>1 DEF YearOf, Months
  <2>4. mp < 10 \/ mp >= 10
    BY DEF Months
  <2>5. CASE era <= 3
    BY <1>1, <1>2, <2>5
  <2>6. CASE era = 4
    <3>1. yoe <= 369 /\ (mp >= 10 => yoe <= 368)
      BY <1>3, <2>3, <2>6
    <3>2. doe <= 135079
      BY <1>3, <2>2, <2>4, <3>1 DEF YearStart
    <3>3. QED
      BY <1>1, <1>2, <2>6, <3>2
  <2>7. era <= 4
    BY <1>1, <1>3, <2>3
  <2>8. QED
    BY <1>1, <2>5, <2>6, <2>7
<1> HIDE DEF year, month, day
<1>12. QED
  BY <1>6, <1>8, <1>9, <1>10, <1>11

-----------------------------------------------------------------------------
\* The leap years before a year, counted and computed.
Epoch == 1970
LeapYears(year) == {y \in Epoch..year - 1 : Leap(y)}
LeapCount(year) == (year - 1) \div 4 - (year - 1) \div 100 + (year - 1) \div 400 - 477

\* A year adds one, if it is a leap year.
LEMMA LeapCountGrows ==
  ASSUME NEW year \in Nat, year >= 1
  PROVE  LeapCount(year + 1) = LeapCount(year) + (IF Leap(year) THEN 1 ELSE 0)
<1>1. year \div 4 = (year - 1) \div 4 + (IF year % 4 = 0 THEN 1 ELSE 0)
  OBVIOUS
<1>2. year \div 100 = (year - 1) \div 100 + (IF year % 100 = 0 THEN 1 ELSE 0)
  OBVIOUS
<1>3. year \div 400 = (year - 1) \div 400 + (IF year % 400 = 0 THEN 1 ELSE 0)
  OBVIOUS
<1>4. (year % 100 = 0 => year % 4 = 0) /\ (year % 400 = 0 => year % 100 = 0)
  OBVIOUS
<1>5. QED
  BY <1>1, <1>2, <1>3, <1>4 DEF LeapCount, Leap

LEMMA LeapYearsCounted ==
  ASSUME NEW year \in Nat, year >= Epoch
  PROVE  Cardinality(LeapYears(year)) = LeapCount(year)
<1> DEFINE Right(y) == IsFiniteSet(LeapYears(y)) /\ Cardinality(LeapYears(y)) = LeapCount(y)
           T == {y \in Nat : y >= Epoch /\ ~Right(y)}
<1> SUFFICES ASSUME T # {}
             PROVE  FALSE
  OBVIOUS
<1>1. PICK next \in T : \A y \in T : next <= y
  BY LeastNat
<1>2. next # Epoch
  <2>1. LeapYears(Epoch) = {} /\ LeapCount(Epoch) = 0
    BY DEF LeapYears, LeapCount, Epoch
  <2>2. Right(Epoch)
    BY <2>1, FS_EmptySet
  <2>3. QED
    BY <1>1, <2>2
<1> DEFINE last == next - 1
<1>3. Right(last) /\ last \in Nat /\ last >= Epoch /\ last >= 1 /\ last + 1 = next
  BY <1>1, <1>2 DEF Epoch
<1> HIDE DEF last
<1>4. LeapYears(last + 1) = IF Leap(last) THEN LeapYears(last) \cup {last} ELSE LeapYears(last)
  BY <1>3 DEF LeapYears, Epoch
<1>5. last \notin LeapYears(last)
  BY <1>3 DEF LeapYears, Epoch
<1>6. LeapCount(last + 1) = LeapCount(last) + (IF Leap(last) THEN 1 ELSE 0) /\ LeapCount(last) \in Int
  BY <1>3, LeapCountGrows DEF LeapCount
<1>7. Right(last + 1)
  <2>1. CASE Leap(last)
    BY <1>3, <1>4, <1>5, <1>6, <2>1, FS_AddElement
  <2>2. CASE ~Leap(last)
    BY <1>3, <1>4, <1>6, <2>2
  <2>3. QED
    BY <2>1, <2>2
<1>8. QED
  BY <1>1, <1>3, <1>7

-----------------------------------------------------------------------------
\* The days of a year's months before a month, summed and computed.
DaysBefore(year, month) == SumFunction([m \in 1..month - 1 |-> Length(year, m)])
DaysComputed(year, month) ==
  IF month <= 2 THEN 31 * (month - 1) ELSE MonthStart(month - 3) + (IF Leap(year) THEN 60 ELSE 59)

LEMMA LengthIsNat == ASSUME NEW year, NEW month PROVE Length(year, month) \in Nat
BY DEF Length

\* A month adds its length.
LEMMA DaysBeforeGrows ==
  ASSUME NEW year \in Nat, NEW month \in Nat, month >= 1
  PROVE  DaysBefore(year, month + 1) = DaysBefore(year, month) + Length(year, month)
<1> DEFINE f == [m \in 1..month |-> Length(year, m)]
           e == [m \in 1..month - 1 |-> Length(year, m)]
<1>1. IsFiniteSet(1..month) /\ \A m \in 1..month : f[m] \in Nat
  BY LengthIsNat, FS_Interval
<1>2. month \in 1..month /\ (1..month) \ {month} = 1..month - 1
  OBVIOUS
<1>3. f[month] + Sum(f, 1..month - 1) = Sum(f, 1..month)
  <2> HIDE DEF f
  <2>1. QED
    BY <1>1, <1>2, SumTakesOut
<1>4. Sum(e, 1..month - 1) = Sum(f, 1..month - 1)
  <2>1. \A m \in 1..month - 1 : e[m] = f[m]
    OBVIOUS
  <2>2. IsFiniteSet(1..month - 1)
    BY FS_Interval
  <2> HIDE DEF e, f
  <2>3. QED
    BY <2>1, <2>2, SumDependsOn
<1>5. Sum(f, 1..month - 1) \in Nat
  <2>1. IsFiniteSet(1..month - 1)
    BY FS_Interval
  <2>2. \A m \in 1..month - 1 : f[m] \in Nat
    BY LengthIsNat
  <2> HIDE DEF f
  <2>3. QED
    BY <2>1, <2>2, SumTakesOut
<1>6. DaysBefore(year, month) = Sum(e, 1..month - 1)
  BY DEF DaysBefore, SumFunction, Sum
<1>7. DaysBefore(year, month + 1) = Sum(f, 1..month)
  <2>1. (month + 1) - 1 = month
    OBVIOUS
  <2>2. QED
    BY <2>1 DEF DaysBefore, SumFunction, Sum
<1>8. f[month] = Length(year, month) /\ Length(year, month) \in Nat
  BY LengthIsNat
<1> HIDE DEF f, e
<1>9. QED
  BY <1>3, <1>4, <1>5, <1>6, <1>7, <1>8

LEMMA DaysBeforeCounted ==
  ASSUME NEW year \in Nat, NEW month \in Nat, month >= 1, month <= 12
  PROVE  DaysBefore(year, month) = DaysComputed(year, month)
<1> DEFINE T == {m \in Nat : m >= 1 /\ m <= 12 /\ DaysBefore(year, m) # DaysComputed(year, m)}
<1> SUFFICES ASSUME T # {}
             PROVE  FALSE
  OBVIOUS
<1>1. PICK m \in T : \A k \in T : m <= k
  BY LeastNat
<1>2. m # 1
  <2>1. DaysBefore(year, 1) = 0
    <3>1. 1..1 - 1 = {} /\ DOMAIN [k \in 1..1 - 1 |-> Length(year, k)] = {}
      OBVIOUS
    <3>2. QED
      BY <3>1, EmptySum DEF DaysBefore, SumFunction, Sum
  <2>2. DaysComputed(year, 1) = 0
    BY DEF DaysComputed
  <2>3. QED
    BY <1>1, <2>1, <2>2
<1> DEFINE k == m - 1
<1>3. k \in Nat /\ k >= 1 /\ k <= 11 /\ k + 1 = m /\ k \notin T
  BY <1>1, <1>2
<1> HIDE DEF k
<1>4. DaysBefore(year, k) = DaysComputed(year, k)
  BY <1>3
<1>5. DaysComputed(year, k + 1) = DaysComputed(year, k) + Length(year, k)
  BY <1>3 DEF DaysComputed, Length, MonthStart
<1>6. DaysBefore(year, m) = DaysComputed(year, m)
  BY <1>3, <1>4, <1>5, DaysBeforeGrows
<1>7. QED
  BY <1>1, <1>6

-----------------------------------------------------------------------------
\* The day number, in years and leap days.
LEMMA YearsElapsed ==
  ASSUME NEW y \in Nat
  PROVE  (y \div 400) * 146097 + YearStart(y % 400) = 365 * y + y \div 4 - y \div 100 + y \div 400
<1> DEFINE era == y \div 400
           yoe == y % 400
<1>1. era \in Nat /\ yoe \in Nat /\ yoe <= 399 /\ y = 400 * era + yoe
  OBVIOUS
<1> HIDE DEF era, yoe
<1>2. y \div 4 = 100 * era + yoe \div 4 /\ y \div 100 = 4 * era + yoe \div 100
  BY <1>1
<1>3. era * 146097 + YearStart(yoe) = 365 * y + y \div 4 - y \div 100 + era
  BY <1>1, <1>2 DEF YearStart
<1>4. QED
  BY <1>3 DEF era, yoe

\* The count, computed.
CountOf(year, month, day) == 365 * (year - 1970) + LeapCount(year) + DaysComputed(year, month) + day - 1

LEMMA CountComputed ==
  ASSUME NEW year \in Nat, year >= Epoch, NEW month \in 1..12, NEW day \in Int
  PROVE  Count(year, month, day) = CountOf(year, month, day) /\ Count(year, month, day) \in Int
<1>1. Cardinality(LeapYears(year)) = LeapCount(year) /\ DaysBefore(year, month) = DaysComputed(year, month)
  BY LeapYearsCounted, DaysBeforeCounted
<1>2. LeapCount(year) \in Int /\ DaysComputed(year, month) \in Int
  BY DEF LeapCount, DaysComputed, MonthStart
<1>3. QED
  BY <1>1, <1>2 DEF Count, CountOf, LeapYears, DaysBefore, Epoch

\* The conversion of dates counts as the calendar does.
LEMMA DaysAreCounted ==
  ASSUME NEW year \in Nat, year >= Epoch, NEW month \in 1..12, NEW day \in Int
  PROVE  Days(year, month, day) = Count(year, month, day)
<1>1. year >= 1970
  BY DEF Epoch
<1>2. Count(year, month, day) = CountOf(year, month, day)
  BY CountComputed
<1>3. Count(year, month, day) = 365 * (year - 1970) + LeapCount(year) + DaysComputed(year, month) + day - 1
  BY <1>2 DEF CountOf
<1>4. CASE month <= 2
  <2> DEFINE y == year - 1
  <2>0. y \in Nat
    BY <1>1
  <2>1. Days(year, month, day) = (y \div 400) * 146097 + YearStart(y % 400)
                                   + MonthStart(month + 9) + day - 1 - 719468
    BY <1>4 DEF Days
  <2>2. (y \div 400) * 146097 + YearStart(y % 400) = 365 * y + y \div 4 - y \div 100 + y \div 400
    <3> HIDE DEF y
    <3>1. QED
      BY <2>0, YearsElapsed
  <2>3. MonthStart(month + 9) = 306 + DaysComputed(year, month) /\ MonthStart(month + 9) \in Int
    BY <1>4 DEF MonthStart, DaysComputed
  <2>4. LeapCount(year) = (year - 1) \div 4 - (year - 1) \div 100 + (year - 1) \div 400 - 477
    BY DEF LeapCount
  <2>5. DaysComputed(year, month) \in Int
    BY <1>4 DEF DaysComputed
  <2> DEFINE start == ((year - 1) \div 400) * 146097 + YearStart((year - 1) % 400)
             leaps == (year - 1) \div 4 - (year - 1) \div 100 + (year - 1) \div 400
  <2>6. leaps \in Int
    OBVIOUS
  <2>7. start = 365 * (year - 1) + leaps
    BY <2>2
  <2>8. Days(year, month, day) = start + MonthStart(month + 9) + day - 1 - 719468
    BY <2>1
  <2>9. LeapCount(year) = leaps - 477
    BY <2>4
  <2> HIDE DEF start, leaps
  <2>10. QED
    BY <1>3, <2>3, <2>5, <2>6, <2>7, <2>8, <2>9
<1>5. CASE month > 2
  <2>1. Days(year, month, day) = (year \div 400) * 146097 + YearStart(year % 400)
                                   + MonthStart(month - 3) + day - 1 - 719468
    BY <1>5 DEF Days
  <2>2. (year \div 400) * 146097 + YearStart(year % 400)
          = 365 * year + year \div 4 - year \div 100 + year \div 400
    BY YearsElapsed
  <2>3. MonthStart(month - 3) \in Int
    BY DEF MonthStart
  <2>4. LeapCount(year + 1) = LeapCount(year) + (IF Leap(year) THEN 1 ELSE 0)
    BY <1>1, LeapCountGrows
  <2>5. LeapCount(year + 1) = year \div 4 - year \div 100 + year \div 400 - 477
    BY DEF LeapCount
  <2>6. DaysComputed(year, month) = MonthStart(month - 3) + 59 + (IF Leap(year) THEN 1 ELSE 0)
    BY <1>5, <2>3 DEF DaysComputed
  <2>7. LeapCount(year) \in Int
    BY DEF LeapCount
  <2> DEFINE start == (year \div 400) * 146097 + YearStart(year % 400)
             leaps == year \div 4 - year \div 100 + year \div 400
  <2>8. leaps \in Int
    OBVIOUS
  <2>9. start = 365 * year + leaps
    BY <2>2
  <2>10. Days(year, month, day) = start + MonthStart(month - 3) + day - 1 - 719468
    BY <2>1
  <2>11. LeapCount(year + 1) = leaps - 477
    BY <2>5
  <2> HIDE DEF start, leaps
  <2>12. QED
    BY <1>3, <2>3, <2>4, <2>6, <2>7, <2>8, <2>9, <2>10, <2>11
<1>6. QED
  BY <1>4, <1>5

\* The day after the last of a month is the first of the next.
LEMMA MonthsFollow ==
  ASSUME NEW year \in Nat, year >= Epoch, NEW month \in 1..12
  PROVE  /\ month = 12 => Count(year, month, Length(year, month)) = Count(year + 1, 1, 1) - 1
         /\ month < 12 => Count(year, month, Length(year, month)) = Count(year, month + 1, 1) - 1
<1>1. year >= 1 /\ Length(year, month) \in Int /\ LeapCount(year) \in Int /\ DaysComputed(year, month) \in Int
  BY LengthIsNat DEF Epoch, LeapCount, DaysComputed, MonthStart
<1>2. Count(year, month, Length(year, month)) = CountOf(year, month, Length(year, month))
  BY <1>1, CountComputed
<1>3. ASSUME month = 12
      PROVE  Count(year, month, Length(year, month)) = Count(year + 1, 1, 1) - 1
  <2>1. year + 1 \in Nat /\ year + 1 >= Epoch /\ 1 \in 1..12
    BY DEF Epoch
  <2>2. Count(year + 1, 1, 1) = CountOf(year + 1, 1, 1)
    BY <2>1, CountComputed
  <2>3. LeapCount(year + 1) = LeapCount(year) + (IF Leap(year) THEN 1 ELSE 0)
    BY <1>1, LeapCountGrows
  <2>4. DaysComputed(year, month) + Length(year, month) = 365 + (IF Leap(year) THEN 1 ELSE 0)
    BY <1>3 DEF DaysComputed, Length, MonthStart
  <2>5. DaysComputed(year + 1, 1) = 0
    BY DEF DaysComputed
  <2>6. QED
    BY <1>1, <1>2, <2>2, <2>3, <2>4, <2>5 DEF CountOf
<1>4. ASSUME month < 12
      PROVE  Count(year, month, Length(year, month)) = Count(year, month + 1, 1) - 1
  <2> DEFINE next == month + 1
  <2>1. next \in 1..12 /\ 1 \in Int
    BY <1>4
  <2>2. Count(year, next, 1) = CountOf(year, next, 1)
    <3> HIDE DEF next
    <3>1. QED
      BY <2>1, CountComputed
  <2>3. DaysComputed(year, month + 1) = DaysComputed(year, month) + Length(year, month)
    BY <1>4 DEF DaysComputed, Length, MonthStart
  <2>4. QED
    BY <1>1, <1>2, <2>2, <2>3 DEF CountOf
<1>5. QED
  BY <1>3, <1>4

\* "Current month" is the days from the first to the last of the month, on
\* every day of it.
LEMMA MonthOfDay ==
  ASSUME NEW year \in Nat, year >= Epoch, NEW month \in 1..12, NEW day \in 1..Length(year, month)
  PROVE  /\ Civil(Count(year, month, day)) = <<year, month, day>>
         /\ Month(Count(year, month, day)) = <<Count(year, month, 1), Count(year, month, Length(year, month))>>
<1>1. year >= 1 /\ year + 1 >= Epoch /\ year + 1 \in Nat /\ day \in Int /\ Length(year, month) \in Int
  BY LengthIsNat DEF Epoch
<1>2. Civil(Count(year, month, day)) = <<year, month, day>>
  BY <1>1, DaysAreCounted, DateRoundTrip
<1>3. Days(year, month, 1) = Count(year, month, 1)
  BY DaysAreCounted
<1>4. CASE month = 12
  <2>1. Days(year + 1, 1, 1) = Count(year + 1, 1, 1)
    BY <1>1, DaysAreCounted
  <2>2. Days(year + 1, 1, 1) - 1 = Count(year, month, Length(year, month))
    BY <1>4, <2>1, MonthsFollow
  <2>3. QED
    BY <1>2, <1>3, <1>4, <2>2 DEF Month
<1>5. CASE month < 12
  <2>1. month + 1 \in 1..12
    BY <1>5
  <2>2. Days(year, month + 1, 1) = Count(year, month + 1, 1)
    BY <2>1, DaysAreCounted
  <2>3. Days(year, month + 1, 1) - 1 = Count(year, month, Length(year, month))
    BY <1>5, <2>2, MonthsFollow
  <2>4. QED
    BY <1>2, <1>3, <1>5, <2>3 DEF Month
<1>6. QED
  BY <1>2, <1>4, <1>5

\* A week is seven days from a Monday, and that of each of them.
LEMMA WeekOfDay ==
  ASSUME NEW n \in Int
  PROVE  /\ Week(n)[1] \in n - 6..n
         /\ Week(n)[2] = Week(n)[1] + 6
         /\ (Week(n)[1] - 4) % 7 = 0
         /\ \A k \in Week(n)[1]..Week(n)[2] : Week(k) = Week(n)
<1> DEFINE monday == n - ((n + 3) % 7)
<1>1. Week(n) = <<monday, monday + 6>>
  BY DEF Week
<1>2. monday \in n - 6..n /\ (monday - 4) % 7 = 0
  OBVIOUS
<1>3. ASSUME NEW k \in monday..monday + 6
      PROVE  k - ((k + 3) % 7) = monday
  BY <1>2
<1> HIDE DEF monday
<1>4. \A k \in Week(n)[1]..Week(n)[2] : Week(k) = Week(n)
  BY <1>1, <1>3 DEF Week
<1>5. QED
  BY <1>1, <1>2, <1>4

\* What the run asks of the years it takes, of every year.
LEMMA CalendarIsRight == CalendarRight
<1> SUFFICES ASSUME NEW year \in Years, NEW month \in 1..12
             PROVE  LET first == Count(year, month, 1)
                        last == Count(year, month, Length(year, month))
                    IN  /\ \A d \in {1, 2, 28, Length(year, month)} :
                             /\ Days(year, month, d) = Count(year, month, d)
                             /\ Civil(Count(year, month, d)) = <<year, month, d>>
                        /\ Month(first) = <<first, last>> /\ Month(last) = <<first, last>>
                        /\ \A d \in first..first + 6 : /\ Week(d)[1] \in d - 6..d
                                                       /\ Week(d)[2] = Week(d)[1] + 6
                                                       /\ (Week(d)[1] - 4) % 7 = 0
  BY DEF CalendarRight
<1> DEFINE first == Count(year, month, 1)
           last == Count(year, month, Length(year, month))
<1>1. year \in Nat /\ year >= Epoch
  BY YearsOfClock DEF Epoch
<1>2. \A d \in {1, 2, 28, Length(year, month)} : d \in 1..Length(year, month) /\ d \in Int
  BY DEF Length
<1>3. ASSUME NEW d \in {1, 2, 28, Length(year, month)}
      PROVE  /\ Days(year, month, d) = Count(year, month, d)
             /\ Civil(Count(year, month, d)) = <<year, month, d>>
  BY <1>1, <1>2, DaysAreCounted, MonthOfDay
<1>4. Month(first) = <<first, last>> /\ Month(last) = <<first, last>>
  BY <1>1, <1>2, MonthOfDay
<1>5. first \in Int
  BY <1>1, <1>2, CountComputed
<1>6. ASSUME NEW d \in first..first + 6
      PROVE  Week(d)[1] \in d - 6..d /\ Week(d)[2] = Week(d)[1] + 6 /\ (Week(d)[1] - 4) % 7 = 0
  <2> HIDE DEF first
  <2>1. d \in Int
    BY <1>5
  <2>2. QED
    BY <2>1, WeekOfDay
<1>7. QED
  BY <1>3, <1>4, <1>6

\* Every day since 1970 has a date of the calendar.
LEMMA EveryDayCounted ==
  ASSUME NEW n \in Nat
  PROVE  \E year \in Nat, month \in 1..12, day \in Nat :
           /\ year >= Epoch /\ day \in 1..Length(year, month)
           /\ n = Count(year, month, day)
           /\ Civil(n) = <<year, month, day>>
           /\ Days(year, month, day) = n
<1>1. PICK year \in Nat, month \in 1..12, day \in Nat :
        /\ year >= 1970 /\ day \in 1..Length(year, month)
        /\ Civil(n) = <<year, month, day>>
        /\ Days(year, month, day) = n
  BY DayRoundTrip
<1>2. year >= Epoch /\ day \in Int
  BY <1>1 DEF Epoch
<1>3. Count(year, month, day) = n
  BY <1>1, <1>2, DaysAreCounted
<1>4. QED
  BY <1>1, <1>2, <1>3

\* What the run asks of some years, of all: the conversions agree with the
\* calendar at the ends of every month, and the intervals are that month and the
\* week from a Monday (DatesRight; stats_interval, client/src/main.rs:405).
THEOREM DatesAreRight == CalendarRight /\ (Spec => []DatesRight)
<1>1. CalendarRight
  BY CalendarIsRight
<1>2. DatesRight
  BY <1>1 DEF DatesRight
<1>3. DatesRight => DatesRight'
  BY <1>1 DEF DatesRight, CalendarRight
<1>4. QED
  BY <1>1, <1>2, PTL

\* The conversions are the inverse of each other: every date becomes a day and
\* itself again, and every day since 1970 a date of the calendar and itself again
\* (civil_from_days and days_from_civil, client/src/main.rs:437).
THEOREM ConversionsAreInverse ==
  /\ \A year \in Nat \ {0}, month \in 1..12 : \A day \in 1..Length(year, month) :
       Civil(Days(year, month, day)) = <<year, month, day>>
  /\ \A n \in Nat : \E year \in Nat, month \in 1..12, day \in Nat :
       /\ year >= Epoch /\ day \in 1..Length(year, month)
       /\ n = Count(year, month, day)
       /\ Civil(n) = <<year, month, day>>
       /\ Days(year, month, day) = n
<1>1. ASSUME NEW year \in Nat \ {0}, NEW month \in 1..12, NEW day \in 1..Length(year, month)
      PROVE  Civil(Days(year, month, day)) = <<year, month, day>>
  <2>1. year \in Nat /\ year >= 1
    OBVIOUS
  <2>2. QED
    BY <2>1, DateRoundTrip
<1>2. QED
  BY <1>1, EveryDayCounted

\* The intervals of STATS part the days: every day is in its own week and month,
\* and every day of these has the same.
THEOREM IntervalsPartDays ==
  \A n \in Nat : /\ n \in Week(n)[1]..Week(n)[2]
                 /\ n \in Month(n)[1]..Month(n)[2]
                 /\ \A k \in Week(n)[1]..Week(n)[2] : Week(k) = Week(n)
                 /\ \A k \in Month(n)[1]..Month(n)[2] : Month(k) = Month(n)
<1> SUFFICES ASSUME NEW n \in Nat
             PROVE  /\ n \in Week(n)[1]..Week(n)[2]
                    /\ n \in Month(n)[1]..Month(n)[2]
                    /\ \A k \in Week(n)[1]..Week(n)[2] : Week(k) = Week(n)
                    /\ \A k \in Month(n)[1]..Month(n)[2] : Month(k) = Month(n)
  OBVIOUS
<1>1. n \in Week(n)[1]..Week(n)[2] /\ \A k \in Week(n)[1]..Week(n)[2] : Week(k) = Week(n)
  BY WeekOfDay
<1>2. PICK year \in Nat, month \in 1..12, day \in Nat :
        year >= Epoch /\ day \in 1..Length(year, month) /\ n = Count(year, month, day)
  BY EveryDayCounted
<1> DEFINE first == Count(year, month, 1)
           last == Count(year, month, Length(year, month))
<1>3. Length(year, month) \in Nat /\ 1 \in Int
  BY LengthIsNat
<1>4. ASSUME NEW d \in Int
      PROVE  Count(year, month, d) = first + d - 1 /\ first \in Int
  <2>1. Count(year, month, d) = CountOf(year, month, d) /\ first = CountOf(year, month, 1)
    BY <1>2, <1>3, CountComputed
  <2>2. LeapCount(year) \in Int /\ DaysComputed(year, month) \in Int
    BY DEF LeapCount, DaysComputed, MonthStart
  <2>3. QED
    BY <2>1, <2>2 DEF CountOf
<1>5. n = first + day - 1 /\ last = first + Length(year, month) - 1 /\ first \in Int
  BY <1>2, <1>3, <1>4
<1>6. Month(n) = <<first, last>>
  BY <1>2, MonthOfDay
<1>7. n \in Month(n)[1]..Month(n)[2]
  BY <1>2, <1>3, <1>5, <1>6
<1>8. ASSUME NEW k \in first..last
      PROVE  Month(k) = <<first, last>>
  <2> DEFINE d == k - first + 1
  <2>1. d \in 1..Length(year, month) /\ d \in Int /\ k = first + d - 1
    BY <1>3, <1>5
  <2>2. Count(year, month, d) = k
    BY <1>4, <2>1
  <2> HIDE DEF d
  <2>3. Month(Count(year, month, d)) = <<first, last>>
    BY <1>2, <2>1, MonthOfDay
  <2>4. QED
    BY <2>2, <2>3
<1>9. \A k \in Month(n)[1]..Month(n)[2] : Month(k) = Month(n)
  BY <1>6, <1>8
<1>10. QED
  BY <1>1, <1>7, <1>9
=============================================================================
