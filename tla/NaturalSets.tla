---------------------------- MODULE NaturalSets ----------------------------
(***************************************************************************)
(* Facts about finite sets that the proofs of several components rest on:  *)
(* least numbers, the place of a number in the ascending order of a set    *)
(* (paginate, list_log_streams, next_attempt), what a sum over a set adds  *)
(* up to, over its parts and under other names (aggregate, delay_ms, the   *)
(* figures of report and plan), lists in an order (sort_by) and the trace  *)
(* of a fold over a list (cluster_spans, ChunkWriter).                     *)
(***************************************************************************)
EXTENDS Integers, FiniteSets, FiniteSetsExt, FiniteSetTheorems, TLAPS

\* The elements of S below x, and the place of x among the elements of S.
Below(S, x) == {y \in S : y < x}

Rank(S, x) == Cardinality(Below(S, x))

\* Every set of natural numbers that is not empty has a least element.
LEMMA LeastNatural ==
  ASSUME NEW S \in SUBSET Nat, S # {}
  PROVE  \E n \in S : \A m \in S : n <= m
<1> DEFINE T == {0 .. n : n \in S}
<1>1. \A n \in Nat : 0 .. n \in FiniteSubsetsOf(Nat)
  <2>1. \A n \in Nat : IsFiniteSet(0 .. n)
    BY FS_Interval
  <2>2. QED
    BY <2>1 DEF FiniteSubsetsOf
<1>2. T \subseteq FiniteSubsetsOf(Nat) /\ T # {}
  BY <1>1
<1>3. IsWellFoundedOn(StrictSubsetOrdering(Nat), FiniteSubsetsOf(Nat))
  BY FS_StrictSubsetOrderingWellFounded
<1>4. PICK x \in T : \A y \in T : ~(<<y, x>> \in StrictSubsetOrdering(Nat))
  <2> HIDE DEF T
  <2> QED BY <1>2, <1>3, WFMin
<1>5. PICK n \in S : x = 0 .. n
  BY <1>4
<1>6. ASSUME NEW m \in S, ~(n <= m) PROVE FALSE
  <2>1. 0 .. m \in T
    OBVIOUS
  <2>2. (0 .. m) \subseteq (0 .. n) /\ n \in 0 .. n /\ n \notin 0 .. m
    BY <1>6
  <2>3. <<0 .. m, 0 .. n>> \in StrictSubsetOrdering(Nat)
    BY <2>2 DEF StrictSubsetOrdering
  <2>4. QED
    BY <1>4, <1>5, <2>1, <2>3
<1>7. QED
  BY <1>6

\* A place is a number below the size of the set, also in a larger set, where it
\* can only be higher.
LEMMA RankBound ==
  ASSUME NEW S \in SUBSET Nat, IsFiniteSet(S), NEW x \in S
  PROVE  Rank(S, x) \in Nat /\ Cardinality(S) \in Nat /\ Rank(S, x) < Cardinality(S)
<1>0. Cardinality(S) \in Nat
  BY FS_CardinalityType
<1>1. Below(S, x) \in SUBSET S /\ Below(S, x) # S
  BY DEF Below
<1>2. /\ IsFiniteSet(Below(S, x)) /\ Cardinality(Below(S, x)) <= Cardinality(S)
      /\ Cardinality(S) = Cardinality(Below(S, x)) => S = Below(S, x)
  BY <1>1, FS_Subset
<1>3. Cardinality(Below(S, x)) \in Nat
  BY <1>2, FS_CardinalityType
<1>4. QED
  BY <1>0, <1>1, <1>2, <1>3 DEF Rank

LEMMA RankGrows ==
  ASSUME NEW T \in SUBSET Nat, IsFiniteSet(T), NEW S \in SUBSET T, NEW x \in S
  PROVE  Rank(S, x) <= Rank(T, x)
<1>1. Below(S, x) \in SUBSET Below(T, x) /\ Below(T, x) \in SUBSET T
  BY DEF Below
<1>2. IsFiniteSet(Below(T, x))
  BY <1>1, FS_Subset
<1>3. QED
  BY <1>1, <1>2, FS_Subset DEF Rank

\* Places follow the order of the numbers.
LEMMA RankOrder ==
  ASSUME NEW S \in SUBSET Nat, IsFiniteSet(S), NEW x \in S, NEW y \in S, x < y
  PROVE  Rank(S, x) < Rank(S, y)
<1>0. x \in Nat /\ y \in Nat /\ \A z \in S : z \in Nat /\ (z < x => z < y)
  OBVIOUS
<1>1. Below(S, x) \in SUBSET Below(S, y) /\ Below(S, y) \in SUBSET S
  BY <1>0 DEF Below
<1>2. x \in Below(S, y) /\ x \notin Below(S, x)
  <2>1. ~(x < x)
    BY <1>0
  <2>2. QED
    BY <2>1 DEF Below
<1>3. IsFiniteSet(Below(S, y))
  BY <1>1, FS_Subset
<1>4. /\ Cardinality(Below(S, x)) <= Cardinality(Below(S, y))
      /\ Cardinality(Below(S, y)) = Cardinality(Below(S, x)) => Below(S, y) = Below(S, x)
  BY <1>1, <1>3, FS_Subset
<1>5. Rank(S, x) \in Nat /\ Rank(S, y) \in Nat
  BY RankBound
<1>6. QED
  BY <1>2, <1>4, <1>5 DEF Rank

\* Each number below the size of the set is the place of one element.
LEMMA RankOnto ==
  ASSUME NEW S \in SUBSET Nat, IsFiniteSet(S), NEW i \in Nat, i < Cardinality(S)
  PROVE  \E x \in S : Rank(S, x) = i
<1> DEFINE n == Cardinality(S)
           rank == [x \in S |-> Rank(S, x) + 1]
<1>1. n \in Nat
  BY FS_CardinalityType
<1>2. \A x \in S : Rank(S, x) \in Nat /\ Rank(S, x) < n
  BY RankBound
<1>3. rank \in [S -> 1 .. n]
  <2>1. \A x \in S : Rank(S, x) + 1 \in 1 .. n
    BY <1>1, <1>2
  <2>2. QED
    BY <2>1
<1>4. \A x, y \in S : rank[x] = rank[y] => x = y
  <2> SUFFICES ASSUME NEW x \in S, NEW y \in S, x # y PROVE rank[x] # rank[y]
    OBVIOUS
  <2>1. x < y \/ y < x
    OBVIOUS
  <2>2. Rank(S, x) \in Nat /\ Rank(S, y) \in Nat /\ Rank(S, x) # Rank(S, y)
    <3>1. Rank(S, x) \in Nat /\ Rank(S, y) \in Nat
      BY <1>2
    <3>2. Rank(S, x) < Rank(S, y) \/ Rank(S, y) < Rank(S, x)
      BY <2>1, RankOrder
    <3>3. QED
      BY <3>1, <3>2
  <2>3. QED
    BY <2>2
<1>5. IsFiniteSet(1 .. n) /\ Cardinality(1 .. n) = n
  <2>1. 1 \in Int /\ n \in Int
    BY <1>1
  <2> HIDE DEF n
  <2> QED BY <1>1, <2>1, FS_Interval
<1>6. rank \in Surjection(S, 1 .. n)
  <2> HIDE DEF rank
  <2>1. rank \in Injection(S, 1 .. n)
    BY <1>3, <1>4 DEF Injection, IsInjective
  <2>2. QED
    BY <1>5, <2>1, FS_Injection
<1>7. PICK x \in S : rank[x] = i + 1
  <2>1. i + 1 \in 1 .. n
    BY <1>1
  <2> HIDE DEF rank, n
  <2>2. QED
    BY <1>6, <2>1 DEF Surjection
<1>8. QED
  BY <1>2, <1>7

\* A finite set of numbers can be listed in ascending order: each number goes to
\* its place.
LEMMA AscendingList ==
  ASSUME NEW S \in SUBSET Nat, IsFiniteSet(S)
  PROVE  \E s \in [1 .. Cardinality(S) -> S] : \A i, k \in DOMAIN s : i < k => s[i] < s[k]
<1> DEFINE n == Cardinality(S)
           s == [i \in 1 .. n |-> CHOOSE x \in S : Rank(S, x) = i - 1]
<1>1. n \in Nat
  BY FS_CardinalityType
<1>2. \A i \in 1 .. n : \E x \in S : Rank(S, x) = i - 1
  <2> SUFFICES ASSUME NEW i \in 1 .. n PROVE \E x \in S : Rank(S, x) = i - 1
    OBVIOUS
  <2>1. i - 1 \in Nat /\ i - 1 < Cardinality(S)
    BY <1>1
  <2>2. QED
    BY <2>1, RankOnto
<1>3. \A i \in 1 .. n : s[i] \in S /\ Rank(S, s[i]) = i - 1
  <2> HIDE DEF n
  <2> QED BY <1>2
<1>4. s \in [1 .. n -> S] /\ DOMAIN s = 1 .. n
  <2> HIDE DEF n
  <2> QED BY <1>3
<1>5. ASSUME NEW i \in 1 .. n, NEW k \in 1 .. n, i < k PROVE s[i] < s[k]
  <2> HIDE DEF s
  <2>1. s[i] \in S /\ s[k] \in S /\ Rank(S, s[i]) = i - 1 /\ Rank(S, s[k]) = k - 1
    BY <1>3
  <2>2. i \in Nat /\ k \in Nat
    BY <1>1
  <2>3. s[k] < s[i] => Rank(S, s[k]) < Rank(S, s[i])
    BY <2>1, RankOrder
  <2>4. ~(s[k] < s[i])
    BY <1>5, <2>1, <2>2, <2>3
  <2>5. s[i] # s[k]
    BY <1>5, <2>1, <2>2
  <2>6. s[i] \in Nat /\ s[k] \in Nat
    BY <2>1
  <2>7. QED
    BY <2>4, <2>5, <2>6
<1>6. QED
  <2> HIDE DEF s
  <2> QED BY <1>4, <1>5

\* A set of numbers that is not empty has a least element.
LEMMA MinIn ==
  ASSUME NEW S \in SUBSET Nat, S # {}
  PROVE  Min(S) \in S /\ \A y \in S : Min(S) <= y
<1>1. \E x \in S : \A y \in S : x <= y
  BY LeastNatural
<1>2. QED
  BY <1>1 DEF Min

\* A finite set of numbers that is not empty has a greatest element.
LEMMA MaxIn ==
  ASSUME NEW S \in SUBSET Nat, IsFiniteSet(S), S # {}
  PROVE  Max(S) \in S /\ \A y \in S : y <= Max(S)
<1> DEFINE n == Cardinality(S)
<1>1. n \in Nat /\ n # 0
  BY FS_CardinalityType, FS_EmptySet
<1>2. PICK x \in S : Rank(S, x) = n - 1
  <2>1. n - 1 \in Nat /\ n - 1 < Cardinality(S)
    BY <1>1
  <2>2. QED
    BY <2>1, RankOnto
<1>3. \A y \in S : y <= x
  <2> SUFFICES ASSUME NEW y \in S, ~(y <= x) PROVE FALSE
    OBVIOUS
  <2>1. x < y
    OBVIOUS
  <2>2. Rank(S, x) < Rank(S, y) /\ Rank(S, y) \in Nat /\ Rank(S, y) < n
    BY <2>1, RankOrder, RankBound
  <2> HIDE DEF n
  <2>3. QED
    BY <1>1, <1>2, <2>2
<1>4. \E z \in S : \A y \in S : z >= y
  BY <1>3
<1>5. QED
  BY <1>4 DEF Max

\* The smaller and the greater of two numbers.
LEMMA OfTwo ==
  ASSUME NEW a \in Int, NEW b \in Int
  PROVE  /\ Min({a, b}) = IF a <= b THEN a ELSE b
         /\ Max({a, b}) = IF a <= b THEN b ELSE a
<1>1. \E x \in {a, b} : \A y \in {a, b} : x <= y
  OBVIOUS
<1>2. \E x \in {a, b} : \A y \in {a, b} : x >= y
  OBVIOUS
<1>3. Min({a, b}) \in {a, b} /\ \A y \in {a, b} : Min({a, b}) <= y
  BY <1>1 DEF Min
<1>4. Max({a, b}) \in {a, b} /\ \A y \in {a, b} : Max({a, b}) >= y
  BY <1>2 DEF Max
<1>5. QED
  BY <1>3, <1>4

-----------------------------------------------------------------------------
(* Sums over finite sets *)

\* The sum of F over S, as the commands and reports add up.
SumOver(F, S) == MapThenSumSet(LAMBDA x : F[x], S)

\* The element that a fold takes next.
Pick(s) == CHOOSE x \in s : TRUE

\* A fold that sums F, on the sets of D.
IsSum(F, D, f) == f = [s \in D |-> IF s = {} THEN 0 ELSE F[Pick(s)] + f[s \ {Pick(s)}]]

LEMMA SumUnfold ==
  ASSUME NEW F, NEW S PROVE SumOver(F, S) = (CHOOSE f : IsSum(F, SUBSET S, f))[S]
  BY DEF SumOver, MapThenSumSet, MapThenFoldSet, IsSum, Pick

Smaller(S, n) == {s \in SUBSET S : IsFiniteSet(s) /\ Cardinality(s) <= n}

LEMMA SmallerLess ==
  ASSUME NEW S, NEW n \in Nat, NEW s \in Smaller(S, n + 1), s # {}
  PROVE  Pick(s) \in s /\ s \ {Pick(s)} \in Smaller(S, n)
<1>1. Pick(s) \in s
  BY DEF Pick
<1>2. IsFiniteSet(s) /\ Cardinality(s) <= n + 1 /\ Cardinality(s) \in Nat /\ s \subseteq S
  BY FS_CardinalityType DEF Smaller
<1>3. IsFiniteSet(s \ {Pick(s)}) /\ Cardinality(s \ {Pick(s)}) = Cardinality(s) - 1
  BY <1>1, <1>2, FS_RemoveElement
<1>4. QED
  BY <1>1, <1>2, <1>3 DEF Smaller

LEMMA SumExists ==
  ASSUME NEW S, IsFiniteSet(S), NEW F
  PROVE  \E f : IsSum(F, SUBSET S, f)
<1> DEFINE Bad == {n \in Nat : ~\E f : IsSum(F, Smaller(S, n), f)}
<1>1. Bad = {}
  <2> SUFFICES ASSUME Bad # {} PROVE FALSE
    OBVIOUS
  <2>1. PICK n \in Bad : \A m \in Bad : n <= m
    <3>1. Bad \in SUBSET Nat
      OBVIOUS
    <3> HIDE DEF Bad
    <3>2. QED
      BY <3>1, LeastNatural
  <2>2. CASE n = 0
    <3> DEFINE f == [s \in Smaller(S, 0) |-> 0]
    <3>1. ASSUME NEW s \in Smaller(S, 0) PROVE s = {}
      <4>1. IsFiniteSet(s) /\ Cardinality(s) <= 0 /\ Cardinality(s) \in Nat
        BY FS_CardinalityType DEF Smaller
      <4>2. QED
        BY <4>1, FS_EmptySet
    <3>2. f = [s \in Smaller(S, 0) |-> IF s = {} THEN 0 ELSE F[Pick(s)] + f[s \ {Pick(s)}]]
      BY <3>1
    <3>3. IsSum(F, Smaller(S, 0), f)
      BY <3>2 DEF IsSum
    <3> HIDE DEF f
    <3>4. QED
      BY <2>1, <2>2, <3>3
  <2>3. CASE n # 0
    <3>1. n - 1 \in Nat /\ n - 1 \notin Bad /\ n = (n - 1) + 1
      BY <2>1, <2>3
    <3>2. PICK g : IsSum(F, Smaller(S, n - 1), g)
      BY <3>1
    <3> DEFINE m == n - 1
               f == [s \in Smaller(S, n) |-> IF s = {} THEN 0 ELSE F[Pick(s)] + g[s \ {Pick(s)}]]
    <3>3. ASSUME NEW s \in Smaller(S, m) PROVE s \in Smaller(S, n) /\ f[s] = g[s]
      <4>1. s \in Smaller(S, n)
        <5>1. s \in SUBSET S /\ IsFiniteSet(s) /\ Cardinality(s) <= n - 1 /\ Cardinality(s) \in Nat
          BY FS_CardinalityType DEF Smaller
        <5>2. n \in Nat /\ Cardinality(s) <= n
          BY <3>1, <5>1
        <5> HIDE DEF f, Bad
        <5>3. QED
          BY <5>1, <5>2 DEF Smaller
      <4>2. QED
        BY <3>2, <4>1 DEF IsSum
    <3>4. ASSUME NEW s \in Smaller(S, n), s # {} PROVE f[s \ {Pick(s)}] = g[s \ {Pick(s)}]
      <4>1. s \ {Pick(s)} \in Smaller(S, m)
        <5> HIDE DEF f
        <5> QED BY <3>1, <3>4, SmallerLess
      <4> HIDE DEF f
      <4>2. QED
        BY <3>3, <4>1
    <3>5. f = [s \in Smaller(S, n) |-> IF s = {} THEN 0 ELSE F[Pick(s)] + f[s \ {Pick(s)}]]
      BY <3>4
    <3>6. IsSum(F, Smaller(S, n), f)
      BY <3>5 DEF IsSum
    <3> HIDE DEF f
    <3>7. QED
      BY <2>1, <3>6
  <2>4. QED
    BY <2>2, <2>3
<1>2. Cardinality(S) \in Nat /\ Smaller(S, Cardinality(S)) = SUBSET S
  <2>1. \A s \in SUBSET S : IsFiniteSet(s) /\ Cardinality(s) <= Cardinality(S)
    BY FS_Subset
  <2>2. QED
    BY <2>1, FS_CardinalityType DEF Smaller
<1>3. Cardinality(S) \notin Bad
  BY <1>1
<1>4. QED
  BY <1>2, <1>3

\* One set after the other: what holds of the empty set, and of a set when it holds
\* of the set without the element that the fold takes, holds of all.
LEMMA FoldInduction ==
  ASSUME NEW S, IsFiniteSet(S), NEW P \in SUBSET (SUBSET S), {} \in P,
         \A s \in SUBSET S : s # {} /\ s \ {Pick(s)} \in P => s \in P
  PROVE  P = SUBSET S
<1> SUFFICES ASSUME P # SUBSET S PROVE FALSE
  OBVIOUS
<1> DEFINE Bad == {Cardinality(s) : s \in (SUBSET S) \ P}
<1>1. \A s \in SUBSET S : IsFiniteSet(s) /\ Cardinality(s) \in Nat
  BY FS_Subset, FS_CardinalityType
<1>2. PICK n \in Bad : \A m \in Bad : n <= m
  <2>1. Bad \in SUBSET Nat /\ Bad # {}
    BY <1>1
  <2> HIDE DEF Bad
  <2>2. QED
    BY <2>1, LeastNatural
<1>3. PICK s \in (SUBSET S) \ P : n = Cardinality(s)
  BY <1>2
<1>4. s # {} /\ Pick(s) \in s
  BY <1>3 DEF Pick
<1>5. s \ {Pick(s)} \in SUBSET S /\ s \ {Pick(s)} \notin P
  BY <1>3, <1>4
<1>6. Cardinality(s \ {Pick(s)}) = Cardinality(s) - 1 /\ Cardinality(s) \in Nat
  BY <1>1, <1>3, <1>4, FS_RemoveElement
<1>7. Cardinality(s \ {Pick(s)}) \in Bad
  BY <1>5
<1> HIDE DEF Bad
<1>8. QED
  BY <1>2, <1>3, <1>6, <1>7

\* A fold that sums F is the sum of F over each set.
LEMMA SumUnique ==
  ASSUME NEW S, IsFiniteSet(S), NEW F, NEW f, IsSum(F, SUBSET S, f)
  PROVE  f[S] = SumOver(F, S)
<1> DEFINE g == CHOOSE h : IsSum(F, SUBSET S, h)
<1>1. IsSum(F, SUBSET S, g)
  BY SumExists
<1>2. g[S] = SumOver(F, S)
  BY SumUnfold
<1> HIDE DEF g
<1> DEFINE P == {s \in SUBSET S : f[s] = g[s]}
<1>3. {} \in P
  BY <1>1 DEF IsSum
<1>4. ASSUME NEW s \in SUBSET S, s # {}, s \ {Pick(s)} \in P PROVE s \in P
  <2>1. f[s] = F[Pick(s)] + f[s \ {Pick(s)}]
    BY <1>4 DEF IsSum
  <2>2. g[s] = F[Pick(s)] + g[s \ {Pick(s)}]
    BY <1>1, <1>4 DEF IsSum
  <2>3. QED
    BY <1>4, <2>1, <2>2
<1>5. P = SUBSET S
  <2>1. P \in SUBSET (SUBSET S)
    OBVIOUS
  <2> HIDE DEF P
  <2>2. QED
    BY <1>3, <1>4, <2>1, FoldInduction
<1>6. S \in P
  BY <1>5
<1>7. QED
  BY <1>2, <1>6

\* A sum, one element at a time.
LEMMA SumFold ==
  ASSUME NEW S, IsFiniteSet(S), NEW F
  PROVE  \E f : IsSum(F, SUBSET S, f) /\ f[S] = SumOver(F, S)
  BY SumExists, SumUnique

LEMMA SumType ==
  ASSUME NEW S, IsFiniteSet(S), NEW F, \A x \in S : F[x] \in Nat
  PROVE  SumOver(F, S) \in Nat
<1>1. PICK f : IsSum(F, SUBSET S, f) /\ f[S] = SumOver(F, S)
  BY SumFold
<1> DEFINE P == {s \in SUBSET S : f[s] \in Nat}
<1>2. {} \in P
  BY <1>1 DEF IsSum
<1>3. ASSUME NEW s \in SUBSET S, s # {}, s \ {Pick(s)} \in P PROVE s \in P
  <2>1. f[s] = F[Pick(s)] + f[s \ {Pick(s)}] /\ Pick(s) \in s
    BY <1>1, <1>3 DEF IsSum, Pick
  <2>2. QED
    BY <1>3, <2>1
<1>4. P = SUBSET S
  <2>1. P \in SUBSET (SUBSET S)
    OBVIOUS
  <2> HIDE DEF P
  <2>2. QED
    BY <1>2, <1>3, <2>1, FoldInduction
<1>5. S \in P
  BY <1>4
<1>6. QED
  BY <1>1, <1>5

\* Sums of terms are sums of sums.
LEMMA SumAdd ==
  ASSUME NEW S, IsFiniteSet(S), NEW F, NEW G, NEW H,
         \A x \in S : F[x] \in Nat /\ G[x] \in Nat /\ H[x] \in Nat /\ F[x] = G[x] + H[x]
  PROVE  SumOver(F, S) = SumOver(G, S) + SumOver(H, S)
<1>1. PICK f : IsSum(F, SUBSET S, f) /\ f[S] = SumOver(F, S)
  BY SumFold
<1>2. PICK g : IsSum(G, SUBSET S, g) /\ g[S] = SumOver(G, S)
  BY SumFold
<1>3. PICK h : IsSum(H, SUBSET S, h) /\ h[S] = SumOver(H, S)
  BY SumFold
<1> DEFINE P == {s \in SUBSET S : g[s] \in Nat /\ h[s] \in Nat /\ f[s] = g[s] + h[s]}
<1>4. {} \in P
  BY <1>1, <1>2, <1>3 DEF IsSum
<1>5. ASSUME NEW s \in SUBSET S, s # {}, s \ {Pick(s)} \in P PROVE s \in P
  <2> DEFINE x == Pick(s)
             r == s \ {Pick(s)}
  <2>0. x \in S /\ r \in SUBSET S
    BY <1>5 DEF Pick
  <2>1. f[s] = F[x] + f[r] /\ g[s] = G[x] + g[r] /\ h[s] = H[x] + h[r]
    BY <1>1, <1>2, <1>3, <1>5 DEF IsSum
  <2>2. g[r] \in Nat /\ h[r] \in Nat /\ f[r] = g[r] + h[r]
    BY <1>5
  <2> HIDE DEF x, r
  <2>3. F[x] \in Nat /\ G[x] \in Nat /\ H[x] \in Nat /\ F[x] = G[x] + H[x]
    BY <2>0
  <2>4. QED
    BY <2>1, <2>2, <2>3
<1>6. P = SUBSET S
  <2>1. P \in SUBSET (SUBSET S)
    OBVIOUS
  <2> HIDE DEF P
  <2>2. QED
    BY <1>4, <1>5, <2>1, FoldInduction
<1>7. S \in P
  BY <1>6
<1>8. QED
  BY <1>1, <1>2, <1>3, <1>7

\* The terms bound the sum.
LEMMA SumMono ==
  ASSUME NEW S, IsFiniteSet(S), NEW F, NEW G,
         \A x \in S : F[x] \in Nat /\ G[x] \in Nat /\ F[x] <= G[x]
  PROVE  SumOver(F, S) <= SumOver(G, S)
<1> DEFINE H == [x \in S |-> G[x] - F[x]]
<1>1. \A x \in S : H[x] \in Nat /\ G[x] = F[x] + H[x]
  OBVIOUS
<1> HIDE DEF H
<1>2. SumOver(G, S) = SumOver(F, S) + SumOver(H, S)
  BY <1>1, SumAdd
<1>3. SumOver(F, S) \in Nat /\ SumOver(H, S) \in Nat
  BY <1>1, SumType
<1>4. QED
  BY <1>2, <1>3

\* Only the terms over S matter.
LEMMA SumEqual ==
  ASSUME NEW S, IsFiniteSet(S), NEW F, NEW G, \A x \in S : F[x] = G[x]
  PROVE  SumOver(F, S) = SumOver(G, S)
<1>1. PICK f : IsSum(F, SUBSET S, f) /\ f[S] = SumOver(F, S)
  BY SumFold
<1>2. \A s \in SUBSET S : s # {} => F[Pick(s)] = G[Pick(s)]
  BY DEF Pick
<1>3. IsSum(G, SUBSET S, f)
  BY <1>1, <1>2 DEF IsSum
<1>4. QED
  BY <1>1, <1>3, SumUnique

\* A fold that sums over S sums over the subsets of S as well.
LEMMA SumSubset ==
  ASSUME NEW S, NEW T \in SUBSET S, IsFiniteSet(S), NEW F, NEW f, IsSum(F, SUBSET S, f)
  PROVE  f[T] = SumOver(F, T)
<1> DEFINE g == [s \in SUBSET T |-> f[s]]
<1>1. ASSUME NEW s \in SUBSET T
      PROVE  g[s] = IF s = {} THEN 0 ELSE F[Pick(s)] + g[s \ {Pick(s)}]
  <2>1. s \in SUBSET S /\ s \ {Pick(s)} \in SUBSET T
    OBVIOUS
  <2>2. f[s] = IF s = {} THEN 0 ELSE F[Pick(s)] + f[s \ {Pick(s)}]
    BY <2>1 DEF IsSum
  <2>3. QED
    BY <2>1, <2>2
<1>2. IsSum(F, SUBSET T, g)
  BY <1>1 DEF IsSum
<1>3. g[T] = f[T] /\ IsFiniteSet(T)
  BY FS_Subset
<1> HIDE DEF g
<1>4. QED
  BY <1>2, <1>3, SumUnique

\* The elements may be added in any order.
LEMMA SumRemove ==
  ASSUME NEW S, IsFiniteSet(S), NEW F, \A x \in S : F[x] \in Nat, NEW x \in S
  PROVE  SumOver(F, S) = F[x] + SumOver(F, S \ {x})
<1>1. PICK f : IsSum(F, SUBSET S, f)
  BY SumExists
<1>2. ASSUME NEW T \in SUBSET S PROVE f[T] = SumOver(F, T) /\ f[T] \in Nat /\ IsFiniteSet(T)
  <2>0. f[T] = SumOver(F, T)
    BY <1>1, SumSubset
  <2>1. f[T] = SumOver(F, T) /\ IsFiniteSet(T)
    BY <2>0, FS_Subset
  <2>2. SumOver(F, T) \in Nat
    BY <2>1, SumType
  <2>3. QED
    BY <2>1, <2>2
<1> DEFINE Wrong(s) == \E y \in s : f[s] # F[y] + f[s \ {y}]
           Bad == {Cardinality(s) : s \in {t \in SUBSET S : Wrong(t)}}
<1>3. ASSUME NEW s \in SUBSET S, Wrong(s), \A t \in SUBSET S : Wrong(t) => Cardinality(s) <= Cardinality(t)
      PROVE  FALSE
  <2>1. PICK y \in s : f[s] # F[y] + f[s \ {y}]
    BY <1>3
  <2> DEFINE c == Pick(s)
             r == s \ {c, y}
  <2>2. c \in s /\ f[s] = F[c] + f[s \ {c}]
    BY <1>1, <2>1 DEF IsSum, Pick
  <2>3. c # y
    BY <2>1, <2>2
  <2>4. /\ IsFiniteSet(s) /\ Cardinality(s) \in Nat
        /\ Cardinality(s \ {c}) = Cardinality(s) - 1 /\ Cardinality(s \ {y}) = Cardinality(s) - 1
    BY <1>2, <2>2, FS_RemoveElement, FS_CardinalityType
  <2>5. ~Wrong(s \ {c}) /\ ~Wrong(s \ {y})
    <3> HIDE DEF c, Wrong
    <3> QED BY <1>3, <2>4
  <2>6. (s \ {c}) \ {y} = r /\ (s \ {y}) \ {c} = r /\ y \in s \ {c} /\ c \in s \ {y}
    BY <2>2, <2>3
  <2> HIDE DEF c, r
  <2>7. f[s \ {c}] = F[y] + f[r] /\ f[s \ {y}] = F[c] + f[r]
    BY <2>5, <2>6
  <2>8. F[c] \in Nat /\ F[y] \in Nat /\ f[r] \in Nat
    BY <1>2, <2>2 DEF r
  <2>9. QED
    BY <2>1, <2>2, <2>7, <2>8
<1>4. \A s \in SUBSET S : ~Wrong(s)
  <2> SUFFICES ASSUME Bad # {} PROVE FALSE
    OBVIOUS
  <2>1. \A s \in SUBSET S : Cardinality(s) \in Nat
    BY <1>2, FS_CardinalityType
  <2>2. PICK n \in Bad : \A m \in Bad : n <= m
    <3>1. Bad \in SUBSET Nat
      BY <2>1
    <3> HIDE DEF Bad
    <3>2. QED
      BY <3>1, LeastNatural
  <2>3. PICK s \in SUBSET S : Wrong(s) /\ n = Cardinality(s)
    BY <2>2
  <2>4. \A t \in SUBSET S : Wrong(t) => Cardinality(s) <= Cardinality(t)
    <3> HIDE DEF Wrong
    <3> QED BY <2>2, <2>3
  <2> HIDE DEF Wrong, Bad
  <2>5. QED
    BY <1>3, <2>3, <2>4
<1>5. QED
  BY <1>2, <1>4

-----------------------------------------------------------------------------
(* Finite sets in an order *)

\* R is a strict order of all of S.
Orders(R, S) ==
  /\ \A x \in S : <<x, x>> \notin R
  /\ \A x, y \in S : x # y => <<x, y>> \in R \/ <<y, x>> \in R
  /\ \A x, y, z \in S : <<x, y>> \in R /\ <<y, z>> \in R => <<x, z>> \in R

Preceding(R, S, x) == {y \in S : <<y, x>> \in R}

\* Who comes later has more elements before it.
LEMMA BeforeOrder ==
  ASSUME NEW S, IsFiniteSet(S), NEW R, Orders(R, S), NEW x \in S
  PROVE  /\ Cardinality(Preceding(R, S, x)) \in Nat
         /\ Cardinality(Preceding(R, S, x)) < Cardinality(S) /\ Cardinality(S) \in Nat
         /\ \A y \in S : <<x, y>> \in R =>
              Cardinality(Preceding(R, S, x)) < Cardinality(Preceding(R, S, y))
<1>1. \A y \in S : /\ IsFiniteSet(Preceding(R, S, y)) /\ Cardinality(Preceding(R, S, y)) \in Nat
                   /\ Preceding(R, S, y) \in SUBSET S
  <2>1. \A y \in S : Preceding(R, S, y) \in SUBSET S
    BY DEF Preceding
  <2>2. QED
    BY <2>1, FS_Subset, FS_CardinalityType
<1>2. Cardinality(S) \in Nat
  BY FS_CardinalityType
<1>3. x \notin Preceding(R, S, x)
  BY DEF Preceding, Orders
<1>4. ASSUME NEW T, IsFiniteSet(T), Cardinality(T) \in Nat, Preceding(R, S, x) \in SUBSET T, x \in T
      PROVE  Cardinality(Preceding(R, S, x)) < Cardinality(T)
  <2>1. /\ Cardinality(Preceding(R, S, x)) <= Cardinality(T)
        /\ Cardinality(T) = Cardinality(Preceding(R, S, x)) => T = Preceding(R, S, x)
    BY <1>4, FS_Subset
  <2>2. QED
    BY <1>1, <1>3, <1>4, <2>1
<1>5. ASSUME NEW y \in S, <<x, y>> \in R
      PROVE  Cardinality(Preceding(R, S, x)) < Cardinality(Preceding(R, S, y))
  <2>1. Preceding(R, S, x) \in SUBSET Preceding(R, S, y) /\ x \in Preceding(R, S, y)
    BY <1>5 DEF Preceding, Orders
  <2>2. QED
    BY <1>1, <1>4, <2>1
<1>6. QED
  BY <1>1, <1>2, <1>4, <1>5

\* A finite set can be listed in each of its orders.
LEMMA ListInOrder ==
  ASSUME NEW S, IsFiniteSet(S), NEW R, Orders(R, S)
  PROVE  \E s \in [1 .. Cardinality(S) -> S] :
           /\ \A i, k \in 1 .. Cardinality(S) : i # k => s[i] # s[k]
           /\ \A i, k \in 1 .. Cardinality(S) : i < k => <<s[i], s[k]>> \in R
<1> DEFINE n == Cardinality(S)
           c(x) == Cardinality(Preceding(R, S, x))
           rank == [x \in S |-> c(x) + 1]
<1>1. n \in Nat
  BY FS_CardinalityType
<1>2. \A x \in S : c(x) \in Nat /\ c(x) < n /\ \A y \in S : <<x, y>> \in R => c(x) < c(y)
  BY BeforeOrder
<1> HIDE DEF c
<1>3. rank \in [S -> 1 .. n]
  <2>1. \A x \in S : c(x) + 1 \in 1 .. n
    <3> HIDE DEF n
    <3> QED BY <1>1, <1>2
  <2>2. QED BY <2>1
<1>4. \A x, y \in S : rank[x] = rank[y] => x = y
  <2> SUFFICES ASSUME NEW x \in S, NEW y \in S, x # y PROVE rank[x] # rank[y]
    OBVIOUS
  <2>1. <<x, y>> \in R \/ <<y, x>> \in R
    BY DEF Orders
  <2>2. c(x) \in Nat /\ c(y) \in Nat /\ (c(x) < c(y) \/ c(y) < c(x))
    BY <1>2, <2>1
  <2>3. QED BY <2>2
<1>5. IsFiniteSet(1 .. n) /\ Cardinality(1 .. n) = n
  <2> HIDE DEF n
  <2>1. 1 \in Int /\ n \in Int
    BY <1>1
  <2> QED BY <1>1, <2>1, FS_Interval
<1>6. rank \in Surjection(S, 1 .. n)
  <2> HIDE DEF rank
  <2>1. rank \in Injection(S, 1 .. n)
    BY <1>3, <1>4 DEF Injection, IsInjective
  <2>2. QED
    BY <1>5, <2>1, FS_Injection
<1> DEFINE s == [i \in 1 .. n |-> CHOOSE x \in S : rank[x] = i]
<1>7. \A i \in 1 .. n : s[i] \in S /\ rank[s[i]] = i
  <2>1. \A i \in 1 .. n : \E x \in S : rank[x] = i
    <3> HIDE DEF rank, n
    <3> QED BY <1>6 DEF Surjection
  <2> HIDE DEF rank, n
  <2>2. QED BY <2>1
<1>8. s \in [1 .. n -> S]
  <2> HIDE DEF rank, n
  <2> QED BY <1>7
<1>9. ASSUME NEW i \in 1 .. n, NEW k \in 1 .. n, i < k PROVE <<s[i], s[k]>> \in R
  <2> HIDE DEF s
  <2>1. s[i] \in S /\ s[k] \in S /\ c(s[i]) + 1 = i /\ c(s[k]) + 1 = k
    BY <1>7
  <2>2. s[i] # s[k]
    BY <1>9, <2>1
  <2>3. c(s[i]) \in Nat /\ c(s[k]) \in Nat /\ ~(c(s[k]) < c(s[i]))
    BY <1>2, <1>9, <2>1
  <2>4. <<s[k], s[i]>> \notin R
    BY <1>2, <2>1, <2>3
  <2>5. QED BY <2>1, <2>2, <2>4 DEF Orders
<1>10. \A i, k \in 1 .. n : i # k => s[i] # s[k]
  <2> HIDE DEF s, rank
  <2> QED BY <1>7
<1>11. QED
  <2> HIDE DEF s
  <2> QED BY <1>8, <1>9, <1>10

-----------------------------------------------------------------------------
(* Folds from left to right *)

\* What holds at 0, and at each number when at the one before, holds at the last.
LEMMA UpTo ==
  ASSUME NEW n \in Nat, NEW P, 0 \in P, \A i \in 1 .. n : i - 1 \in P => i \in P
  PROVE  \A i \in 0 .. n : i \in P
<1> DEFINE Bad == {i \in 0 .. n : i \notin P}
<1> SUFFICES ASSUME Bad # {} PROVE FALSE
  OBVIOUS
<1>1. PICK i \in Bad : \A k \in Bad : i <= k
  <2>1. Bad \in SUBSET Nat
    OBVIOUS
  <2> HIDE DEF Bad
  <2> QED BY <2>1, LeastNatural
<1>2. i \in 0 .. n /\ i \notin P /\ i # 0
  BY <1>1
<1>3. i \in 1 .. n /\ i - 1 \in 0 .. n
  BY <1>2
<1>4. i - 1 \notin P
  BY <1>2, <1>3
<1>5. i - 1 \in Bad
  BY <1>3, <1>4
<1> HIDE DEF Bad
<1>6. i <= i - 1
  BY <1>1, <1>5
<1>7. QED BY <1>2, <1>6

\* The recursion of a fold that takes the greatest index first, with the step as a
\* function G of the result so far and the index.
IsFold(G, base, n, f) ==
  f = [s \in SUBSET (1 .. n) |-> IF s = {} THEN base ELSE G[<<f[s \ {Max(s)}], Max(s)>>]]

LEMMA MaxOfPart ==
  ASSUME NEW n \in Nat, NEW s \in SUBSET (1 .. n), s # {}
  PROVE  /\ IsFiniteSet(s) /\ Max(s) \in s /\ \A y \in s : y <= Max(s)
         /\ Max(s) \in 1 .. n /\ s \ {Max(s)} \in SUBSET (1 .. n)
         /\ s \in SUBSET (1 .. Max(s)) /\ s \ {Max(s)} \in SUBSET (1 .. (Max(s) - 1))
<1>1. IsFiniteSet(1 .. n)
  BY FS_Interval
<1>2. IsFiniteSet(s)
  BY <1>1, FS_Subset
<1>3. s \in SUBSET Nat
  OBVIOUS
<1>4. Max(s) \in s /\ \A y \in s : y <= Max(s)
  BY <1>2, <1>3, MaxIn
<1> DEFINE m == Max(s)
<1>5. m \in s /\ m \in 1 .. n /\ \A y \in s : y \in 1 .. n /\ y <= m
  BY <1>4
<1> HIDE DEF m
<1>6. s \in SUBSET (1 .. m) /\ s \ {m} \in SUBSET (1 .. (m - 1)) /\ s \ {m} \in SUBSET (1 .. n)
  <2>1. \A y \in s : y \in 1 .. m
    BY <1>5
  <2>2. \A y \in s \ {m} : y \in 1 .. (m - 1) /\ y \in 1 .. n
    BY <1>5
  <2>3. QED BY <2>1, <2>2
<1>7. QED
  BY <1>2, <1>5, <1>6 DEF m

\* Indexes up to i, and their greatest.
LEMMA MaxOfSegment ==
  ASSUME NEW i \in Nat \ {0}
  PROVE  Max(1 .. i) = i /\ (1 .. i) \ {i} = 1 .. (i - 1) /\ 1 .. i # {}
<1>1. 1 .. i # {} /\ i \in 1 .. i
  OBVIOUS
<1>2. Max(1 .. i) \in 1 .. i /\ \A y \in 1 .. i : y <= Max(1 .. i)
  BY <1>1, MaxOfPart
<1>3. QED
  BY <1>1, <1>2

\* The recursion has a solution.
LEMMA FoldExists ==
  ASSUME NEW n \in Nat, NEW G, NEW base
  PROVE  \E f : IsFold(G, base, n, f)
<1> DEFINE Is(m, f) == f = [s \in SUBSET (1 .. m) |->
                              IF s = {} THEN base ELSE G[<<f[s \ {Max(s)}], Max(s)>>]]
           P == {m \in Nat : \E f : Is(m, f)}
<1>1. 0 \in P
  <2> DEFINE f == [s \in SUBSET (1 .. 0) |-> base]
  <2>1. \A s \in SUBSET (1 .. 0) : s = {}
    OBVIOUS
  <2>2. f = [s \in SUBSET (1 .. 0) |-> IF s = {} THEN base ELSE G[<<f[s \ {Max(s)}], Max(s)>>]]
    BY <2>1
  <2>3. Is(0, f)
    BY <2>2
  <2> HIDE DEF f, Is
  <2>4. QED BY <2>3
<1>2. ASSUME NEW m \in 1 .. n, m - 1 \in P PROVE m \in P
  <2>1. PICK g : Is(m - 1, g)
    BY <1>2
  <2>2. m \in Nat /\ m - 1 \in Nat
    BY <1>2
  <2> DEFINE f == [s \in SUBSET (1 .. m) |-> IF s = {} THEN base ELSE G[<<g[s \ {Max(s)}], Max(s)>>]]
  <2>3. ASSUME NEW s \in SUBSET (1 .. (m - 1)) PROVE f[s] = g[s]
    <3>1. s \in SUBSET (1 .. m)
      BY <2>2
    <3>2. QED BY <2>1, <3>1
  <2>4. ASSUME NEW s \in SUBSET (1 .. m), s # {} PROVE f[s \ {Max(s)}] = g[s \ {Max(s)}]
    <3>1. Max(s) \in 1 .. m /\ s \ {Max(s)} \in SUBSET (1 .. (Max(s) - 1))
      BY <2>2, <2>4, MaxOfPart
    <3>2. s \ {Max(s)} \in SUBSET (1 .. (m - 1))
      BY <2>2, <3>1
    <3> HIDE DEF f
    <3>3. QED BY <2>3, <3>2
  <2>5. f = [s \in SUBSET (1 .. m) |-> IF s = {} THEN base ELSE G[<<f[s \ {Max(s)}], Max(s)>>]]
    BY <2>4
  <2>6. Is(m, f)
    BY <2>5
  <2> HIDE DEF f, Is
  <2>7. QED BY <2>2, <2>6
<1>3. n \in P
  <2> HIDE DEF P
  <2>1. \A i \in 0 .. n : i \in P
    BY <1>1, <1>2, UpTo
  <2>2. QED BY <2>1
<1>4. QED BY <1>3 DEF IsFold

\* One element after the other.
LEMMA FoldTrace ==
  ASSUME NEW n \in Nat, NEW G, NEW base, NEW f, IsFold(G, base, n, f)
  PROVE  /\ f[1 .. 0] = base
         /\ \A i \in 1 .. n : f[1 .. i] = G[<<f[1 .. (i - 1)], i>>]
<1>1. 1 .. 0 = {} /\ {} \in SUBSET (1 .. n)
  OBVIOUS
<1>2. f[1 .. 0] = base
  BY <1>1 DEF IsFold
<1>3. ASSUME NEW i \in 1 .. n PROVE f[1 .. i] = G[<<f[1 .. (i - 1)], i>>]
  <2>0. i \in Nat \ {0} /\ 1 .. i \in SUBSET (1 .. n)
    OBVIOUS
  <2>1. Max(1 .. i) = i /\ (1 .. i) \ {i} = 1 .. (i - 1) /\ 1 .. i # {} /\ 1 .. i \in SUBSET (1 .. n)
    BY <2>0, MaxOfSegment
  <2> DEFINE s == 1 .. i
  <2>2. f[s] = IF s = {} THEN base ELSE G[<<f[s \ {Max(s)}], Max(s)>>]
    BY <2>1 DEF IsFold
  <2>3. QED BY <2>1, <2>2
<1>4. QED BY <1>2, <1>3

\* The results stay in a set that the step stays in.
LEMMA FoldTyped ==
  ASSUME NEW n \in Nat, NEW W, NEW G, NEW base \in W, NEW f, IsFold(G, base, n, f),
         \A x \in W : \A i \in 1 .. n : G[<<x, i>>] \in W
  PROVE  \A s \in SUBSET (1 .. n) : f[s] \in W
<1> DEFINE P == {m \in Nat : \A s \in SUBSET (1 .. n) : s \in SUBSET (1 .. m) => f[s] \in W}
<1>1. 0 \in P
  BY DEF IsFold
<1>2. ASSUME NEW m \in 1 .. n, m - 1 \in P PROVE m \in P
  <2> SUFFICES ASSUME NEW s \in SUBSET (1 .. n), s \in SUBSET (1 .. m) PROVE f[s] \in W
    OBVIOUS
  <2>1. CASE s = {}
    BY <2>1 DEF IsFold
  <2>2. CASE s # {}
    <3>1. /\ Max(s) \in 1 .. n /\ Max(s) \in s /\ s \ {Max(s)} \in SUBSET (1 .. n)
          /\ s \ {Max(s)} \in SUBSET (1 .. (Max(s) - 1))
      BY <2>2, MaxOfPart
    <3>2. s \ {Max(s)} \in SUBSET (1 .. (m - 1))
      BY <3>1
    <3>3. f[s \ {Max(s)}] \in W
      BY <1>2, <3>1, <3>2
    <3>4. f[s] = G[<<f[s \ {Max(s)}], Max(s)>>]
      BY <2>2 DEF IsFold
    <3>5. QED BY <3>1, <3>3, <3>4
  <2>3. QED BY <2>1, <2>2
<1>3. n \in P
  <2> HIDE DEF P
  <2>1. \A i \in 0 .. n : i \in P
    BY <1>1, <1>2, UpTo
  <2>2. QED BY <2>1
<1>4. QED BY <1>3

StaysIn(G, n, W) == \A x \in W : \A i \in 1 .. n : G[<<x, i>>] \in W

\* A fold whose step stays in W: a solution, at which the step can be unfolded.
Unfolds(n, W, f) ==
  \A s \in SUBSET (1 .. n) : s # {} => Max(s) \in 1 .. n /\ f[s \ {Max(s)}] \in W

LEMMA FoldSolves ==
  ASSUME NEW n \in Nat, NEW W, NEW G, NEW base \in W, StaysIn(G, n, W)
  PROVE  \E f : IsFold(G, base, n, f) /\ Unfolds(n, W, f)
<1>1. PICK f : IsFold(G, base, n, f)
  BY FoldExists
<1>2. \A s \in SUBSET (1 .. n) : f[s] \in W
  BY <1>1, FoldTyped DEF StaysIn
<1>3. \A s \in SUBSET (1 .. n) : s # {} => Max(s) \in 1 .. n /\ s \ {Max(s)} \in SUBSET (1 .. n)
  BY MaxOfPart
<1>4. QED BY <1>1, <1>2, <1>3 DEF Unfolds

\* f takes the step G while it is in W.
Follows(G, n, W, f) ==
  \A s \in SUBSET (1 .. n) : s # {} /\ f[s \ {Max(s)}] \in W =>
    f[s] = G[<<f[s \ {Max(s)}], Max(s)>>]

\* The results of the steps, one index after the other.
Traces(G, base, n, W) ==
  {a \in [0 .. n -> W] : a[0] = base /\ \A i \in 1 .. n : a[i] = G[<<a[i - 1], i>>]}

LEMMA FoldSteps ==
  ASSUME NEW n \in Nat, NEW W, NEW G, NEW base \in W, NEW f, f[{}] = base,
         StaysIn(G, n, W), Follows(G, n, W, f)
  PROVE  \E a \in Traces(G, base, n, W) : a[n] = f[1 .. n]
<1> DEFINE P == {i \in Nat : f[1 .. i] \in W}
<1>1. 1 .. 0 = {}
  OBVIOUS
<1>2. 0 \in P
  BY <1>1
<1>3. ASSUME NEW i \in 1 .. n, f[1 .. (i - 1)] \in W PROVE f[1 .. i] = G[<<f[1 .. (i - 1)], i>>]
  <2>1. i \in Nat \ {0} /\ 1 .. i \in SUBSET (1 .. n)
    OBVIOUS
  <2> DEFINE s == 1 .. i
  <2>2. Max(s) = i /\ s \ {i} = 1 .. (i - 1) /\ s # {}
    BY <2>1, MaxOfSegment
  <2>3. f[s \ {Max(s)}] \in W
    BY <1>3, <2>2
  <2>4. f[s] = G[<<f[s \ {Max(s)}], Max(s)>>]
    BY <2>1, <2>2, <2>3 DEF Follows
  <2>5. QED BY <2>2, <2>4
<1>4. ASSUME NEW i \in 1 .. n, i - 1 \in P PROVE i \in P
  <2>1. f[1 .. (i - 1)] \in W /\ i \in Nat
    BY <1>4
  <2>2. f[1 .. i] \in W
    BY <1>3, <2>1 DEF StaysIn
  <2>3. QED BY <2>1, <2>2
<1>5. \A i \in 0 .. n : i \in P
  <2> HIDE DEF P
  <2> QED BY <1>2, <1>4, UpTo
<1> DEFINE a == [i \in 0 .. n |-> f[1 .. i]]
<1>6. \A i \in 0 .. n : f[1 .. i] \in W
  BY <1>5
<1>7. a \in [0 .. n -> W] /\ a[0] = base /\ a[n] = f[1 .. n]
  BY <1>1, <1>6
<1>8. \A i \in 1 .. n : a[i] = G[<<a[i - 1], i>>]
  <2>1. \A i \in 1 .. n : i \in 0 .. n /\ i - 1 \in 0 .. n
    OBVIOUS
  <2>2. QED BY <1>3, <1>6, <2>1
<1> HIDE DEF a
<1>9. QED BY <1>7, <1>8 DEF Traces

\* a is a run of n steps of G.
RunOf(G, n, a) == \A i \in 1 .. n : a[i] = G[<<a[i - 1], i>>]

\* Two runs of one step from one start end alike.
LEMMA TraceUnique ==
  ASSUME NEW n \in Nat, NEW G, NEW a, NEW b, a[0] = b[0], RunOf(G, n, a), RunOf(G, n, b)
  PROVE  a[n] = b[n]
<1> DEFINE P == {i \in Nat : a[i] = b[i]}
<1>1. 0 \in P
  OBVIOUS
<1>2. ASSUME NEW i \in 1 .. n, i - 1 \in P PROVE i \in P
  <2>1. a[i - 1] = b[i - 1] /\ i \in Nat
    BY <1>2
  <2>2. a[i] = G[<<a[i - 1], i>>] /\ b[i] = G[<<b[i - 1], i>>]
    BY DEF RunOf
  <2>3. QED BY <2>1, <2>2
<1>3. \A i \in 0 .. n : i \in P
  <2> HIDE DEF P
  <2> QED BY <1>1, <1>2, UpTo
<1>4. n \in 0 .. n
  OBVIOUS
<1>5. QED BY <1>3, <1>4

-----------------------------------------------------------------------------
(* Parts, images and multiples of a sum *)

LEMMA SumEmpty ==
  ASSUME NEW F PROVE SumOver(F, {}) = 0
<1>1. IsFiniteSet({})
  BY FS_EmptySet
<1>2. PICK f : IsSum(F, SUBSET {}, f) /\ f[{}] = SumOver(F, {})
  BY <1>1, SumFold
<1>3. QED BY <1>2 DEF IsSum

\* A sum in two parts.
LEMMA SumSplit ==
  ASSUME NEW S, IsFiniteSet(S), NEW F, \A x \in S : F[x] \in Nat, NEW T \in SUBSET S
  PROVE  /\ SumOver(F, S) = SumOver(F, T) + SumOver(F, S \ T)
         /\ SumOver(F, T) \in Nat /\ SumOver(F, S \ T) \in Nat
<1>1. \A t \in SUBSET S : IsFiniteSet(t) /\ SumOver(F, t) \in Nat
  BY FS_Subset, SumType
<1> DEFINE P == {t \in SUBSET S : SumOver(F, S) = SumOver(F, t) + SumOver(F, S \ t)}
<1>2. {} \in P
  <2>1. S \ {} = S /\ SumOver(F, {}) = 0 /\ SumOver(F, S) \in Nat
    BY <1>1, SumEmpty
  <2>2. QED BY <2>1
<1>3. ASSUME NEW t \in SUBSET S, t # {}, t \ {Pick(t)} \in P PROVE t \in P
  <2> DEFINE x == Pick(t)
             u == t \ {x}
  <2>1. x \in t /\ x \in S
    BY <1>3 DEF Pick
  <2>2. SumOver(F, t) = F[x] + SumOver(F, u)
    BY <1>1, <2>1, SumRemove
  <2>3. (S \ u) \ {x} = S \ t /\ x \in S \ u /\ S \ u \in SUBSET S
    BY <2>1
  <2>4. SumOver(F, S \ u) = F[x] + SumOver(F, S \ t)
    <3> HIDE DEF x, u
    <3>1. SumOver(F, S \ u) = F[x] + SumOver(F, (S \ u) \ {x})
      BY <1>1, <2>3, SumRemove
    <3>2. QED BY <2>3, <3>1
  <2>5. SumOver(F, S) = SumOver(F, u) + SumOver(F, S \ u)
    BY <1>3
  <2>6. SumOver(F, u) \in Nat /\ SumOver(F, S \ t) \in Nat /\ F[x] \in Nat
    BY <1>1, <2>1
  <2> HIDE DEF x, u
  <2>7. SumOver(F, S) = SumOver(F, t) + SumOver(F, S \ t)
    BY <2>2, <2>4, <2>5, <2>6
  <2>8. QED BY <2>7
<1>4. P = SUBSET S
  <2>1. P \in SUBSET (SUBSET S)
    OBVIOUS
  <2> HIDE DEF P
  <2>2. QED BY <1>2, <1>3, <2>1, FoldInduction
<1>5. T \in P
  BY <1>4
<1>6. QED BY <1>1, <1>5

\* A sum over other names of the elements.
LEMMA SumImage ==
  ASSUME NEW D, IsFiniteSet(D), NEW s, \A i, k \in D : s[i] = s[k] => i = k,
         NEW F, NEW H, \A i \in D : H[i] \in Nat /\ H[i] = F[s[i]]
  PROVE  /\ IsFiniteSet({s[i] : i \in D})
         /\ SumOver(H, D) = SumOver(F, {s[i] : i \in D})
<1> DEFINE Im(d) == {s[i] : i \in d}
           P == {d \in SUBSET D : IsFiniteSet(Im(d)) /\ SumOver(H, d) = SumOver(F, Im(d))}
<1>1. {} \in P
  <2>1. Im({}) = {}
    OBVIOUS
  <2> HIDE DEF Im
  <2>2. QED BY <2>1, SumEmpty, FS_EmptySet
<1>2. ASSUME NEW d \in SUBSET D, d # {}, d \ {Pick(d)} \in P PROVE d \in P
  <2>1. PICK x \in d : x = Pick(d)
    BY <1>2 DEF Pick
  <2>2. Im(d) \ {s[x]} = Im(d \ {x}) /\ s[x] \in Im(d) /\ Im(d) = Im(d \ {x}) \cup {s[x]}
    OBVIOUS
  <2>3. IsFiniteSet(d) /\ IsFiniteSet(Im(d \ {x})) /\ SumOver(H, d \ {x}) = SumOver(F, Im(d \ {x}))
    BY <1>2, <2>1, FS_Subset
  <2>4. \A y \in Im(d) : F[y] \in Nat
    OBVIOUS
  <2> HIDE DEF Im
  <2>5. IsFiniteSet(Im(d))
    <3>1. IsFiniteSet(Im(d \ {x}) \cup {s[x]})
      BY <2>3, FS_AddElement
    <3>2. QED BY <2>2, <3>1
  <2>6. SumOver(F, Im(d)) = F[s[x]] + SumOver(F, Im(d \ {x}))
    <3>1. SumOver(F, Im(d)) = F[s[x]] + SumOver(F, Im(d) \ {s[x]})
      BY <2>2, <2>4, <2>5, SumRemove
    <3>2. QED BY <2>2, <3>1
  <2>7. SumOver(H, d) = H[x] + SumOver(H, d \ {x})
    <3>1. \A i \in d : H[i] \in Nat
      OBVIOUS
    <3>2. QED BY <2>3, <3>1, SumRemove
  <2>8. QED BY <2>3, <2>5, <2>6, <2>7
<1>3. P = SUBSET D
  <2>1. P \in SUBSET (SUBSET D)
    OBVIOUS
  <2> HIDE DEF P
  <2>2. QED BY <1>1, <1>2, <2>1, FoldInduction
<1>4. D \in P
  BY <1>3
<1>5. QED BY <1>4

\* A sum over the parts O[g], which do not meet.
PartsFrom(O, S) == UNION {O[g] : g \in S}

PartsApart(O, S) == \A g, h \in S : g # h => O[g] \cap O[h] = {}

LEMMA SumUnions ==
  ASSUME NEW S, IsFiniteSet(S), NEW O, \A g \in S : IsFiniteSet(O[g]),
         PartsApart(O, S), NEW F, \A g \in S : \A x \in O[g] : F[x] \in Nat,
         NEW H, \A g \in S : H[g] = SumOver(F, O[g])
  PROVE  IsFiniteSet(PartsFrom(O, S)) /\ SumOver(F, PartsFrom(O, S)) = SumOver(H, S)
<1> DEFINE U(d) == UNION {O[g] : g \in d}
           P == {d \in SUBSET S : IsFiniteSet(U(d)) /\ SumOver(F, U(d)) = SumOver(H, d)}
<1>0. \A g \in S : H[g] \in Nat
  BY SumType
<1>1. {} \in P
  <2>1. U({}) = {}
    OBVIOUS
  <2> HIDE DEF U
  <2>2. QED BY <2>1, SumEmpty, FS_EmptySet
<1>2. ASSUME NEW d \in SUBSET S, d # {}, d \ {Pick(d)} \in P PROVE d \in P
  <2>1. PICK x \in d : x = Pick(d)
    BY <1>2 DEF Pick
  <2> DEFINE e == d \ {x}
  <2>2. U(d) = U(e) \cup O[x] /\ U(d) \ O[x] = U(e) /\ O[x] \in SUBSET U(d)
    <3>1. \A g \in e : O[g] \cap O[x] = {}
      BY DEF PartsApart
    <3>2. U(d) = U(e) \cup O[x]
      OBVIOUS
    <3>3. U(e) \cap O[x] = {}
      BY <3>1
    <3> HIDE DEF U, e
    <3>4. QED BY <3>2, <3>3
  <2>3. IsFiniteSet(d) /\ IsFiniteSet(U(e)) /\ SumOver(F, U(e)) = SumOver(H, e)
    BY <1>2, <2>1, FS_Subset
  <2>4. \A y \in U(d) : F[y] \in Nat
    OBVIOUS
  <2> HIDE DEF U
  <2>5. IsFiniteSet(U(d))
    <3>1. IsFiniteSet(O[x])
      OBVIOUS
    <3> HIDE DEF e
    <3>2. IsFiniteSet(U(e) \cup O[x])
      BY <2>3, <3>1, FS_Union
    <3>3. QED BY <2>2, <3>2
  <2>6. SumOver(F, U(d)) = SumOver(F, O[x]) + SumOver(F, U(e))
    <3> HIDE DEF e
    <3>1. O[x] \in SUBSET U(d)
      BY <2>2
    <3>2. SumOver(F, U(d)) = SumOver(F, O[x]) + SumOver(F, U(d) \ O[x])
      BY <2>4, <2>5, <3>1, SumSplit
    <3>3. QED BY <2>2, <3>2
  <2>7. SumOver(H, d) = H[x] + SumOver(H, e)
    <3>1. \A g \in d : H[g] \in Nat
      BY <1>0
    <3>2. QED BY <2>3, <3>1, SumRemove
  <2> HIDE DEF e
  <2>8. QED BY <2>3, <2>5, <2>6, <2>7
<1>3. P = SUBSET S
  <2>1. P \in SUBSET (SUBSET S)
    OBVIOUS
  <2> HIDE DEF P
  <2>2. QED BY <1>1, <1>2, <2>1, FoldInduction
<1>4. S \in P
  BY <1>3
<1>5. QED BY <1>4 DEF PartsFrom

\* A sum of multiples, and of differences.
LEMMA SumScale ==
  ASSUME NEW S, IsFiniteSet(S), NEW c \in Nat, NEW F, NEW G,
         \A x \in S : F[x] \in Nat /\ G[x] = c * F[x]
  PROVE  SumOver(G, S) = c * SumOver(F, S)
<1>1. \A d \in SUBSET S : IsFiniteSet(d) /\ SumOver(F, d) \in Nat
  BY FS_Subset, SumType
<1>2. \A x \in S : G[x] \in Nat
  OBVIOUS
<1> DEFINE P == {d \in SUBSET S : SumOver(G, d) = c * SumOver(F, d)}
<1>3. {} \in P
  BY SumEmpty
<1>4. ASSUME NEW d \in SUBSET S, d # {}, d \ {Pick(d)} \in P PROVE d \in P
  <2>1. PICK x \in d : x = Pick(d)
    BY <1>4 DEF Pick
  <2>2. SumOver(G, d) = G[x] + SumOver(G, d \ {x}) /\ SumOver(F, d) = F[x] + SumOver(F, d \ {x})
    BY <1>1, <1>2, SumRemove
  <2>3. SumOver(G, d \ {x}) = c * SumOver(F, d \ {x}) /\ G[x] = c * F[x]
    BY <1>4, <2>1
  <2>4. F[x] \in Nat /\ SumOver(F, d \ {x}) \in Nat
    BY <1>1
  <2>5. \A a, b \in Nat : c * (a + b) = c * a + c * b
    OBVIOUS
  <2>6. QED BY <2>2, <2>3, <2>4, <2>5
<1>5. P = SUBSET S
  <2>1. P \in SUBSET (SUBSET S)
    OBVIOUS
  <2> HIDE DEF P
  <2>2. QED BY <1>3, <1>4, <2>1, FoldInduction
<1>6. S \in P
  BY <1>5
<1>7. QED BY <1>6

LEMMA SumDiff ==
  ASSUME NEW S, IsFiniteSet(S), NEW F, NEW G, NEW H,
         \A x \in S : G[x] \in Nat /\ H[x] \in Nat /\ F[x] = G[x] - H[x]
  PROVE  SumOver(F, S) = SumOver(G, S) - SumOver(H, S)
<1>1. PICK f : IsSum(F, SUBSET S, f) /\ f[S] = SumOver(F, S)
  BY SumFold
<1>2. PICK g : IsSum(G, SUBSET S, g) /\ g[S] = SumOver(G, S)
  BY SumFold
<1>3. PICK h : IsSum(H, SUBSET S, h) /\ h[S] = SumOver(H, S)
  BY SumFold
<1> DEFINE P == {s \in SUBSET S : g[s] \in Nat /\ h[s] \in Nat /\ f[s] = g[s] - h[s]}
<1>4. {} \in P
  BY <1>1, <1>2, <1>3 DEF IsSum
<1>5. ASSUME NEW s \in SUBSET S, s # {}, s \ {Pick(s)} \in P PROVE s \in P
  <2> DEFINE x == Pick(s)
             r == s \ {Pick(s)}
  <2>0. x \in S /\ r \in SUBSET S
    BY <1>5 DEF Pick
  <2>1. f[s] = F[x] + f[r] /\ g[s] = G[x] + g[r] /\ h[s] = H[x] + h[r]
    BY <1>1, <1>2, <1>3, <1>5 DEF IsSum
  <2>2. g[r] \in Nat /\ h[r] \in Nat /\ f[r] = g[r] - h[r]
    BY <1>5
  <2> HIDE DEF x, r
  <2>3. G[x] \in Nat /\ H[x] \in Nat /\ F[x] = G[x] - H[x]
    BY <2>0
  <2>4. QED
    BY <2>1, <2>2, <2>3
<1>6. P = SUBSET S
  <2>1. P \in SUBSET (SUBSET S)
    OBVIOUS
  <2> HIDE DEF P
  <2>2. QED
    BY <1>4, <1>5, <2>1, FoldInduction
<1>7. S \in P
  BY <1>6
<1>8. QED
  BY <1>1, <1>2, <1>3, <1>7
=============================================================================
