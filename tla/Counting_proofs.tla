----------------------------- MODULE Counting_proofs ----------------------------
(***************************************************************************)
(* Lemmas about counting that the proofs of the components share: how      *)
(* often a value occurs in a sequence, and sums over finite sets.          *)
(***************************************************************************)
EXTENDS Integers, Sequences, FiniteSets, FiniteSetsExt, FiniteSetTheorems,
        WellFoundedInduction, TLAPS

\* How often x occurs in s.
Places(s, x) == {i \in 1..Len(s) : s[i] = x}
Count(s, x) == Cardinality(Places(s, x))

LEMMA CountNat ==
  ASSUME NEW S, NEW s \in Seq(S), NEW x
  PROVE  /\ IsFiniteSet(Places(s, x))
         /\ Count(s, x) \in Nat
         /\ Count(s, x) = 0 <=> \A i \in 1..Len(s) : s[i] # x
<1>1. IsFiniteSet(1..Len(s))
  BY FS_Interval
<1>2. IsFiniteSet(Places(s, x))
  BY <1>1, FS_Subset DEF Places
<1>3. Places(s, x) = {} <=> \A i \in 1..Len(s) : s[i] # x
  BY DEF Places
<1> QED BY <1>2, <1>3, FS_CardinalityType, FS_EmptySet DEF Count

LEMMA CountEmpty == \A x : Count(<<>>, x) = 0
<1> SUFFICES ASSUME NEW x PROVE Count(<<>>, x) = 0
  OBVIOUS
<1>1. Places(<<>>, x) = {}
  BY DEF Places
<1> QED BY <1>1, FS_EmptySet DEF Count

LEMMA CountAppend ==
  ASSUME NEW S, NEW s \in Seq(S), NEW y \in S, NEW x
  PROVE  Count(Append(s, y), x) = IF y = x THEN Count(s, x) + 1 ELSE Count(s, x)
<1>1. IsFiniteSet(Places(s, x)) /\ Len(s) + 1 \notin Places(s, x)
  <2>1. IsFiniteSet(Places(s, x))
    BY CountNat
  <2>2. Len(s) + 1 \notin Places(s, x)
    BY DEF Places
  <2> QED BY <2>1, <2>2
<1>2. CASE y = x
  <2>1. Places(Append(s, y), x) = Places(s, x) \cup {Len(s) + 1}
    BY <1>2 DEF Places
  <2> QED BY <1>1, <1>2, <2>1, FS_AddElement DEF Count
<1>3. CASE y # x
  <2>1. Places(Append(s, y), x) = Places(s, x)
    BY <1>3 DEF Places
  <2> QED BY <1>3, <2>1 DEF Count
<1> QED BY <1>2, <1>3

LEMMA CountTail ==
  ASSUME NEW S, NEW s \in Seq(S), s # <<>>, NEW x
  PROVE  Count(Tail(s), x) = IF Head(s) = x THEN Count(s, x) - 1 ELSE Count(s, x)
<1> DEFINE rest == Places(s, x) \ {1}
           f == [i \in rest |-> i - 1]
<1>1. IsFiniteSet(Places(s, x)) /\ Count(s, x) \in Nat
  BY CountNat
<1>2. Tail(s) \in Seq(S) /\ Len(Tail(s)) = Len(s) - 1 /\ Len(s) \in Nat \ {0}
      /\ \A i \in 1..Len(s) - 1 : Tail(s)[i] = s[i + 1]
  OBVIOUS
<1>3. f \in Bijection(rest, Places(Tail(s), x))
  <2>1. \A i \in rest : i \in 2..Len(s) /\ s[i] = x
    BY <1>2 DEF Places
  <2>2. \A i \in rest : f[i] \in Places(Tail(s), x)
    BY <1>2, <2>1 DEF Places
  <2>3. f \in [rest -> Places(Tail(s), x)]
    BY <2>2
  <2>4. \A i, j \in rest : f[i] = f[j] => i = j
    BY <2>1
  <2>5. \A j \in Places(Tail(s), x) : j + 1 \in rest /\ f[j + 1] = j
    BY <1>2 DEF Places
  <2> HIDE DEF f, rest
  <2> QED BY <2>3, <2>4, <2>5 DEF Bijection, Injection, Surjection, IsInjective
<1>4. IsFiniteSet(rest) /\ Cardinality(rest) = IF 1 \in Places(s, x) THEN Count(s, x) - 1
                                                                ELSE Count(s, x)
  BY <1>1, FS_RemoveElement DEF Count
<1>5. Cardinality(Places(Tail(s), x)) = Cardinality(rest)
  <2> HIDE DEF f, rest
  <2>1. ExistsBijection(rest, Places(Tail(s), x))
    BY <1>3 DEF ExistsBijection
  <2> QED BY <1>4, <2>1, FS_Bijection
<1>6. 1 \in Places(s, x) <=> Head(s) = x
  BY <1>2 DEF Places
<1> QED BY <1>4, <1>5, <1>6 DEF Count

--------------------------------------------------------------------------------
\* Induction over the subsets of a finite set.
LEMMA SubsetInduction ==
  ASSUME NEW S, IsFiniteSet(S), NEW Good,
         \A s \in SUBSET S : (\A t \in SUBSET s : t # s => t \in Good) => s \in Good
  PROVE  \A s \in SUBSET S : s \in Good
<1> DEFINE Bad == (SUBSET S) \ Good
<1>1. SUFFICES ASSUME Bad # {} PROVE FALSE
  OBVIOUS
<1>2. FiniteSubsetsOf(S) = SUBSET S
  BY FS_FiniteSubsetsOfFinite
<1>3. IsWellFoundedOn(StrictSubsetOrdering(S), SUBSET S)
  BY <1>2, FS_StrictSubsetOrderingWellFounded
<1>4. PICK s \in Bad : \A t \in Bad : ~(<<t, s>> \in StrictSubsetOrdering(S))
  <2>1. Bad \subseteq SUBSET S
    OBVIOUS
  <2> HIDE DEF Bad
  <2> QED BY <1>1, <1>3, <2>1, WFMin
<1>5. \A t \in SUBSET s : t # s => t \in Good
  BY <1>4 DEF StrictSubsetOrdering
<1> QED BY <1>4, <1>5

--------------------------------------------------------------------------------
\* The sum of f over S, as the modules form it.
Sum(f, S) == MapThenSumSet(LAMBDA i : f[i], S)

\* What the recursive function inside of the fold is.
First(s) == CHOOSE x \in s : TRUE
Rest(s) == s \ {First(s)}
IsFold(f, S, g) == g = [s \in SUBSET S |-> IF s = {} THEN 0 ELSE f[First(s)] + g[Rest(s)]]
Fold(f, S) == CHOOSE g : IsFold(f, S, g)

LEMMA SumIsFold == \A f, S : Sum(f, S) = Fold(f, S)[S]
BY Zenon DEF Sum, MapThenSumSet, MapThenFoldSet, IsFold, Fold, First, Rest

LEMMA FirstIn == \A s : s # {} => First(s) \in s /\ Rest(s) \in SUBSET s /\ Rest(s) # s
BY DEF First, Rest

LEMMA FoldsAgree ==
  ASSUME NEW S, IsFiniteSet(S), NEW T \in SUBSET S, NEW f, NEW g, NEW h,
         IsFold(f, S, g), IsFold(f, T, h)
  PROVE  \A s \in SUBSET T : g[s] = h[s]
<1> DEFINE Good == {s \in SUBSET T : g[s] = h[s]}
<1>1. ASSUME NEW s \in SUBSET T, \A t \in SUBSET s : t # s => t \in Good
      PROVE  s \in Good
  <2>1. CASE s = {}
    <3>1. g[s] = 0 /\ h[s] = 0
      BY <2>1 DEF IsFold
    <3> QED BY <3>1
  <2>2. CASE s # {}
    <3>1. g[Rest(s)] = h[Rest(s)]
      BY <1>1, <2>2, FirstIn
    <3>2. g[s] = f[First(s)] + g[Rest(s)]
      BY <2>2 DEF IsFold
    <3>3. h[s] = f[First(s)] + h[Rest(s)]
      BY <2>2 DEF IsFold
    <3> QED BY <3>1, <3>2, <3>3
  <2> QED BY <2>1, <2>2
<1>2. IsFiniteSet(T)
  BY FS_Subset
<1>3. \A s \in SUBSET T : s \in Good
  <2> HIDE DEF Good
  <2> QED BY <1>1, <1>2, SubsetInduction
<1> QED BY <1>3

LEMMA FoldExists ==
  ASSUME NEW S, IsFiniteSet(S), NEW f
  PROVE  IsFold(f, S, Fold(f, S))
<1> DEFINE Good == {s \in SUBSET S : \E g : IsFold(f, s, g)}
<1>1. ASSUME NEW s \in SUBSET S, \A t \in SUBSET s : t # s => t \in Good
      PROVE  s \in Good
  <2> DEFINE Part(t) == Fold(f, t)[t]
             Value(t) == IF t = {} THEN 0 ELSE f[First(t)] + Part(Rest(t))
             g == [t \in SUBSET s |-> Value(t)]
  <2>1. ASSUME NEW t \in SUBSET s, t # s PROVE IsFold(f, t, Fold(f, t))
    BY <1>1, <2>1 DEF Fold
  <2>2. ASSUME NEW t \in SUBSET s, t # s PROVE Part(t) = Value(t)
    <3>1. CASE t = {}
      BY <2>1, <2>2, <3>1 DEF IsFold
    <3>2. CASE t # {}
      <4>1. Fold(f, t)[t] = f[First(t)] + Fold(f, t)[Rest(t)]
        BY <2>1, <2>2, <3>2 DEF IsFold
      <4>2. Rest(t) \in SUBSET t /\ Rest(t) \in SUBSET s /\ Rest(t) # s /\ IsFiniteSet(t)
        BY <2>2, <3>2, FirstIn, FS_Subset
      <4>3. IsFold(f, Rest(t), Fold(f, Rest(t)))
        BY <2>1, <4>2
      <4>4. \A r \in SUBSET Rest(t) : Fold(f, t)[r] = Fold(f, Rest(t))[r]
        BY <2>1, <2>2, <4>2, <4>3, FoldsAgree
      <4>5. Fold(f, t)[Rest(t)] = Part(Rest(t))
        BY <4>4
      <4> QED BY <3>2, <4>1, <4>5
    <3> QED BY <3>1, <3>2
  <2>3. \A t \in SUBSET s : t # {} => g[Rest(t)] = Part(Rest(t))
    <3> SUFFICES ASSUME NEW t \in SUBSET s, t # {} PROVE g[Rest(t)] = Part(Rest(t))
      OBVIOUS
    <3>1. Rest(t) \in SUBSET s /\ Rest(t) # s
      BY FirstIn
    <3>2. Part(Rest(t)) = Value(Rest(t))
      BY <2>2, <3>1
    <3> HIDE DEF Part, Value
    <3> QED BY <3>1, <3>2
  <2>4. IsFold(f, s, g)
    <3> DEFINE h == [t \in SUBSET s |-> IF t = {} THEN 0 ELSE f[First(t)] + g[Rest(t)]]
    <3>1. \A t \in SUBSET s : h[t] = g[t]
      <4> HIDE DEF Part
      <4>1. \A t \in SUBSET s : t # {} => h[t] = f[First(t)] + g[Rest(t)] /\ g[t] = f[First(t)] + Part(Rest(t))
        BY DEF Value
      <4>2. \A t \in SUBSET s : t = {} => h[t] = 0 /\ g[t] = 0
        BY DEF Value
      <4> HIDE DEF g, h, Value
      <4> QED BY <2>3, <4>1, <4>2
    <3>2. h = g
      <4> HIDE DEF Value
      <4> QED BY <3>1
    <3> HIDE DEF Value
    <3> QED BY <3>2 DEF IsFold
  <2> HIDE DEF g
  <2> QED BY <2>4
<1>2. \A s \in SUBSET S : s \in Good
  <2> HIDE DEF Good
  <2> QED BY <1>1, SubsetInduction
<1>3. \E g : IsFold(f, S, g)
  BY <1>2
<1> QED BY <1>3 DEF Fold

LEMMA SumEmpty == \A f : Sum(f, {}) = 0
<1> SUFFICES ASSUME NEW f PROVE Sum(f, {}) = 0
  OBVIOUS
<1>1. IsFold(f, {}, Fold(f, {}))
  BY FoldExists, FS_EmptySet
<1>2. Fold(f, {})[{}] = 0
  BY <1>1 DEF IsFold
<1> QED BY <1>2, SumIsFold

LEMMA SumUnfold ==
  ASSUME NEW S, IsFiniteSet(S), S # {}, NEW f
  PROVE  Sum(f, S) = f[First(S)] + Sum(f, Rest(S))
<1>1. Rest(S) \in SUBSET S
  BY FirstIn
<1>2. IsFiniteSet(Rest(S))
  BY <1>1, FS_Subset
<1>3. IsFold(f, S, Fold(f, S)) /\ IsFold(f, Rest(S), Fold(f, Rest(S)))
  BY <1>2, FoldExists
<1>4. Fold(f, S)[S] = f[First(S)] + Fold(f, S)[Rest(S)]
  BY <1>3 DEF IsFold
<1>5. \A s \in SUBSET Rest(S) : Fold(f, S)[s] = Fold(f, Rest(S))[s]
  BY <1>1, <1>3, FoldsAgree
<1>6. Fold(f, S)[Rest(S)] = Fold(f, Rest(S))[Rest(S)]
  BY <1>5
<1> QED BY <1>4, <1>6, SumIsFold

LEMMA SumInt ==
  ASSUME NEW T, IsFiniteSet(T), NEW f \in [T -> Int]
  PROVE  \A S \in SUBSET T : Sum(f, S) \in Int
<1> DEFINE Good == {s \in SUBSET T : Sum(f, s) \in Int}
<1>1. ASSUME NEW s \in SUBSET T, \A t \in SUBSET s : t # s => t \in Good
      PROVE  s \in Good
  <2>1. CASE s = {}
    BY <2>1, SumEmpty
  <2>2. CASE s # {}
    <3>1. First(s) \in T /\ Sum(f, Rest(s)) \in Int
      BY <1>1, <2>2, FirstIn
    <3>2. IsFiniteSet(s)
      BY FS_Subset
    <3>3. Sum(f, s) = f[First(s)] + Sum(f, Rest(s))
      BY <2>2, <3>2, SumUnfold
    <3> QED BY <3>1, <3>3
  <2> QED BY <2>1, <2>2
<1>2. \A s \in SUBSET T : s \in Good
  <2> HIDE DEF Good
  <2> QED BY <1>1, SubsetInduction
<1> QED BY <1>2

\* Any element can be split off.
LEMMA SumSplit ==
  ASSUME NEW T, IsFiniteSet(T), NEW f \in [T -> Int]
  PROVE  \A S \in SUBSET T : \A x \in S : Sum(f, S) = f[x] + Sum(f, S \ {x})
<1> DEFINE Good == {s \in SUBSET T : \A x \in s : Sum(f, s) = f[x] + Sum(f, s \ {x})}
<1>1. ASSUME NEW s \in SUBSET T, \A t \in SUBSET s : t # s => t \in Good
      PROVE  s \in Good
  <2> SUFFICES ASSUME NEW x \in s PROVE Sum(f, s) = f[x] + Sum(f, s \ {x})
    OBVIOUS
  <2> DEFINE y == First(s)
  <2>1. y \in s /\ Rest(s) = s \ {y} /\ IsFiniteSet(s)
    BY FirstIn, FS_Subset DEF Rest
  <2>2. Sum(f, s) = f[y] + Sum(f, s \ {y})
    BY <2>1, SumUnfold
  <2>3. CASE x = y
    BY <2>2, <2>3
  <2>4. CASE x # y
    <3> HIDE DEF y
    <3>1. s \ {y} \in Good /\ s \ {x} \in Good
      BY <1>1, <2>1
    <3>2. x \in s \ {y} /\ y \in s \ {x} /\ (s \ {y}) \ {x} = (s \ {x}) \ {y}
      BY <2>1, <2>4
    <3>3. Sum(f, s \ {y}) = f[x] + Sum(f, (s \ {y}) \ {x})
      BY <3>1, <3>2
    <3>4. Sum(f, s \ {x}) = f[y] + Sum(f, (s \ {y}) \ {x})
      BY <3>1, <3>2
    <3>5. Sum(f, (s \ {y}) \ {x}) \in Int /\ f[x] \in Int /\ f[y] \in Int
      BY <2>1, SumInt
    <3> QED BY <2>2, <3>3, <3>4, <3>5
  <2> QED BY <2>3, <2>4
<1>2. \A s \in SUBSET T : s \in Good
  <2> HIDE DEF Good
  <2> QED BY <1>1, SubsetInduction
<1> QED BY <1>2

\* Two sums over the same set differ by the sum of the differences.
LEMMA SumDifference ==
  ASSUME NEW T, IsFiniteSet(T), NEW f \in [T -> Int], NEW g \in [T -> Int], NEW d \in [T -> Int],
         NEW S \in SUBSET T, \A i \in S : d[i] = f[i] - g[i]
  PROVE  Sum(d, S) = Sum(f, S) - Sum(g, S)
<1> DEFINE Good == {s \in SUBSET S : Sum(d, s) = Sum(f, s) - Sum(g, s)}
<1>1. ASSUME NEW s \in SUBSET S, \A t \in SUBSET s : t # s => t \in Good
      PROVE  s \in Good
  <2>1. CASE s = {}
    <3>1. Sum(d, s) = 0 /\ Sum(f, s) = 0 /\ Sum(g, s) = 0
      BY <2>1, SumEmpty
    <3> QED BY <3>1
  <2>2. CASE s # {}
    <3> DEFINE x == First(s)
               r == Rest(s)
    <3>1. x \in s /\ x \in T /\ x \in S /\ r \in SUBSET s /\ r # s /\ r \in SUBSET T /\ IsFiniteSet(s)
      BY <2>2, FirstIn, FS_Subset
    <3>2. Sum(d, s) = d[x] + Sum(d, r) /\ Sum(f, s) = f[x] + Sum(f, r) /\ Sum(g, s) = g[x] + Sum(g, r)
      BY <2>2, <3>1, SumUnfold
    <3>3. Sum(d, r) = Sum(f, r) - Sum(g, r)
      BY <1>1, <3>1
    <3>4. Sum(d, r) \in Int /\ Sum(f, r) \in Int /\ Sum(g, r) \in Int
      BY <3>1, SumInt
    <3>5. d[x] = f[x] - g[x] /\ d[x] \in Int /\ f[x] \in Int /\ g[x] \in Int
      BY <3>1
    <3> HIDE DEF x, r
    <3> QED BY <3>2, <3>3, <3>4, <3>5
  <2> QED BY <2>1, <2>2
<1>2. IsFiniteSet(S)
  BY FS_Subset
<1>3. \A s \in SUBSET S : s \in Good
  <2> HIDE DEF Good
  <2> QED BY <1>1, <1>2, SubsetInduction
<1> QED BY <1>3

\* Functions that agree on a set have the same sum over it.
LEMMA SumEqual ==
  ASSUME NEW T, IsFiniteSet(T), NEW f \in [T -> Int], NEW g \in [T -> Int],
         NEW S \in SUBSET T, \A i \in S : f[i] = g[i]
  PROVE  Sum(f, S) = Sum(g, S)
<1> DEFINE none == [i \in T |-> 0]
<1>1. none \in [T -> Int] /\ (\A i \in S : none[i] = g[i] - f[i]) /\ (\A i \in S : none[i] = f[i] - f[i])
  OBVIOUS
<1> HIDE DEF none
<1>2. Sum(none, S) = Sum(g, S) - Sum(f, S)
  BY <1>1, SumDifference
<1>3. Sum(none, S) = Sum(f, S) - Sum(f, S)
  BY <1>1, SumDifference
<1>4. Sum(f, S) \in Int /\ Sum(g, S) \in Int
  BY SumInt
<1> QED BY <1>2, <1>3, <1>4

\* A change of one value changes the sum by as much.
LEMMA SumChange ==
  ASSUME NEW T, IsFiniteSet(T), NEW f \in [T -> Int], NEW g \in [T -> Int],
         NEW x \in T, \A i \in T \ {x} : g[i] = f[i]
  PROVE  Sum(g, T) = Sum(f, T) + g[x] - f[x]
<1>1. Sum(g, T) = g[x] + Sum(g, T \ {x}) /\ Sum(f, T) = f[x] + Sum(f, T \ {x})
  BY SumSplit
<1>2. Sum(g, T \ {x}) = Sum(f, T \ {x})
  <2> DEFINE R == T \ {x}
  <2>1. R \in SUBSET T /\ \A i \in R : g[i] = f[i]
    OBVIOUS
  <2> HIDE DEF R
  <2>2. Sum(g, R) = Sum(f, R)
    BY <2>1, SumEqual
  <2> QED BY <2>2 DEF R
<1>3. Sum(f, T \ {x}) \in Int /\ f[x] \in Int /\ g[x] \in Int
  BY SumInt
<1> QED BY <1>1, <1>2, <1>3

LEMMA SumNat ==
  ASSUME NEW T, IsFiniteSet(T), NEW f \in [T -> Nat]
  PROVE  /\ \A S \in SUBSET T : Sum(f, S) \in Nat
         /\ Sum(f, T) = 0 <=> \A i \in T : f[i] = 0
         /\ \A i \in T : f[i] <= Sum(f, T)
<1>0. f \in [T -> Int]
  OBVIOUS
<1> DEFINE Good == {s \in SUBSET T : Sum(f, s) \in Nat}
<1>1. ASSUME NEW s \in SUBSET T, \A t \in SUBSET s : t # s => t \in Good
      PROVE  s \in Good
  <2>1. CASE s = {}
    BY <2>1, SumEmpty
  <2>2. CASE s # {}
    <3>1. First(s) \in T /\ Sum(f, Rest(s)) \in Nat
      BY <1>1, <2>2, FirstIn
    <3>2. IsFiniteSet(s)
      BY FS_Subset
    <3>3. Sum(f, s) = f[First(s)] + Sum(f, Rest(s))
      BY <2>2, <3>2, SumUnfold
    <3> QED BY <3>1, <3>3
  <2> QED BY <2>1, <2>2
<1>2. \A s \in SUBSET T : s \in Good
  <2> HIDE DEF Good
  <2> QED BY <1>1, SubsetInduction
<1>3. \A i \in T : f[i] <= Sum(f, T) /\ f[i] \in Nat
  <2> SUFFICES ASSUME NEW i \in T PROVE f[i] <= Sum(f, T)
    OBVIOUS
  <2>1. Sum(f, T) = f[i] + Sum(f, T \ {i})
    BY <1>0, SumSplit
  <2>2. Sum(f, T \ {i}) \in Nat /\ f[i] \in Nat
    BY <1>2
  <2> QED BY <2>1, <2>2
<1>4. ASSUME \A i \in T : f[i] = 0 PROVE Sum(f, T) = 0
  <2>1. CASE T = {}
    BY <2>1, SumEmpty
  <2>2. CASE T # {}
    <3>1. \A i \in T : f[i] = f[i] - f[i]
      BY <1>4
    <3>2. Sum(f, T) = Sum(f, T) - Sum(f, T)
      BY <1>0, <3>1, SumDifference
    <3>3. Sum(f, T) \in Nat
      BY <1>2
    <3> QED BY <3>2, <3>3
  <2> QED BY <2>1, <2>2
<1>5. Sum(f, T) \in Nat
  BY <1>2
<1> QED BY <1>2, <1>3, <1>4, <1>5
================================================================================
