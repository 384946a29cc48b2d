----------------------------- MODULE SharedLemmas -----------------------------
(***************************************************************************)
(* What the proofs of several components need: sums over finite sets, the  *)
(* effect of one movement on a row of stock, and of a batch of movements.  *)
(* The sums are SumFunctionOnSet of the community module Functions; facts  *)
(* about them are proved by taking a smallest subset that has no such      *)
(* property, which the well-founded order of the finite subsets provides.  *)
(***************************************************************************)
EXTENDS StockPosting, Functions, FiniteSetTheorems, SequenceTheorems,
        WellFoundedInduction, TLAPS

-----------------------------------------------------------------------------
(* Sums over finite sets.                                                  *)

\* A non-empty set of naturals has a least element.
LEMMA LeastNatural ==
    ASSUME NEW T, T \subseteq Nat, T # {}
    PROVE  \E x \in T : \A y \in T : x <= y
<1> DEFINE Less == {ss \in Nat \X Nat : ss[1] < ss[2]}
<1>1. IsWellFoundedOn(Less, Nat)
  BY NatLessThanWellFounded DEF OpToRel
<1>2. \A a, b \in Nat : a < b => <<a, b>> \in Less
  OBVIOUS
<1> HIDE DEF Less
<1>3. PICK x \in T : \A y \in T : ~(<<y, x>> \in Less)
  BY <1>1, WFMin
<1>4. \A y \in T : ~(y < x)
  BY <1>2, <1>3
<1>5. x \in Nat /\ \A y \in T : y \in Nat
  OBVIOUS
<1> QED
  BY <1>4, <1>5

\* A non-empty set of numbers up to a bound has a greatest element.
LEMMA GreatestUpTo ==
    ASSUME NEW bound \in Nat, NEW T, T \subseteq 0..bound, T # {}
    PROVE  \E x \in T : \A y \in T : y <= x
<1> DEFINE D == {bound - x : x \in T}
<1>1. D \subseteq Nat /\ D # {}
  <2>1. \A x \in T : bound - x \in Nat
    OBVIOUS
  <2> QED
    BY <2>1
<1>2. PICK d \in D : \A e \in D : d <= e
  BY <1>1, LeastNatural
<1>3. PICK x \in T : d = bound - x
  OBVIOUS
<1>4. \A y \in T : bound - x <= bound - y
  BY <1>2, <1>3
<1> QED
  BY <1>4

\* The element that the recursion takes first.
Pick(s) == CHOOSE x \in s : TRUE

\* g is the recursive function of a sum of f's values over subsets of S.
Sums(g, f, S) ==
    g = [s \in SUBSET S |-> IF s = {} THEN 0 ELSE f[Pick(s)] + g[s \ {Pick(s)}]]

\* The sum is the value of that recursive function at the whole set.
LEMMA SumUnfolds ==
    ASSUME NEW f, NEW S
    PROVE  SumFunctionOnSet(f, S) = (CHOOSE g : Sums(g, f, S))[S]
BY DEF SumFunctionOnSet, FoldFunctionOnSet, MapThenFoldSet, Sums, Pick

\* What is picked from a set is in it.
LEMMA PickIn == ASSUME NEW s, s # {} PROVE Pick(s) \in s
BY DEF Pick

\* Induction over the subsets of a finite set, for a set of subsets.
LEMMA SubsetInduction ==
    ASSUME NEW S, IsFiniteSet(S), NEW Good \in SUBSET (SUBSET S),
           \A T \in SUBSET S : (\A U \in SUBSET T : U # T => U \in Good) => T \in Good
    PROVE  Good = SUBSET S
<1> DEFINE Bad == (SUBSET S) \ Good
<1>1. \A T \in SUBSET S : IsFiniteSet(T)
  BY FS_Subset
<1>2. SUFFICES ASSUME Bad # {} PROVE FALSE
  OBVIOUS
<1>3. Bad \subseteq FiniteSubsetsOf(S)
  BY <1>1 DEF FiniteSubsetsOf
<1>4. PICK T \in Bad : \A U \in Bad : ~ (<<U, T>> \in StrictSubsetOrdering(S))
  <2>1. IsWellFoundedOn(StrictSubsetOrdering(S), FiniteSubsetsOf(S))
    BY FS_StrictSubsetOrderingWellFounded
  <2> HIDE DEF Bad
  <2> QED
    BY <1>2, <1>3, <2>1, WFMin
<1>5. ASSUME NEW U \in SUBSET T, U # T PROVE U \in Good
  BY <1>4, <1>5 DEF StrictSubsetOrdering
<1> QED
  BY <1>4, <1>5

\* Two such functions agree where both are defined.
LEMMA SumsAgree ==
    ASSUME NEW f, NEW S, IsFiniteSet(S), NEW g, NEW h, NEW U, S \subseteq U,
           Sums(g, f, S), Sums(h, f, U)
    PROVE  \A T \in SUBSET S : g[T] = h[T]
<1> DEFINE Good == {T \in SUBSET S : g[T] = h[T]}
<1>1. ASSUME NEW T \in SUBSET S, \A V \in SUBSET T : V # T => V \in Good
      PROVE  T \in Good
  <2>1. CASE T = {}
    BY <2>1 DEF Sums
  <2>2. CASE T # {}
    <3> DEFINE p == Pick(T)
    <3>1. p \in T
      BY <2>2, PickIn
    <3>2. T \ {p} \in Good
      BY <1>1, <3>1
    <3>3. g[T] = f[p] + g[T \ {p}] /\ h[T] = f[p] + h[T \ {p}]
      BY <2>2 DEF Sums
    <3> QED
      BY <3>2, <3>3
  <2> QED
    BY <2>1, <2>2
<1>2. Good = SUBSET S
  <2> HIDE DEF Good
  <2>1. Good \in SUBSET (SUBSET S)
    BY DEF Good
  <2> QED
    BY <1>1, <2>1, SubsetInduction
<1> QED
  BY <1>2

\* The function exists: it is put together from those of smaller sets.
LEMMA SumsExist ==
    ASSUME NEW f, NEW S, IsFiniteSet(S)
    PROVE  \E g : Sums(g, f, S)
<1> DEFINE Good == {T \in SUBSET S : \E g : Sums(g, f, T)}
<1>1. ASSUME NEW T \in SUBSET S, \A V \in SUBSET T : V # T => V \in Good
      PROVE  T \in Good
  <2> DEFINE of(V) == CHOOSE g : Sums(g, f, V)
             before(s) == of(s \ {Pick(s)})[s \ {Pick(s)}]
             g == [s \in SUBSET T |-> IF s = {} THEN 0 ELSE f[Pick(s)] + before(s)]
  <2>1. ASSUME NEW s \in SUBSET T, s # {} PROVE before(s) = g[s \ {Pick(s)}]
    <3> DEFINE V == s \ {Pick(s)}
    <3>1. V \in SUBSET T /\ V # T
      BY <2>1, PickIn
    <3>2. Sums(of(V), f, V)
      BY <1>1, <3>1
    <3>3. CASE V = {}
      <4>1. of(V)[V] = 0
        BY <3>2, <3>3 DEF Sums
      <4> QED
        BY <3>1, <3>3, <4>1
    <3>4. CASE V # {}
      <4> DEFINE W == V \ {Pick(V)}
      <4>1. W \in SUBSET T /\ W # T /\ W \subseteq V
        BY <3>1
      <4>2. Sums(of(W), f, W)
        BY <1>1, <4>1
      <4>3. of(V)[V] = f[Pick(V)] + of(V)[W]
        BY <3>2, <3>4 DEF Sums
      <4>4. IsFiniteSet(W)
        BY <4>1, FS_Subset
      <4>5. of(W)[W] = of(V)[W]
        BY <3>2, <4>1, <4>2, <4>4, SumsAgree
      <4>6. g[V] = f[Pick(V)] + of(W)[W]
        BY <3>1, <3>4
      <4> QED
        BY <4>3, <4>5, <4>6
    <3> QED
      BY <3>3, <3>4
  <2>2. g = [s \in SUBSET T |-> IF s = {} THEN 0 ELSE f[Pick(s)] + g[s \ {Pick(s)}]]
    <3> HIDE DEF of
    <3>1. ASSUME NEW s \in SUBSET T
          PROVE  g[s] = IF s = {} THEN 0 ELSE f[Pick(s)] + g[s \ {Pick(s)}]
      <4>1. g[s] = IF s = {} THEN 0 ELSE f[Pick(s)] + before(s)
        OBVIOUS
      <4> HIDE DEF g, before
      <4> QED
        BY <2>1, <4>1
    <3>2. g = [s \in SUBSET T |-> g[s]]
      OBVIOUS
    <3> HIDE DEF g, before
    <3> QED
      BY <3>1, <3>2
  <2>3. Sums(g, f, T)
    BY <2>2 DEF Sums
  <2> QED
    BY <2>3
<1>2. Good = SUBSET S
  <2> HIDE DEF Good
  <2>1. Good \in SUBSET (SUBSET S)
    BY DEF Good
  <2> QED
    BY <1>1, <2>1, SubsetInduction
<1> QED
  BY <1>2

\* The empty sum.
LEMMA SumOfNone == ASSUME NEW f PROVE SumFunctionOnSet(f, {}) = 0
<1>1. Sums(CHOOSE g : Sums(g, f, {}), f, {})
  BY SumsExist, FS_EmptySet
<1> QED
  BY <1>1, SumUnfolds DEF Sums

\* One step of the recursion.
LEMMA SumStep ==
    ASSUME NEW f, NEW S, IsFiniteSet(S), S # {}
    PROVE  SumFunctionOnSet(f, S) = f[Pick(S)] + SumFunctionOnSet(f, S \ {Pick(S)})
<1> DEFINE V == S \ {Pick(S)}
           g == CHOOSE h : Sums(h, f, S)
           k == CHOOSE h : Sums(h, f, V)
<1>1. IsFiniteSet(V)
  BY FS_RemoveElement
<1>2. Sums(g, f, S) /\ Sums(k, f, V)
  BY <1>1, SumsExist
<1>3. g[S] = f[Pick(S)] + g[V]
  BY <1>2 DEF Sums
<1> HIDE DEF g, k
<1>4. V \subseteq S /\ V \in SUBSET V
  OBVIOUS
<1> HIDE DEF V
<1>5. k[V] = g[V]
  BY <1>1, <1>2, <1>4, SumsAgree
<1> QED
  BY <1>3, <1>5, SumUnfolds DEF g, k, V

\* A sum of integers is an integer.
LEMMA SumType ==
    ASSUME NEW f, NEW S, IsFiniteSet(S), \A x \in S : f[x] \in Int
    PROVE  SumFunctionOnSet(f, S) \in Int
<1> DEFINE Good == {T \in SUBSET S : SumFunctionOnSet(f, T) \in Int}
<1>1. ASSUME NEW T \in SUBSET S, \A V \in SUBSET T : V # T => V \in Good
      PROVE  T \in Good
  <2>1. CASE T = {}
    BY <2>1, SumOfNone
  <2>2. CASE T # {}
    <3>1. Pick(T) \in T /\ IsFiniteSet(T)
      BY <2>2, PickIn, FS_Subset
    <3>2. T \ {Pick(T)} \in Good
      BY <1>1, <3>1
    <3>3. SumFunctionOnSet(f, T) = f[Pick(T)] + SumFunctionOnSet(f, T \ {Pick(T)})
      BY <2>2, <3>1, SumStep
    <3> QED
      BY <3>1, <3>2, <3>3
  <2> QED
    BY <2>1, <2>2
<1>2. Good = SUBSET S
  <2> HIDE DEF Good
  <2>1. Good \in SUBSET (SUBSET S)
    BY DEF Good
  <2> QED
    BY <1>1, <2>1, SubsetInduction
<1> QED
  BY <1>2

\* Any element can be taken out of a sum, not only the one the recursion picks.
THEOREM SumTakeOut ==
    ASSUME NEW f, NEW S, IsFiniteSet(S), \A x \in S : f[x] \in Int
    PROVE  \A x \in S : SumFunctionOnSet(f, S) = f[x] + SumFunctionOnSet(f, S \ {x})
<1> DEFINE Sum(T) == SumFunctionOnSet(f, T)
           Good == {T \in SUBSET S : \A x \in T : Sum(T) = f[x] + Sum(T \ {x})}
<1>1. ASSUME NEW T \in SUBSET S, \A V \in SUBSET T : V # T => V \in Good
      PROVE  T \in Good
  <2> SUFFICES ASSUME NEW x \in T PROVE Sum(T) = f[x] + Sum(T \ {x})
    OBVIOUS
  <2> DEFINE p == Pick(T)
  <2>1. p \in T /\ IsFiniteSet(T)
    BY PickIn, FS_Subset
  <2>2. Sum(T) = f[p] + Sum(T \ {p})
    BY <2>1, SumStep
  <2>3. CASE x = p
    BY <2>2, <2>3
  <2>4. CASE x # p
    <3> DEFINE R == (T \ {p}) \ {x}
    <3>1. T \ {p} \in Good /\ T \ {x} \in Good /\ (T \ {x}) \ {p} = R
      BY <1>1, <2>1
    <3>2. Sum(T \ {p}) = f[x] + Sum(R) /\ Sum(T \ {x}) = f[p] + Sum(R)
      BY <2>1, <2>4, <3>1
    <3>3. IsFiniteSet(R)
      BY <2>1, FS_Subset
    <3>4. Sum(R) \in Int
      BY <3>3, SumType
    <3> QED
      BY <2>1, <2>2, <3>2, <3>4
  <2> QED
    BY <2>3, <2>4
<1>2. Good = SUBSET S
  <2> HIDE DEF Good
  <2>1. Good \in SUBSET (SUBSET S)
    BY DEF Good
  <2> QED
    BY <1>1, <2>1, SubsetInduction
<1> QED
  BY <1>2

\* A sum depends on the values at the elements alone.
THEOREM SumSame ==
    ASSUME NEW f, NEW g, NEW S, IsFiniteSet(S), \A x \in S : f[x] = g[x]
    PROVE  SumFunctionOnSet(f, S) = SumFunctionOnSet(g, S)
<1> DEFINE Good == {T \in SUBSET S : SumFunctionOnSet(f, T) = SumFunctionOnSet(g, T)}
<1>1. ASSUME NEW T \in SUBSET S, \A V \in SUBSET T : V # T => V \in Good
      PROVE  T \in Good
  <2>1. CASE T = {}
    BY <2>1, SumOfNone
  <2>2. CASE T # {}
    <3>1. Pick(T) \in T /\ IsFiniteSet(T)
      BY <2>2, PickIn, FS_Subset
    <3>2. T \ {Pick(T)} \in Good
      BY <1>1, <3>1
    <3>3. /\ SumFunctionOnSet(f, T) = f[Pick(T)] + SumFunctionOnSet(f, T \ {Pick(T)})
          /\ SumFunctionOnSet(g, T) = g[Pick(T)] + SumFunctionOnSet(g, T \ {Pick(T)})
      BY <2>2, <3>1, SumStep
    <3> QED
      BY <3>1, <3>2, <3>3
  <2> QED
    BY <2>1, <2>2
<1>2. Good = SUBSET S
  <2> HIDE DEF Good
  <2>1. Good \in SUBSET (SUBSET S)
    BY DEF Good
  <2> QED
    BY <1>1, <2>1, SubsetInduction
<1> QED
  BY <1>2

\* What changes at one element changes the sum by as much.
THEOREM SumChange ==
    ASSUME NEW f, NEW g, NEW S, IsFiniteSet(S), NEW x \in S,
           \A y \in S : f[y] \in Int /\ g[y] \in Int,
           \A y \in S \ {x} : g[y] = f[y]
    PROVE  SumFunctionOnSet(g, S) = SumFunctionOnSet(f, S) + g[x] - f[x]
<1>1. IsFiniteSet(S \ {x})
  BY FS_RemoveElement
<1>2. SumFunctionOnSet(f, S \ {x}) = SumFunctionOnSet(g, S \ {x})
  BY <1>1, SumSame
<1>3. SumFunctionOnSet(f, S \ {x}) \in Int
  BY <1>1, SumType
<1>4. /\ SumFunctionOnSet(f, S) = f[x] + SumFunctionOnSet(f, S \ {x})
      /\ SumFunctionOnSet(g, S) = g[x] + SumFunctionOnSet(g, S \ {x})
  BY SumTakeOut
<1> QED
  BY <1>2, <1>3, <1>4

\* A sum of naturals is at least each of them.
THEOREM SumBounds ==
    ASSUME NEW f, NEW S, IsFiniteSet(S), \A x \in S : f[x] \in Nat
    PROVE  /\ SumFunctionOnSet(f, S) \in Nat
           /\ \A x \in S : f[x] <= SumFunctionOnSet(f, S)
<1> DEFINE Good == {T \in SUBSET S : SumFunctionOnSet(f, T) \in Nat}
<1>1. ASSUME NEW T \in SUBSET S, \A V \in SUBSET T : V # T => V \in Good
      PROVE  T \in Good
  <2>1. CASE T = {}
    BY <2>1, SumOfNone
  <2>2. CASE T # {}
    <3>1. Pick(T) \in T /\ IsFiniteSet(T)
      BY <2>2, PickIn, FS_Subset
    <3>2. T \ {Pick(T)} \in Good
      BY <1>1, <3>1
    <3>3. SumFunctionOnSet(f, T) = f[Pick(T)] + SumFunctionOnSet(f, T \ {Pick(T)})
      BY <2>2, <3>1, SumStep
    <3> QED
      BY <3>1, <3>2, <3>3
  <2> QED
    BY <2>1, <2>2
<1>2. Good = SUBSET S
  <2> HIDE DEF Good
  <2>1. Good \in SUBSET (SUBSET S)
    BY DEF Good
  <2> QED
    BY <1>1, <2>1, SubsetInduction
<1>3. ASSUME NEW x \in S PROVE f[x] <= SumFunctionOnSet(f, S)
  <2>1. SumFunctionOnSet(f, S) = f[x] + SumFunctionOnSet(f, S \ {x})
    BY SumTakeOut
  <2>2. SumFunctionOnSet(f, S \ {x}) \in Nat
    BY <1>2
  <2> QED
    BY <2>1, <2>2
<1> QED
  BY <1>2, <1>3

\* A sum of zeros.
THEOREM SumOfZeros ==
    ASSUME NEW f, NEW S, IsFiniteSet(S), \A x \in S : f[x] = 0
    PROVE  SumFunctionOnSet(f, S) = 0
<1> DEFINE Good == {T \in SUBSET S : SumFunctionOnSet(f, T) = 0}
<1>1. ASSUME NEW T \in SUBSET S, \A V \in SUBSET T : V # T => V \in Good
      PROVE  T \in Good
  <2>1. CASE T = {}
    BY <2>1, SumOfNone
  <2>2. CASE T # {}
    <3>1. Pick(T) \in T /\ IsFiniteSet(T)
      BY <2>2, PickIn, FS_Subset
    <3>2. T \ {Pick(T)} \in Good
      BY <1>1, <3>1
    <3>3. SumFunctionOnSet(f, T) = f[Pick(T)] + SumFunctionOnSet(f, T \ {Pick(T)})
      BY <2>2, <3>1, SumStep
    <3> QED
      BY <3>1, <3>2, <3>3
  <2> QED
    BY <2>1, <2>2
<1>2. Good = SUBSET S
  <2> HIDE DEF Good
  <2>1. Good \in SUBSET (SUBSET S)
    BY DEF Good
  <2> QED
    BY <1>1, <2>1, SubsetInduction
<1> QED
  BY <1>2

\* Sums add up element by element.
THEOREM SumPlus ==
    ASSUME NEW f, NEW g, NEW h, NEW S, IsFiniteSet(S),
           \A x \in S : f[x] \in Int /\ g[x] \in Int /\ h[x] = f[x] + g[x]
    PROVE  SumFunctionOnSet(h, S) = SumFunctionOnSet(f, S) + SumFunctionOnSet(g, S)
<1> DEFINE Good == {T \in SUBSET S :
               SumFunctionOnSet(h, T) = SumFunctionOnSet(f, T) + SumFunctionOnSet(g, T)}
<1>1. ASSUME NEW T \in SUBSET S, \A V \in SUBSET T : V # T => V \in Good
      PROVE  T \in Good
  <2>1. CASE T = {}
    BY <2>1, SumOfNone
  <2>2. CASE T # {}
    <3> DEFINE x == Pick(T)
               V == T \ {x}
    <3>1. x \in T /\ IsFiniteSet(T) /\ IsFiniteSet(V)
      BY <2>2, PickIn, FS_Subset
    <3>2. V \in Good
      BY <1>1, <3>1
    <3>3. /\ SumFunctionOnSet(f, T) = f[x] + SumFunctionOnSet(f, V)
          /\ SumFunctionOnSet(g, T) = g[x] + SumFunctionOnSet(g, V)
          /\ SumFunctionOnSet(h, T) = h[x] + SumFunctionOnSet(h, V)
      BY <2>2, <3>1, SumStep
    <3>4. SumFunctionOnSet(f, V) \in Int /\ SumFunctionOnSet(g, V) \in Int
      BY <3>1, SumType
    <3>5. SumFunctionOnSet(h, V) = SumFunctionOnSet(f, V) + SumFunctionOnSet(g, V)
      BY <3>2
    <3>6. f[x] \in Int /\ g[x] \in Int /\ h[x] = f[x] + g[x]
      BY <3>1
    <3> HIDE DEF x, V
    <3>7. SumFunctionOnSet(h, T) = SumFunctionOnSet(f, T) + SumFunctionOnSet(g, T)
      BY <3>3, <3>4, <3>5, <3>6
    <3> QED
      BY <3>7
  <2> QED
    BY <2>1, <2>2
<1>2. Good = SUBSET S
  <2> HIDE DEF Good
  <2>1. Good \in SUBSET (SUBSET S)
    BY DEF Good
  <2> QED
    BY <1>1, <2>1, SubsetInduction
<1> QED
  BY <1>2

\* Elements that count nothing may be left out of a sum.
THEOREM SumWhere ==
    ASSUME NEW f, NEW g, NEW S, IsFiniteSet(S), NEW R \in SUBSET S,
           \A x \in R : f[x] = g[x], \A x \in S \ R : g[x] = 0,
           \A x \in S : g[x] \in Int
    PROVE  SumFunctionOnSet(f, R) = SumFunctionOnSet(g, S)
<1> DEFINE Good == {T \in SUBSET S :
               SumFunctionOnSet(g, T) = SumFunctionOnSet(g, T \intersect R)}
<1>1. ASSUME NEW T \in SUBSET S, \A V \in SUBSET T : V # T => V \in Good
      PROVE  T \in Good
  <2>1. CASE T = {}
    BY <2>1
  <2>2. CASE T \subseteq R
    <3>1. T \intersect R = T
      BY <2>2
    <3> QED
      BY <3>1
  <2>3. ASSUME NEW x \in T, x \notin R PROVE T \in Good
    <3> DEFINE V == T \ {x}
    <3>1. IsFiniteSet(T) /\ IsFiniteSet(V) /\ V \in Good /\ g[x] = 0
      BY <1>1, <2>3, FS_Subset
    <3>2. SumFunctionOnSet(g, T) = g[x] + SumFunctionOnSet(g, V)
      <4>1. \A y \in T : g[y] \in Int
        OBVIOUS
      <4>2. \A y \in T :
                SumFunctionOnSet(g, T) = g[y] + SumFunctionOnSet(g, T \ {y})
        BY <3>1, <4>1, SumTakeOut
      <4> HIDE DEF Good
      <4> QED
        BY <4>2
    <3>3. SumFunctionOnSet(g, V) \in Int
      BY <3>1, SumType
    <3>4. V \intersect R = T \intersect R
      BY <2>3
    <3>5. SumFunctionOnSet(g, V) = SumFunctionOnSet(g, V \intersect R)
      BY <3>1
    <3>6. g[x] = 0
      BY <2>3
    <3> HIDE DEF Good, V
    <3>7. SumFunctionOnSet(g, T) = SumFunctionOnSet(g, V)
      BY <3>2, <3>3, <3>6
    <3>8. SumFunctionOnSet(g, T) = SumFunctionOnSet(g, T \intersect R)
      BY <3>4, <3>5, <3>7
    <3> QED
      BY <3>8 DEF Good
  <2> QED
    BY <2>2, <2>3
<1>2. Good = SUBSET S
  <2> HIDE DEF Good
  <2>1. Good \in SUBSET (SUBSET S)
    BY DEF Good
  <2> QED
    BY <1>1, <2>1, SubsetInduction
<1>3. S \intersect R = R /\ S \in Good
  BY <1>2
<1>4. SumFunctionOnSet(g, S) = SumFunctionOnSet(g, R)
  BY <1>3
<1>5. SumFunctionOnSet(f, R) = SumFunctionOnSet(g, R)
  BY FS_Subset, SumSame
<1> QED
  BY <1>4, <1>5

\* A sum of positive numbers is at least as many.
THEOREM SumCounts ==
    ASSUME NEW f, NEW S, IsFiniteSet(S), \A x \in S : f[x] \in Int /\ f[x] >= 1
    PROVE  SumFunctionOnSet(f, S) >= Cardinality(S)
<1> DEFINE Good == {T \in SUBSET S : SumFunctionOnSet(f, T) >= Cardinality(T)}
<1>1. ASSUME NEW T \in SUBSET S, \A V \in SUBSET T : V # T => V \in Good
      PROVE  T \in Good
  <2>1. CASE T = {}
    BY <2>1, SumOfNone, FS_EmptySet
  <2>2. CASE T # {}
    <3> DEFINE x == Pick(T)
               V == T \ {x}
    <3>1. x \in T /\ IsFiniteSet(T) /\ IsFiniteSet(V)
      BY <2>2, PickIn, FS_Subset
    <3>2. SumFunctionOnSet(f, V) >= Cardinality(V)
      BY <1>1, <3>1
    <3>3. SumFunctionOnSet(f, T) = f[x] + SumFunctionOnSet(f, V)
      BY <2>2, <3>1, SumStep
    <3>4. SumFunctionOnSet(f, V) \in Int
      BY <3>1, SumType
    <3>5. Cardinality(V) = Cardinality(T) - 1 /\ Cardinality(T) \in Nat
      BY <3>1, FS_RemoveElement, FS_CardinalityType
    <3>6. f[x] \in Int /\ f[x] >= 1
      BY <3>1
    <3> HIDE DEF x, V
    <3>7. SumFunctionOnSet(f, T) >= Cardinality(T)
      BY <3>2, <3>3, <3>4, <3>5, <3>6
    <3> QED
      BY <3>7
  <2> QED
    BY <2>1, <2>2
<1>2. Good = SUBSET S
  <2> HIDE DEF Good
  <2>1. Good \in SUBSET (SUBSET S)
    BY DEF Good
  <2> QED
    BY <1>1, <2>1, SubsetInduction
<1> QED
  BY <1>2

\* What moves from one element to another leaves the sum as it was, also when
\* the two are one.
THEOREM SumMoved ==
    ASSUME NEW f, NEW g, NEW S, IsFiniteSet(S), NEW a \in S, NEW b \in S, NEW k \in Int,
           \A x \in S : f[x] \in Int,
           \A x \in S \ {a, b} : g[x] = f[x],
           a = b => g[a] = f[a],
           a # b => g[a] = f[a] + k /\ g[b] = f[b] - k
    PROVE  SumFunctionOnSet(g, S) = SumFunctionOnSet(f, S)
<1>1. CASE a = b
  <2>1. \A x \in S : f[x] = g[x]
    BY <1>1
  <2> QED
    BY <2>1, SumSame
<1>2. CASE a # b
  <2> DEFINE h == [x \in S |-> IF x = a THEN f[x] + k ELSE f[x]]
  <2>1. /\ \A x \in S : h[x] \in Int /\ g[x] \in Int
        /\ \A x \in S \ {a} : h[x] = f[x]
        /\ \A x \in S \ {b} : g[x] = h[x]
        /\ h[a] = f[a] + k /\ g[b] = h[b] - k
    <3>1. \A x \in S : h[x] = IF x = a THEN f[x] + k ELSE f[x]
      OBVIOUS
    <3> HIDE DEF h
    <3>2. g[a] = f[a] + k /\ g[b] = f[b] - k /\ h[a] = f[a] + k /\ h[b] = f[b]
      BY <1>2, <3>1
    <3>3. f[a] + k \in Int /\ f[b] - k \in Int
      OBVIOUS
    <3>4. ASSUME NEW x \in S PROVE h[x] \in Int /\ g[x] \in Int
      BY <3>1, <3>2, <3>3
    <3>5. ASSUME NEW x \in S \ {a} PROVE h[x] = f[x]
      BY <3>1
    <3>6. ASSUME NEW x \in S \ {b} PROVE g[x] = h[x]
      BY <3>1, <3>2
    <3> QED
      <4>1. g[b] = h[b] - k
        BY <3>2
      <4> QED
        BY <3>2, <3>4, <3>5, <3>6, <4>1
  <2> HIDE DEF h
  <2>2. SumFunctionOnSet(h, S) = SumFunctionOnSet(f, S) + h[a] - f[a]
    <3>1. \A y \in S : f[y] \in Int /\ h[y] \in Int
      BY <2>1
    <3>2. \A y \in S \ {a} : h[y] = f[y]
      BY <2>1
    <3> QED
      BY <3>1, <3>2, SumChange
  <2>3. SumFunctionOnSet(g, S) = SumFunctionOnSet(h, S) + g[b] - h[b]
    <3>1. \A y \in S : h[y] \in Int /\ g[y] \in Int
      BY <2>1
    <3>2. \A y \in S \ {b} : g[y] = h[y]
      BY <2>1
    <3> QED
      BY <3>1, <3>2, SumChange
  <2>4. SumFunctionOnSet(f, S) \in Int /\ f[a] \in Int /\ h[b] \in Int
    BY <2>1, SumType
  <2> QED
    BY <2>1, <2>2, <2>3, <2>4
<1> QED
  BY <1>1, <1>2

\* A set all of whose elements are equal has one element at most.
LEMMA OneAtMost ==
    ASSUME NEW S, \A x, y \in S : x = y
    PROVE  Cardinality(S) <= 1
<1>1. CASE S = {}
  BY <1>1, FS_EmptySet
<1>2. CASE S # {}
  <2>1. PICK x : x \in S
    BY <1>2
  <2>2. S = {x}
    BY <2>1
  <2>3. Cardinality({x}) = 1
    BY FS_Singleton
  <2> QED
    BY <2>2, <2>3
<1> QED
  BY <1>1, <1>2

-----------------------------------------------------------------------------
(* Facts about one row and one movement.                                   *)

\* A movement leaves a level a level.
LEMMA MovedType ==
    ASSUME NEW l \in Level, NEW m \in Movement
    PROVE  /\ Moved(l, m) \in Level
           /\ Moved(l, m)[m.bucket] = l[m.bucket] + m.change
           /\ \A b \in Buckets \ {m.bucket} : Moved(l, m)[b] = l[b]
BY DEF Moved, SetBucketValue, Level, Movement

\* The formula gives a number.
LEMMA AvailableType ==
    ASSUME NEW l \in Level
    PROVE  ComputeAvailable(l) \in Int
BY DEF ComputeAvailable, Level, Buckets

\* A movement that passes the checks leaves no bucket of a non-negative level
\* negative: on_hand too, though its own test lets an adjustment through.
LEMMA PassedKeepsNonNegative ==
    ASSUME NEW l \in Level, NEW m \in Movement,
           \A b \in Buckets : l[b] >= 0,
           ~Refused(l, m)
    PROVE  \A b \in Buckets : Moved(l, m)[b] >= 0
<1> DEFINE n == Moved(l, m)
<1>1. /\ n \in Level
      /\ n[m.bucket] = l[m.bucket] + m.change
      /\ \A b \in Buckets \ {m.bucket} : n[b] = l[b]
  BY MovedType
<1>2. /\ m.bucket \in Buckets
      /\ m.change \in Int
      /\ \A b \in Buckets : l[b] \in Int /\ n[b] \in Int
  BY <1>1 DEF Movement, Level
<1>3. SUFFICES n[m.bucket] >= 0
  BY <1>1, <1>2
<1>4. CASE m.bucket # "on_hand"
  BY <1>2, <1>4 DEF Refused, RefusedNegative
<1>5. CASE m.bucket = "on_hand"
  <2>1. SUFFICES ASSUME n["on_hand"] < 0
                 PROVE  FALSE
    BY <1>2, <1>5
  <2>2. ComputeAvailable(n) < 0
    BY <1>1, <1>2, <1>5, <2>1 DEF ComputeAvailable, Buckets
  <2>3. m.type = "adjust"
    BY <1>5, <2>1, <2>2 DEF Refused, RefusedNegative
  <2>4. m.change < 0
    BY <1>1, <1>2, <1>5, <2>1
  <2>5. RefusedOversell(l, m)
    BY <1>5, <2>2, <2>3, <2>4
    DEF RefusedOversell, WorsensAvailable, OrderLifecycleTypes
  <2> QED
    BY <2>5 DEF Refused
<1> QED
  BY <1>4, <1>5

\* A movement that passes and is no order's leaves available non-negative or
\* no lower than it was.
LEMMA PassedKeepsAvailable ==
    ASSUME NEW l \in Level, NEW m \in Movement,
           ~Refused(l, m), ~MayOversell(m)
    PROVE  \/ ComputeAvailable(Moved(l, m)) >= 0
           \/ ComputeAvailable(Moved(l, m)) >= ComputeAvailable(l)
<1> DEFINE n == Moved(l, m)
<1>1. /\ n \in Level
      /\ n[m.bucket] = l[m.bucket] + m.change
      /\ \A b \in Buckets \ {m.bucket} : n[b] = l[b]
  BY MovedType
<1>2. ComputeAvailable(n) \in Int /\ ComputeAvailable(l) \in Int
  BY <1>1, AvailableType
<1>3. SUFFICES ASSUME ComputeAvailable(n) < 0
               PROVE  ComputeAvailable(n) >= ComputeAvailable(l)
  BY <1>2
<1>4. ~WorsensAvailable(m) /\ m.bucket # "unavailable"
  BY <1>3 DEF Refused, RefusedOversell, MayOversell
<1>5. /\ m.change \in Int /\ m.bucket \in Buckets
      /\ \A b \in Buckets : l[b] \in Int /\ n[b] \in Int
  BY <1>1 DEF Movement, Level
<1> QED
  BY <1>1, <1>4, <1>5 DEF ComputeAvailable, WorsensAvailable, Buckets

-----------------------------------------------------------------------------
(* A batch of movements.                                                   *)

\* f gives the levels of the first n movements of a batch.
Levels(f, n, l, moves) ==
    f = [i \in 0..n |-> IF i = 0 THEN l ELSE Moved(f[i - 1], moves[i])]

\* There are such levels, however long the batch.
LEMMA LevelsExist ==
    ASSUME NEW l, NEW moves
    PROVE  \A n \in Nat : \E f : Levels(f, n, l, moves)
<1> DEFINE Bad == {n \in Nat : ~ \E f : Levels(f, n, l, moves)}
<1>1. SUFFICES ASSUME Bad # {} PROVE FALSE
  OBVIOUS
<1>2. PICK n \in Bad : \A k \in Bad : n <= k
  BY <1>1, LeastNatural
<1>3. CASE n = 0
  <2> DEFINE f == [i \in 0..0 |-> l]
  <2>1. f = [i \in 0..n |-> IF i = 0 THEN l ELSE Moved(f[i - 1], moves[i])]
    BY <1>3
  <2> QED
    BY <2>1 DEF Levels
<1>4. CASE n # 0
  <2>1. n \in Nat /\ n - 1 \in Nat /\ n - 1 \notin Bad
    BY <1>2, <1>4
  <2>2. PICK g : Levels(g, n - 1, l, moves)
    BY <2>1
  <2> DEFINE f == [i \in 0..n |-> IF i = n THEN Moved(g[n - 1], moves[n]) ELSE g[i]]
  <2>3. \A i \in 0..(n - 1) :
            g[i] = IF i = 0 THEN l ELSE Moved(g[i - 1], moves[i])
    BY <2>1, <2>2 DEF Levels
  <2>4. ASSUME NEW i \in 0..n
        PROVE  f[i] = IF i = 0 THEN l ELSE Moved(f[i - 1], moves[i])
    <3>1. CASE i = n
      BY <1>4, <2>1, <3>1
    <3>2. CASE i # n
      BY <2>1, <2>3, <3>2
    <3> QED
      BY <3>1, <3>2
  <2>5. f = [i \in 0..n |-> f[i]]
    OBVIOUS
  <2> HIDE DEF f
  <2>6. f = [i \in 0..n |-> IF i = 0 THEN l ELSE Moved(f[i - 1], moves[i])]
    BY <2>4, <2>5
  <2> QED
    BY <2>6 DEF Levels
<1> QED
  BY <1>3, <1>4

\* The levels of a batch unfold movement by movement.
LEMMA LevelsUnfold ==
    ASSUME NEW l, NEW moves, Len(moves) \in Nat
    PROVE  /\ LevelsAfter(l, moves)[0] = l
           /\ \A i \in 1..Len(moves) :
                 LevelsAfter(l, moves)[i] = Moved(LevelsAfter(l, moves)[i - 1], moves[i])
<1> DEFINE f == LevelsAfter(l, moves)
<1>1. f = CHOOSE g : Levels(g, Len(moves), l, moves)
  BY DEF LevelsAfter, Levels
<1>2. Levels(f, Len(moves), l, moves)
  BY <1>1, LevelsExist
<1> HIDE DEF f
<1>3. \A i \in 0..Len(moves) : f[i] = IF i = 0 THEN l ELSE Moved(f[i - 1], moves[i])
  BY <1>2 DEF Levels
<1> QED
  BY <1>3 DEF f

\* A batch that passes leaves no bucket of a non-negative level negative.
LEMMA BatchNonNegative ==
    ASSUME NEW l \in [Buckets -> Nat], NEW moves \in Seq(Movement),
           LinePasses(l, PostLine(moves))
    PROVE  AfterLine(l, PostLine(moves)) \in [Buckets -> Nat]
<1> DEFINE n == Len(moves)
           after(i) == LevelsAfter(l, moves)[i]
           Bad == {i \in 0..n : after(i) \notin [Buckets -> Nat]}
<1>1. n \in Nat /\ \A i \in 1..n : moves[i] \in Movement
  BY ElementOfSeq, LenProperties
<1>2. after(0) = l /\ \A i \in 1..n : after(i) = Moved(after(i - 1), moves[i])
  BY <1>1, LevelsUnfold
<1>3. \A i \in 1..n : ~Refused(after(i - 1), moves[i])
  BY DEF LinePasses, PostLine
<1>4. AfterLine(l, PostLine(moves)) = after(n)
  BY DEF AfterLine, PostLine
<1>5. SUFFICES ASSUME Bad # {} PROVE FALSE
  BY <1>1, <1>4
<1> HIDE DEF after, n
<1>6. PICK i \in Bad : \A k \in Bad : i <= k
  <2>1. Bad \subseteq Nat
    BY <1>1
  <2> HIDE DEF Bad
  <2> QED
    BY <1>5, <2>1, LeastNatural
<1>7. i \in 1..n /\ i - 1 \in 0..n /\ i - 1 \notin Bad
  BY <1>1, <1>2, <1>6
<1>8. after(i - 1) \in [Buckets -> Nat]
  BY <1>7
<1> DEFINE k == after(i - 1)
           m == moves[i]
<1>9. k \in Level /\ m \in Movement /\ ~Refused(k, m) /\ \A b \in Buckets : k[b] >= 0
  BY <1>1, <1>3, <1>7, <1>8 DEF Level
<1>10. Moved(k, m) \in Level /\ \A b \in Buckets : Moved(k, m)[b] >= 0
  <2> HIDE DEF k, m
  <2> QED
    BY <1>9, MovedType, PassedKeepsNonNegative
<1>11. Moved(k, m) \in [Buckets -> Nat]
  BY <1>10 DEF Level
<1> QED
  BY <1>2, <1>6, <1>7, <1>11

\* Batches of one, two and three movements, spelt out.
LEMMA BatchOfOne ==
    ASSUME NEW l, NEW a
    PROVE  /\ AfterLine(l, PostLine(<<a>>)) = Moved(l, a)
           /\ LinePasses(l, PostLine(<<a>>)) <=> ~Refused(l, a)
<1> DEFINE moves == <<a>>
<1>1. Len(moves) = 1 /\ moves[1] = a
  OBVIOUS
<1> HIDE DEF moves
<1>2. LevelsAfter(l, moves)[0] = l /\ LevelsAfter(l, moves)[1] = Moved(l, a)
  BY <1>1, LevelsUnfold
<1> QED
  BY <1>1, <1>2 DEF AfterLine, LinePasses, PostLine, moves

\* Two movements in a line apply one after the other, and each must pass.
LEMMA BatchOfTwo ==
    ASSUME NEW l, NEW a, NEW b
    PROVE  /\ AfterLine(l, PostLine(<<a, b>>)) = Moved(Moved(l, a), b)
           /\ LinePasses(l, PostLine(<<a, b>>))
                <=> ~Refused(l, a) /\ ~Refused(Moved(l, a), b)
<1> DEFINE moves == <<a, b>>
           after == LevelsAfter(l, moves)
<1>1. Len(moves) = 2 /\ moves[1] = a /\ moves[2] = b
  OBVIOUS
<1> HIDE DEF moves
<1>2. after[0] = l /\ after[1] = Moved(l, a) /\ after[2] = Moved(Moved(l, a), b)
  <2>1. after[0] = l /\ \A i \in 1..2 : after[i] = Moved(after[i - 1], moves[i])
    BY <1>1, LevelsUnfold
  <2> QED
    BY <1>1, <2>1
<1>3. AfterLine(l, PostLine(moves)) = after[2]
  BY <1>1 DEF AfterLine, PostLine
<1>4. LinePasses(l, PostLine(moves)) <=> \A i \in 1..2 : ~Refused(after[i - 1], moves[i])
  BY <1>1 DEF LinePasses, PostLine
<1> HIDE DEF after
<1>5. (\A i \in 1..2 : ~Refused(after[i - 1], moves[i]))
        <=> ~Refused(after[0], moves[1]) /\ ~Refused(after[1], moves[2])
  OBVIOUS
<1> QED
  BY <1>1, <1>2, <1>3, <1>4, <1>5 DEF moves

\* Three movements in a line apply one after the other.
LEMMA BatchOfThree ==
    ASSUME NEW l, NEW a, NEW b, NEW c
    PROVE  AfterLine(l, PostLine(<<a, b, c>>)) = Moved(Moved(Moved(l, a), b), c)
<1> DEFINE moves == <<a, b, c>>
           after == LevelsAfter(l, moves)
<1>1. Len(moves) = 3 /\ moves[1] = a /\ moves[2] = b /\ moves[3] = c
  OBVIOUS
<1> HIDE DEF moves
<1>2. after[0] = l /\ \A i \in 1..3 : after[i] = Moved(after[i - 1], moves[i])
  BY <1>1, LevelsUnfold
<1>3. AfterLine(l, PostLine(moves)) = after[3]
  BY <1>1 DEF AfterLine, PostLine
<1> HIDE DEF after
<1> QED
  BY <1>1, <1>2, <1>3 DEF moves

\* Sequences of movements put together.
LEMMA Joined ==
    ASSUME NEW a \in Movement, NEW b \in Movement, NEW c \in Movement
    PROVE  /\ << >> \o <<c>> = <<c>> /\ << >> \o <<a, b>> = <<a, b>>
           /\ <<c>> \o << >> = <<c>> /\ <<a, b>> \o << >> = <<a, b>>
           /\ <<a>> \o <<c>> = <<a, c>> /\ <<a, b>> \o <<c>> = <<a, b, c>>
<1>1. <<a>> \in Seq(Movement) /\ <<c>> \in Seq(Movement) /\ <<a, b>> \in Seq(Movement)
      /\ <<a, c>> \in Seq(Movement) /\ <<a, b, c>> \in Seq(Movement)
  OBVIOUS
<1>2. /\ Len(<<a>>) = 1 /\ <<a>>[1] = a /\ Len(<<c>>) = 1 /\ <<c>>[1] = c
      /\ Len(<<a, b>>) = 2 /\ <<a, b>>[1] = a /\ <<a, b>>[2] = b
  OBVIOUS
<1> DEFINE s == <<a>> \o <<c>>
           t == <<a, b>> \o <<c>>
<1>3. s \in Seq(Movement) /\ Len(s) = 2 /\ s[1] = a /\ s[2] = c
  <2>1. /\ s \in Seq(Movement) /\ Len(s) = Len(<<a>>) + Len(<<c>>)
        /\ \A i \in 1..Len(<<a>>) + Len(<<c>>) :
              s[i] = IF i <= Len(<<a>>) THEN <<a>>[i] ELSE <<c>>[i - Len(<<a>>)]
    BY <1>1, ConcatProperties
  <2> HIDE DEF s
  <2> QED
    BY <1>2, <2>1
<1>4. t \in Seq(Movement) /\ Len(t) = 3 /\ t[1] = a /\ t[2] = b /\ t[3] = c
  <2>1. /\ t \in Seq(Movement) /\ Len(t) = Len(<<a, b>>) + Len(<<c>>)
        /\ \A i \in 1..Len(<<a, b>>) + Len(<<c>>) :
              t[i] = IF i <= Len(<<a, b>>) THEN <<a, b>>[i] ELSE <<c>>[i - Len(<<a, b>>)]
    BY <1>1, ConcatProperties
  <2> HIDE DEF t
  <2> QED
    BY <1>2, <2>1
<1>5. s = <<a, c>> /\ t = <<a, b, c>>
  <2>1. Len(<<a, c>>) = 2 /\ <<a, c>>[1] = a /\ <<a, c>>[2] = c
    OBVIOUS
  <2>2. /\ Len(<<a, b, c>>) = 3 /\ <<a, b, c>>[1] = a /\ <<a, b, c>>[2] = b
        /\ <<a, b, c>>[3] = c
    OBVIOUS
  <2> HIDE DEF s, t
  <2>3. s = <<a, c>>
    <3> DEFINE u == <<a, c>>
    <3>1. Len(s) = Len(u) /\ \A i \in 1..Len(s) : s[i] = u[i]
      BY <1>3, <2>1
    <3>2. u \in Seq(Movement)
      BY <1>1
    <3> HIDE DEF u
    <3>3. s = u
      BY <1>3, <3>1, <3>2, SeqEqual
    <3> QED
      BY <3>3 DEF u
  <2>4. t = <<a, b, c>>
    <3> DEFINE u == <<a, b, c>>
    <3>1. Len(t) = Len(u) /\ \A i \in 1..Len(t) : t[i] = u[i]
      BY <1>4, <2>2
    <3>2. u \in Seq(Movement)
      BY <1>1
    <3> HIDE DEF u
    <3>3. t = u
      BY <1>4, <3>1, <3>2, SeqEqual
    <3> QED
      BY <3>3 DEF u
  <2> QED
    BY <2>3, <2>4
<1> QED
  BY <1>1, <1>5, ConcatEmptySeq

\* A sum is that over some of the elements and that over the others.
THEOREM SumInParts ==
    ASSUME NEW f, NEW S, IsFiniteSet(S), NEW R \in SUBSET S, \A x \in S : f[x] \in Int
    PROVE  /\ SumFunctionOnSet(f, S) = SumFunctionOnSet(f, R) + SumFunctionOnSet(f, S \ R)
           /\ SumFunctionOnSet(f, R) \in Int /\ SumFunctionOnSet(f, S \ R) \in Int
<1> DEFINE g == [x \in S |-> IF x \in R THEN f[x] ELSE 0]
           h == [x \in S |-> IF x \in R THEN 0 ELSE f[x]]
<1>1. /\ \A x \in R : f[x] = g[x] /\ h[x] = 0
      /\ \A x \in S \ R : f[x] = h[x] /\ g[x] = 0
      /\ \A x \in S : g[x] \in Int /\ h[x] \in Int /\ f[x] = g[x] + h[x]
  OBVIOUS
<1> HIDE DEF g, h
<1>2. SumFunctionOnSet(f, R) = SumFunctionOnSet(g, S)
  BY <1>1, SumWhere
<1>3. SumFunctionOnSet(f, S \ R) = SumFunctionOnSet(h, S)
  <2> DEFINE Rest == S \ R
  <2>1. Rest \in SUBSET S /\ S \ Rest = R
    OBVIOUS
  <2>2. /\ \A x \in Rest : f[x] = h[x]
        /\ \A x \in S \ Rest : h[x] = 0
        /\ \A x \in S : h[x] \in Int
    BY <1>1, <2>1
  <2> HIDE DEF Rest
  <2>3. SumFunctionOnSet(f, Rest) = SumFunctionOnSet(h, S)
    BY <2>1, <2>2, SumWhere
  <2> QED
    BY <2>3 DEF Rest
<1>4. SumFunctionOnSet(f, S) = SumFunctionOnSet(g, S) + SumFunctionOnSet(h, S)
  BY <1>1, SumPlus
<1>5. SumFunctionOnSet(g, S) \in Int /\ SumFunctionOnSet(h, S) \in Int
  BY <1>1, SumType
<1> QED
  BY <1>2, <1>3, <1>4, <1>5

\* A sum of smaller numbers is smaller.
THEOREM SumAtMost ==
    ASSUME NEW f, NEW g, NEW S, IsFiniteSet(S),
           \A x \in S : f[x] \in Int /\ g[x] \in Int /\ f[x] <= g[x]
    PROVE  SumFunctionOnSet(f, S) <= SumFunctionOnSet(g, S)
<1> DEFINE h == [x \in S |-> g[x] - f[x]]
<1>1. \A x \in S : h[x] \in Nat /\ f[x] \in Int /\ h[x] \in Int /\ g[x] = f[x] + h[x]
  OBVIOUS
<1> HIDE DEF h
<1>2. SumFunctionOnSet(g, S) = SumFunctionOnSet(f, S) + SumFunctionOnSet(h, S)
  BY <1>1, SumPlus
<1>3. SumFunctionOnSet(h, S) \in Nat
  BY <1>1, SumBounds
<1>4. SumFunctionOnSet(f, S) \in Int
  BY <1>1, SumType
<1> QED
  BY <1>2, <1>3, <1>4
=============================================================================
