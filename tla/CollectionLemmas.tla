-------------------------- MODULE CollectionLemmas --------------------------
(* What Min, Max and SumFunctionOnSet of the community modules return, and   *)
(* what rounding down does, for the proofs of the components that use them.  *)
EXTENDS Integers, FiniteSetsExt, Functions, FiniteSetTheorems, WellFoundedInduction, TLAPS

\* Min returns the least element of a set of naturals, which has one: the first of
\* the orders that rest, the oldest of the events kept.
LEMMA MinOfNaturals ==
  ASSUME NEW S, S \subseteq Nat, S # {}
  PROVE  Min(S) \in S /\ \A y \in S : Min(S) <= y
<1> DEFINE Below(x) == 0..(x - 1)
<1>1. PICK n \in S : TRUE
  OBVIOUS
<1> DEFINE T == {Below(x) : x \in {y \in S : y <= n}}
<1>2. T # {} /\ T \subseteq SUBSET (0..n)
  BY <1>1
<1>3. IsFiniteSet(0..n)
  BY <1>1, FS_Interval
<1>4. T \subseteq FiniteSubsetsOf(0..n)
  BY <1>2, <1>3, FS_FiniteSubsetsOfFinite
<1>5. PICK t \in T : \A u \in T : <<u, t>> \notin StrictSubsetOrdering(0..n)
  <2> HIDE DEF T
  <2> QED
    BY <1>2, <1>4, WFMin, FS_StrictSubsetOrderingWellFounded
<1>6. PICK x \in S : x <= n /\ t = Below(x)
  BY <1>5
<1>7. ASSUME NEW y \in S PROVE x <= y
  <2> SUFFICES ASSUME y < x PROVE FALSE
    OBVIOUS
  <2>1. Below(y) \in T
    BY <1>1, <1>6
  <2>2. Below(y) \subseteq Below(x) /\ y \in Below(x) /\ y \notin Below(y)
    OBVIOUS
  <2>3. <<Below(y), t>> \in StrictSubsetOrdering(0..n)
    BY <1>2, <1>5, <1>6, <2>1, <2>2 DEF StrictSubsetOrdering
  <2> QED
    BY <1>5, <2>1, <2>3
<1> QED
  BY <1>6, <1>7 DEF Min

\* Max returns the greatest element of a bounded set of integers: the best of the
\* triggers, the last of the numbers given.
LEMMA MaxOfBounded ==
  ASSUME NEW S, S \subseteq Int, S # {}, NEW b \in Int, \A x \in S : x <= b
  PROVE  Max(S) \in S /\ \A y \in S : Max(S) >= y
<1> DEFINE T == {b - x : x \in S}
<1>1. T \subseteq Nat
  OBVIOUS
<1>2. PICK x \in S : TRUE
  OBVIOUS
<1>3. b - x \in T
  BY <1>2
<1>4. PICK t \in T : \A u \in T : t <= u
  <2> HIDE DEF T
  <2> QED
    BY <1>1, <1>3, MinOfNaturals
<1>5. PICK y \in S : t = b - y
  BY <1>4
<1>6. ASSUME NEW z \in S PROVE y >= z
  <2>1. b - z \in T
    OBVIOUS
  <2>2. t <= b - z
    BY <1>4, <2>1
  <2> QED
    BY <1>5, <2>2
<1> QED
  BY <1>5, <1>6 DEF Max

\* Of two integers, Max returns the greater: the peak of a result and the last one.
LEMMA MaxOfTwo ==
  ASSUME NEW a \in Int, NEW b \in Int
  PROVE  Max({a, b}) \in Int /\ Max({a, b}) >= a /\ Max({a, b}) >= b
<1> DEFINE S == {a, b}
           bound == IF a > b THEN a ELSE b
<1>1. S \subseteq Int /\ S # {} /\ bound \in Int /\ \A x \in S : x <= bound
  OBVIOUS
<1>2. Max(S) \in S /\ \A y \in S : Max(S) >= y
  <2> HIDE DEF S, bound
  <2> QED
    BY <1>1, MaxOfBounded
<1> QED
  BY <1>2

\* Of two integers, Min returns the lesser.
LEMMA MinOfTwo ==
  ASSUME NEW a \in Int, NEW b \in Int
  PROVE  Min({a, b}) = IF a <= b THEN a ELSE b
<1> DEFINE least == IF a <= b THEN a ELSE b
<1>1. least \in {a, b} /\ \A x \in {a, b} : least <= x
  OBVIOUS
<1>2. \A x \in {a, b} : (\A y \in {a, b} : x <= y) => x = least
  OBVIOUS
<1> QED
  BY <1>1, <1>2 DEF Min
-----------------------------------------------------------------------------
(* Shares and products of naturals *)

\* A share of a natural is a natural, and a product of two.
LEMMA ShareIsNat ==
  ASSUME NEW x \in Nat, NEW y \in Nat \ {0}
  PROVE  x \div y \in Nat
OBVIOUS

\* A product of naturals is a natural.
LEMMA ProductIsNat ==
  ASSUME NEW x \in Nat, NEW y \in Nat
  PROVE  x * y \in Nat
OBVIOUS

\* A share of less is no more.
LEMMA SmallerShare ==
  ASSUME NEW q \in Nat, NEW p \in Nat, q <= p, NEW l \in Nat \ {0}
  PROVE  q \div l \in Nat /\ p \div l \in Nat /\ q \div l <= p \div l
<1> DEFINE s == q \div l
           t == p \div l
<1>1. \A x \in Nat : x \div l \in Nat /\ (x \div l) * l <= x /\ x < (x \div l) * l + l
  OBVIOUS
<1>2. s \in Nat /\ t \in Nat /\ s * l <= q /\ p < t * l + l
  BY <1>1
<1> HIDE DEF s, t
<1>3. ASSUME t < s PROVE FALSE
  <2>1. t + 1 <= s
    BY <1>2, <1>3
  <2>2. \A x, y \in Nat : x <= y => x * l <= y * l
    OBVIOUS
  <2>3. (t + 1) * l <= s * l
    BY <1>2, <2>1, <2>2
  <2>4. (t + 1) * l = t * l + l
    BY <1>2
  <2>5. t * l \in Nat /\ s * l \in Nat
    BY <1>2
  <2> QED
    BY <1>2, <2>3, <2>4, <2>5
<1>4. s <= t
  BY <1>2, <1>3
<1> QED
  BY <1>2, <1>4 DEF s, t
-----------------------------------------------------------------------------
(* Sums *)

\* An element of a set, as the fold over it picks one.
Picked(s) == CHOOSE x \in s : TRUE

\* What SumFunctionOnSet computes, as a function of the subsets of I.
Adds(g, f, I) ==
  \A s \in SUBSET I :
    g[s] = IF s = {} THEN 0 ELSE f[Picked(s)] + g[s \ {Picked(s)}]

Ints(f, I) == \A x \in I : f[x] \in Int
Commutes(g, f, I) == \A s \in SUBSET I : \A x \in s : g[s] = f[x] + g[s \ {x}]

\* Of subsets of a finite set, one has no proper subset among them.
LEMMA SmallestSubset ==
  ASSUME NEW I, IsFiniteSet(I), NEW X, X \subseteq SUBSET I, X # {}
  PROVE  \E s \in X : \A t \in X : t \subseteq s => t = s
<1>1. X \subseteq FiniteSubsetsOf(I)
  BY FS_FiniteSubsetsOfFinite
<1>2. PICK s \in X : \A t \in X : <<t, s>> \notin StrictSubsetOrdering(I)
  BY <1>1, WFMin, FS_StrictSubsetOrderingWellFounded
<1>3. ASSUME NEW t \in X, t \subseteq s, t # s PROVE FALSE
  <2>1. <<t, s>> \in StrictSubsetOrdering(I)
    BY <1>3, <1>1 DEF StrictSubsetOrdering
  <2> QED
    BY <1>2, <2>1
<1> QED
  BY <1>2, <1>3

\* The sums over subsets do not depend on the set they are subsets of.
LEMMA SumsAgree ==
  ASSUME NEW I, NEW J, J \subseteq I, IsFiniteSet(I), NEW f, NEW e, NEW g, NEW h,
         \A x \in J : f[x] = e[x], Adds(g, f, I), Adds(h, e, J)
  PROVE  \A s \in SUBSET J : g[s] = h[s]
<1> DEFINE X == {s \in SUBSET J : g[s] # h[s]}
<1>1. SUFFICES ASSUME X # {} PROVE FALSE
  OBVIOUS
<1>2. IsFiniteSet(J) /\ X \subseteq SUBSET J
  BY FS_Subset
<1>3. PICK s \in X : \A t \in X : t \subseteq s => t = s
  <2> HIDE DEF X
  <2> QED
    BY <1>1, <1>2, SmallestSubset
<1>4. s \in SUBSET J /\ s \in SUBSET I /\ g[s] # h[s]
  OBVIOUS
<1>5. CASE s = {}
  BY <1>4, <1>5 DEF Adds
<1>6. CASE s # {}
  <2> DEFINE x == Picked(s)
  <2>1. x \in s
    BY <1>6 DEF Picked
  <2>2. g[s] = f[x] + g[s \ {x}] /\ h[s] = e[x] + h[s \ {x}]
    BY <1>4, <1>6 DEF Adds
  <2> HIDE DEF x
  <2>3. s \ {x} \in SUBSET J /\ s \ {x} # s
    BY <1>4, <2>1
  <2>4. g[s \ {x}] = h[s \ {x}]
    BY <1>3, <2>3
  <2> QED
    BY <1>4, <2>1, <2>2, <2>4
<1> QED
  BY <1>5, <1>6

\* There is such a function, into the integers, when what it adds are integers.
LEMMA SumsExist ==
  ASSUME NEW I, IsFiniteSet(I), NEW f, \A x \in I : f[x] \in Int
  PROVE  \E g \in [SUBSET I -> Int] : Adds(g, f, I)
<1> DEFINE Upto(n) == {s \in SUBSET I : Cardinality(s) <= n}
           Sums(g, n) == \A s \in Upto(n) :
             g[s] = IF s = {} THEN 0 ELSE f[Picked(s)] + g[s \ {Picked(s)}]
           N == {n \in Nat : ~ \E g \in [Upto(n) -> Int] : Sums(g, n)}
<1>1. \A s \in SUBSET I : IsFiniteSet(s) /\ Cardinality(s) \in Nat /\ Cardinality(s) <= Cardinality(I)
  BY FS_Subset, FS_CardinalityType
<1>2. N = {}
  <2> SUFFICES ASSUME N # {} PROVE FALSE
    OBVIOUS
  <2>1. PICK n \in N : \A m \in N : n <= m
    <3>1. N \subseteq Nat
      OBVIOUS
    <3> HIDE DEF N
    <3> QED
      BY <3>1, MinOfNaturals
  <2>2. n \in Nat /\ ~ \E g \in [Upto(n) -> Int] : Sums(g, n)
    OBVIOUS
  <2>3. CASE n = 0
    <3>1. \A s \in Upto(0) : s = {}
      BY <1>1, FS_EmptySet
    <3> DEFINE g == [s \in Upto(0) |-> 0]
    <3>2. g \in [Upto(0) -> Int] /\ Sums(g, 0)
      BY <3>1
    <3> QED
      BY <2>2, <2>3, <3>2
  <2>4. CASE n # 0
    <3>1. n - 1 \in Nat /\ n - 1 \notin N
      <4>1. n - 1 \in Nat /\ ~(n <= n - 1)
        BY <2>2, <2>4
      <4> HIDE DEF N
      <4> QED
        BY <2>1, <4>1
    <3>2. PICK g \in [Upto(n - 1) -> Int] : Sums(g, n - 1)
      BY <3>1
    <3> DEFINE h == [s \in Upto(n) |->
                 IF s = {} THEN 0 ELSE f[Picked(s)] + g[s \ {Picked(s)}]]
    <3>3. ASSUME NEW s \in Upto(n), s # {}
          PROVE  Picked(s) \in I /\ s \ {Picked(s)} \in Upto(n - 1) /\ s \ {Picked(s)} \in Upto(n)
      <4>1. Picked(s) \in s
        BY <3>3 DEF Picked
      <4>2. Cardinality(s \ {Picked(s)}) = Cardinality(s) - 1
        BY <1>1, <4>1, FS_RemoveElement
      <4>3. Cardinality(s) \in Nat /\ Cardinality(s) <= n
        BY <1>1
      <4>4. /\ s \ {Picked(s)} \in SUBSET I
            /\ Cardinality(s \ {Picked(s)}) <= n - 1 /\ Cardinality(s \ {Picked(s)}) <= n
        BY <2>2, <4>2, <4>3
      <4> QED
        BY <4>1, <4>4
    <3>4. h \in [Upto(n) -> Int]
      BY <3>3
    <3>5. \A s \in Upto(n - 1) : s \in Upto(n) /\ h[s] = g[s]
      <4> SUFFICES ASSUME NEW s \in Upto(n - 1) PROVE s \in Upto(n) /\ h[s] = g[s]
        OBVIOUS
      <4>1. s \in Upto(n)
        BY <1>1, <2>2
      <4> QED
        BY <3>2, <4>1
    <3>6. Sums(h, n)
      <4>1. \A s \in Upto(n) :
              h[s] = IF s = {} THEN 0 ELSE f[Picked(s)] + g[s \ {Picked(s)}]
        OBVIOUS
      <4>2. \A s \in Upto(n) : s # {} => h[s \ {Picked(s)}] = g[s \ {Picked(s)}]
        BY <3>3, <3>5
      <4> HIDE DEF h, Upto
      <4> QED
        BY <4>1, <4>2
    <3> HIDE DEF h, Sums, Upto
    <3> QED
      BY <2>2, <3>4, <3>6
  <2> QED
    BY <2>3, <2>4
<1>3. Cardinality(I) \in Nat
  BY FS_CardinalityType
<1>4. PICK g \in [Upto(Cardinality(I)) -> Int] : Sums(g, Cardinality(I))
  BY <1>2, <1>3
<1>5. Upto(Cardinality(I)) = SUBSET I
  BY <1>1
<1> QED
  BY <1>4, <1>5 DEF Adds

\* SumFunctionOnSet is that function.
LEMMA SumIsIts ==
  ASSUME NEW I, IsFiniteSet(I), NEW f, \A x \in I : f[x] \in Int
  PROVE  \E g \in [SUBSET I -> Int] : Adds(g, f, I) /\ SumFunctionOnSet(f, I) = g[I]
<1> DEFINE Is(g) == g = [s \in SUBSET I |->
              IF s = {} THEN 0 ELSE f[Picked(s)] + g[s \ {Picked(s)}]]
           iter == CHOOSE g : Is(g)
<1>1. PICK h \in [SUBSET I -> Int] : Adds(h, f, I)
  BY SumsExist
<1>2. Is(h)
  BY <1>1 DEF Adds
<1>3. Is(iter)
  BY <1>2
<1>4. SumFunctionOnSet(f, I) = iter[I]
  BY DEF SumFunctionOnSet, FoldFunctionOnSet, MapThenFoldSet, Picked
<1> HIDE DEF iter
<1>5. DOMAIN iter = SUBSET I /\ Adds(iter, f, I)
  BY <1>3 DEF Adds
<1>6. \A s \in SUBSET I : iter[s] = h[s]
  BY <1>1, <1>5, SumsAgree
<1>7. iter \in [SUBSET I -> Int]
  BY <1>3, <1>5, <1>6
<1> QED
  BY <1>4, <1>5, <1>7

\* The order of adding does not matter.
LEMMA SumsCommute ==
  ASSUME NEW I, IsFiniteSet(I), NEW f, Ints(f, I), NEW g \in [SUBSET I -> Int], Adds(g, f, I)
  PROVE  Commutes(g, f, I)
<1> USE DEF Ints, Commutes
<1> DEFINE X == {s \in SUBSET I : \E x \in s : g[s] # f[x] + g[s \ {x}]}
<1>1. SUFFICES ASSUME X # {} PROVE FALSE
  OBVIOUS
<1>2. PICK s \in X : \A t \in X : t \subseteq s => t = s
  <2>1. X \subseteq SUBSET I
    OBVIOUS
  <2> HIDE DEF X
  <2> QED
    BY <1>1, <2>1, SmallestSubset
<1>3. PICK x \in s : g[s] # f[x] + g[s \ {x}]
  OBVIOUS
<1> DEFINE c == Picked(s)
<1>4. s \in SUBSET I /\ c \in s /\ c \in I /\ x \in I
  BY DEF Picked
<1>5. g[s] = f[c] + g[s \ {c}]
  BY <1>4 DEF Adds
<1> HIDE DEF c
<1>6. c # x
  BY <1>3, <1>5
<1>7. g[s \ {c}] = f[x] + g[(s \ {c}) \ {x}]
  <2>1. s \ {c} \in SUBSET I /\ s \ {c} \subseteq s /\ s \ {c} # s /\ x \in s \ {c}
    BY <1>4, <1>6
  <2>2. s \ {c} \notin X
    BY <1>2, <2>1
  <2> QED
    BY <2>1, <2>2
<1>8. g[s \ {x}] = f[c] + g[(s \ {x}) \ {c}]
  <2>1. s \ {x} \in SUBSET I /\ s \ {x} \subseteq s /\ s \ {x} # s /\ c \in s \ {x}
    BY <1>4, <1>6
  <2>2. s \ {x} \notin X
    BY <1>2, <2>1
  <2> QED
    BY <2>1, <2>2
<1>9. (s \ {c}) \ {x} = (s \ {x}) \ {c} /\ (s \ {c}) \ {x} \in SUBSET I
  BY <1>4
<1> DEFINE u == g[(s \ {c}) \ {x}]
           v == f[c]
           w == f[x]
<1>10. u \in Int /\ v \in Int /\ w \in Int
  BY <1>4, <1>9
<1>11. g[s] # w + g[s \ {x}] /\ g[s] = v + (w + u) /\ g[s \ {x}] = v + u
  BY <1>3, <1>5, <1>7, <1>8, <1>9
<1> HIDE DEF u, v, w
<1> QED
  BY <1>10, <1>11

\* A sum over a sequence grows by what is appended; nothing sums to 0.
LEMMA SumOfNone ==
  ASSUME NEW f
  PROVE  SumFunctionOnSet(f, {}) = 0
<1>1. IsFiniteSet({}) /\ \A x \in {} : f[x] \in Int
  BY FS_EmptySet
<1>2. PICK g \in [SUBSET {} -> Int] : Adds(g, f, {}) /\ SumFunctionOnSet(f, {}) = g[{}]
  BY <1>1, SumIsIts
<1> QED
  BY <1>2 DEF Adds

\* A sum of integers is one.
LEMMA SumIsInt ==
  ASSUME NEW I, IsFiniteSet(I), NEW f, \A x \in I : f[x] \in Int
  PROVE  SumFunctionOnSet(f, I) \in Int
<1>1. PICK g \in [SUBSET I -> Int] : Adds(g, f, I) /\ SumFunctionOnSet(f, I) = g[I]
  BY SumIsIts
<1> QED
  BY <1>1

\* A sum over one element more is more by what that element counts.
LEMMA SumOfOneMore ==
  ASSUME NEW I, IsFiniteSet(I), NEW y \in I, NEW J, J = I \ {y}, NEW f, NEW e,
         \A x \in I : e[x] \in Int, \A x \in J : f[x] = e[x]
  PROVE  /\ SumFunctionOnSet(f, J) \in Int
         /\ SumFunctionOnSet(e, I) = SumFunctionOnSet(f, J) + e[y]
<1>1. J \subseteq I /\ IsFiniteSet(J) /\ J \in SUBSET I /\ I \in SUBSET I /\ J \in SUBSET J
  BY FS_Subset
<1>2. \A x \in J : f[x] \in Int
  BY <1>1
<1>3. \A x \in J : e[x] = f[x]
  OBVIOUS
<1>4. PICK g \in [SUBSET I -> Int] : Adds(g, e, I) /\ SumFunctionOnSet(e, I) = g[I]
  BY SumIsIts
<1>5. PICK h \in [SUBSET J -> Int] : Adds(h, f, J) /\ SumFunctionOnSet(f, J) = h[J]
  BY <1>1, <1>2, SumIsIts
<1>6. \A s \in SUBSET J : g[s] = h[s]
  BY <1>1, <1>3, <1>4, <1>5, SumsAgree
<1>7. \A s \in SUBSET I : \A x \in s : g[s] = e[x] + g[s \ {x}]
  <2>1. Ints(e, I)
    BY DEF Ints
  <2>2. Commutes(g, e, I)
    BY <1>4, <2>1, SumsCommute
  <2> QED
    BY <2>2 DEF Commutes
<1>8. g[I] = e[y] + g[J] /\ g[J] = h[J] /\ h[J] \in Int /\ e[y] \in Int
  BY <1>1, <1>6, <1>7
<1> QED
  BY <1>4, <1>5, <1>8

\* A sum over a sequence grows by what is appended.
LEMMA SumOfAppended ==
  ASSUME NEW n \in Nat, NEW f, NEW e, \A k \in 1..(n + 1) : e[k] \in Int,
         \A k \in 1..n : f[k] = e[k]
  PROVE  /\ SumFunctionOnSet(f, 1..n) \in Int
         /\ SumFunctionOnSet(e, 1..(n + 1)) = SumFunctionOnSet(f, 1..n) + e[n + 1]
<1>1. IsFiniteSet(1..(n + 1))
  BY FS_Interval
<1>0. n + 1 \in 1..(n + 1) /\ 1..n = (1..(n + 1)) \ {n + 1}
  OBVIOUS
<1> DEFINE I == 1..(n + 1)
           J == 1..n
           y == n + 1
<1>2. IsFiniteSet(I) /\ y \in I /\ J = I \ {y}
  BY <1>0, <1>1
<1>3. \A x \in I : e[x] \in Int
  OBVIOUS
<1>4. \A x \in J : f[x] = e[x]
  OBVIOUS
<1> HIDE DEF I, J, y
<1>5. /\ SumFunctionOnSet(f, J) \in Int
      /\ SumFunctionOnSet(e, I) = SumFunctionOnSet(f, J) + e[y]
  BY <1>2, <1>3, <1>4, SumOfOneMore
<1> QED
  BY <1>5 DEF I, J, y

\* Sums of the same integers over the same set are the same.
LEMMA SumOfEqual ==
  ASSUME NEW I, IsFiniteSet(I), NEW f, NEW e, \A x \in I : f[x] \in Int /\ e[x] = f[x]
  PROVE  SumFunctionOnSet(e, I) = SumFunctionOnSet(f, I)
<1>1. PICK g \in [SUBSET I -> Int] : Adds(g, f, I) /\ SumFunctionOnSet(f, I) = g[I]
  BY SumIsIts
<1>2. PICK h \in [SUBSET I -> Int] : Adds(h, e, I) /\ SumFunctionOnSet(e, I) = h[I]
  <2>1. \A x \in I : e[x] \in Int
    OBVIOUS
  <2> QED
    BY <2>1, SumIsIts
<1>3. \A x \in I : f[x] = e[x]
  OBVIOUS
<1>4. I \subseteq I /\ I \in SUBSET I
  OBVIOUS
<1>5. \A s \in SUBSET I : g[s] = h[s]
  BY <1>1, <1>2, <1>3, <1>4, SumsAgree
<1> QED
  BY <1>1, <1>2, <1>4, <1>5

\* Of naturals, fewer add up to no more.
LEMMA SumOfFewer ==
  ASSUME NEW I, IsFiniteSet(I), NEW f, \A x \in I : f[x] \in Nat, NEW J, J \subseteq I
  PROVE  SumFunctionOnSet(f, J) <= SumFunctionOnSet(f, I)
<1> DEFINE S(t) == SumFunctionOnSet(f, t)
           X == {t \in SUBSET I : J \subseteq t /\ ~(S(J) <= S(t))}
<1>1. SUFFICES ASSUME X # {} PROVE FALSE
  OBVIOUS
<1>2. PICK t \in X : \A u \in X : u \subseteq t => u = t
  <2>1. X \subseteq SUBSET I
    OBVIOUS
  <2> HIDE DEF X
  <2> QED
    BY <1>1, <2>1, SmallestSubset
<1>3. \A u \in SUBSET I : IsFiniteSet(u) /\ S(u) \in Int
  <2>1. SUFFICES ASSUME NEW u \in SUBSET I PROVE IsFiniteSet(u) /\ S(u) \in Int
    OBVIOUS
  <2>2. IsFiniteSet(u) /\ \A x \in u : f[x] \in Int
    BY FS_Subset
  <2> QED
    BY <2>2, SumIsInt
<1>4. t \in SUBSET I /\ J \subseteq t /\ ~(S(J) <= S(t))
  OBVIOUS
<1>5. t # J
  <2>1. S(J) \in Int
    BY <1>3
  <2> HIDE DEF S
  <2> QED
    BY <1>4, <2>1
<1>6. PICK y \in t : y \notin J
  BY <1>4, <1>5
<1> DEFINE u == t \ {y}
<1>7. u \in SUBSET I /\ J \subseteq u /\ u \subseteq t /\ u # t
  BY <1>4, <1>6
<1>8. S(J) <= S(u)
  BY <1>2, <1>7
<1>9. S(t) = S(u) + f[y]
  <2>1. IsFiniteSet(t) /\ \A x \in t : f[x] \in Int
    BY <1>3, <1>4
  <2>2. \A x \in u : f[x] = f[x]
    OBVIOUS
  <2> HIDE DEF u
  <2>3. u = t \ {y}
    BY DEF u
  <2> QED
    BY <1>6, <2>1, <2>2, <2>3, SumOfOneMore
<1>10. S(J) \in Int /\ S(u) \in Int /\ S(t) \in Int /\ f[y] \in Nat
  BY <1>3, <1>4, <1>7
<1> HIDE DEF S, u
<1> QED
  BY <1>4, <1>8, <1>9, <1>10

\* What is no more, element by element and nothing where the other has none, adds
\* up to no more.
LEMMA SumOfCovered ==
  ASSUME NEW I, IsFiniteSet(I), NEW J, J \subseteq I, NEW f, NEW e,
         \A x \in I : f[x] \in Int, \A x \in J : e[x] \in Int /\ f[x] <= e[x],
         \A x \in I \ J : f[x] <= 0
  PROVE  SumFunctionOnSet(f, I) <= SumFunctionOnSet(e, J)
<1> DEFINE F(t) == SumFunctionOnSet(f, t)
           E(t) == SumFunctionOnSet(e, t)
           X == {t \in SUBSET I : ~(F(t) <= E(t \intersect J))}
<1>1. SUFFICES ASSUME X # {} PROVE FALSE
  <2>1. I \in SUBSET I /\ I \intersect J = J
    OBVIOUS
  <2> HIDE DEF F, E
  <2>2. F(I) <= E(I \intersect J)
    BY <2>1
  <2> QED
    BY <2>1, <2>2 DEF F, E
<1>2. PICK t \in X : \A u \in X : u \subseteq t => u = t
  <2>1. X \subseteq SUBSET I
    OBVIOUS
  <2> HIDE DEF X
  <2> QED
    BY <1>1, <2>1, SmallestSubset
<1>3. t \in SUBSET I /\ ~(F(t) <= E(t \intersect J))
  OBVIOUS
<1>4. t # {}
  <2>1. SUFFICES ASSUME t = {} PROVE FALSE
    OBVIOUS
  <2>2. F({}) = 0 /\ E({}) = 0
    BY SumOfNone
  <2>3. t \intersect J = {}
    BY <2>1
  <2> HIDE DEF F, E
  <2> QED
    BY <1>3, <2>1, <2>2, <2>3
<1>5. PICK y \in t : TRUE
  BY <1>4
<1> DEFINE u == t \ {y}
<1>6. u \in SUBSET I /\ u \subseteq t /\ u # t /\ y \in I /\ IsFiniteSet(t)
  BY <1>3, <1>5, FS_Subset
<1>7. F(u) <= E(u \intersect J)
  BY <1>2, <1>6
<1>8. F(u) \in Int /\ F(t) = F(u) + f[y]
  <2>1. u = t \ {y} /\ (\A x \in t : f[x] \in Int) /\ (\A x \in u : f[x] = f[x])
    BY <1>3
  <2> HIDE DEF u
  <2> QED
    BY <1>5, <1>6, <2>1, SumOfOneMore
<1>9. CASE y \in J
  <2> DEFINE T == t \intersect J
             V == u \intersect J
  <2>1. IsFiniteSet(T) /\ y \in T /\ V = T \ {y} /\ (\A x \in T : e[x] \in Int)
        /\ (\A x \in V : e[x] = e[x])
    BY <1>5, <1>6, <1>9, FS_Subset
  <2> HIDE DEF T, V, u
  <2>2. E(V) \in Int /\ E(T) = E(V) + e[y]
    BY <2>1, SumOfOneMore
  <2>3. f[y] <= e[y] /\ f[y] \in Int /\ e[y] \in Int
    BY <1>6, <1>9
  <2>4. F(u) <= E(V) /\ ~(F(t) <= E(T))
    BY <1>3, <1>7 DEF T, V
  <2> HIDE DEF E, F
  <2> QED
    BY <1>8, <2>2, <2>3, <2>4
<1>10. CASE y \notin J
  <2>1. t \intersect J = u \intersect J /\ IsFiniteSet(u \intersect J)
        /\ \A x \in u \intersect J : e[x] \in Int
    BY <1>6, <1>10, FS_Subset
  <2>2. E(u \intersect J) \in Int
    BY <2>1, SumIsInt
  <2>3. f[y] <= 0 /\ f[y] \in Int
    BY <1>6, <1>10
  <2>4. ~(F(t) <= E(u \intersect J))
    BY <1>3, <2>1
  <2> HIDE DEF E, F, u
  <2> QED
    BY <1>7, <1>8, <2>2, <2>3, <2>4
<1> QED
  BY <1>9, <1>10

\* And so with an allowance for each element.
LEMMA SumWithAllowance ==
  ASSUME NEW I, IsFiniteSet(I), NEW c \in Nat, NEW e, NEW k, NEW w,
         \A x \in I : e[x] \in Int /\ k[x] \in Int /\ w[x] \in Int,
         \A x \in I : c * e[x] <= c * k[x] + w[x]
  PROVE  c * SumFunctionOnSet(e, I) <= c * SumFunctionOnSet(k, I) + SumFunctionOnSet(w, I)
<1> DEFINE E(t) == SumFunctionOnSet(e, t)
           K(t) == SumFunctionOnSet(k, t)
           W(t) == SumFunctionOnSet(w, t)
           X == {t \in SUBSET I : ~(c * E(t) <= c * K(t) + W(t))}
<1>1. SUFFICES ASSUME X # {} PROVE FALSE
  <2> HIDE DEF E, K, W
  <2>1. c * E(I) <= c * K(I) + W(I)
    OBVIOUS
  <2> QED
    BY <2>1 DEF E, K, W
<1>2. PICK t \in X : \A u \in X : u \subseteq t => u = t
  <2>1. X \subseteq SUBSET I
    OBVIOUS
  <2> HIDE DEF X
  <2> QED
    BY <1>1, <2>1, SmallestSubset
<1>3. t \in SUBSET I /\ ~(c * E(t) <= c * K(t) + W(t))
  OBVIOUS
<1>4. t # {}
  <2>1. SUFFICES ASSUME t = {} PROVE FALSE
    OBVIOUS
  <2>2. E({}) = 0 /\ K({}) = 0 /\ W({}) = 0
    BY SumOfNone
  <2> HIDE DEF E, K, W
  <2>3. c * E(t) = 0 /\ c * K(t) = 0 /\ W(t) = 0
    BY <2>1, <2>2
  <2> QED
    BY <1>3, <2>3
<1>5. PICK y \in t : TRUE
  BY <1>4
<1> DEFINE u == t \ {y}
<1>6. u \in SUBSET I /\ u \subseteq t /\ u # t /\ y \in I /\ IsFiniteSet(t) /\ u = t \ {y}
  BY <1>3, <1>5, FS_Subset
<1>7. c * E(u) <= c * K(u) + W(u)
  BY <1>2, <1>6
<1>8. \A x \in t : e[x] \in Int /\ k[x] \in Int /\ w[x] \in Int
  BY <1>3
<1> HIDE DEF u
<1>9. /\ E(u) \in Int /\ E(t) = E(u) + e[y]
      /\ K(u) \in Int /\ K(t) = K(u) + k[y]
      /\ W(u) \in Int /\ W(t) = W(u) + w[y]
  <2>1. (\A x \in u : e[x] = e[x]) /\ (\A x \in u : k[x] = k[x]) /\ (\A x \in u : w[x] = w[x])
    OBVIOUS
  <2> QED
    BY <1>5, <1>6, <1>8, <2>1, SumOfOneMore
<1>10. c * e[y] <= c * k[y] + w[y] /\ e[y] \in Int /\ k[y] \in Int /\ w[y] \in Int
  BY <1>6
<1> HIDE DEF E, K, W
<1>11. \A x, z \in Int : c * (x + z) = c * x + c * z /\ c * x \in Int
  OBVIOUS
<1>12. c * E(t) = c * E(u) + c * e[y] /\ c * K(t) = c * K(u) + c * k[y]
  BY <1>9, <1>10, <1>11
<1>13. c * E(u) \in Int /\ c * K(u) \in Int /\ c * e[y] \in Int /\ c * k[y] \in Int
  BY <1>9, <1>10, <1>11
<1> DEFINE p == c * E(u)
           q == c * K(u)
           r == c * e[y]
           s == c * k[y]
           v == W(u)
           z == w[y]
<1>14. ~(p + r <= q + s + (v + z)) /\ p <= q + v /\ r <= s + z
       /\ p \in Int /\ q \in Int /\ r \in Int /\ s \in Int /\ v \in Int /\ z \in Int
  BY <1>3, <1>7, <1>9, <1>10, <1>12, <1>13
<1> HIDE DEF p, q, r, s, v, z
<1> QED
  BY <1>14
=============================================================================
