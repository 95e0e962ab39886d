------------------------------ MODULE ArithmeticLemmas ---------------------------
(***************************************************************************)
(* Arithmetic that the proofs about weights and scores rest on: induction  *)
(* on the numbers and on the subsets of a finite set, stated for sets so   *)
(* that the provers can use it, sums over finite sets, products, quotients *)
(* and searches upwards through the numbers.                               *)
(*                                                                         *)
(* The sum of the community modules is a recursive function on the subsets *)
(* of its set.  That the recursion has one solution is shown here; what is *)
(* known of sums follows by taking out one summand at a time.              *)
(***************************************************************************)
EXTENDS Functions, FiniteSetTheorems, WellFoundedInduction, TLAPS

\* The sum takes out the element CHOOSE picks, and goes on with the rest.
Pick(s) == CHOOSE x \in s : TRUE
PeelsOn(g, f, D) == g = [s \in D |-> IF s = {} THEN 0 ELSE f[Pick(s)] + g[s \ {Pick(s)}]]
IsPeeling(g, f, S) == PeelsOn(g, f, SUBSET S)
Peeling(f, S) == CHOOSE g : IsPeeling(g, f, S)

\* The community modules' sum is this recursion.
LEMMA SumIsPeeling ==
    ASSUME NEW f, NEW S
    PROVE  SumFunctionOnSet(f, S) = Peeling(f, S)[S]
  BY DEF SumFunctionOnSet, FoldFunctionOnSet, MapThenFoldSet, Peeling, IsPeeling, PeelsOn, Pick

\* A set of numbers has a least one.
LEMMA LeastNumber ==
    ASSUME NEW S \in SUBSET Nat, S # {}
    PROVE  \E m \in S : \A k \in S : m <= k
<1>. DEFINE R == OpToRel(<, Nat)
<1>1. IsWellFoundedOn(R, Nat)
  BY Zenon, NatLessThanWellFounded
<1>2. PICK m \in S : \A k \in S : ~(<<k, m>> \in R)
  <2>. HIDE DEF R
  <2>. QED  BY Zenon, <1>1, WFMin
<1>3. \A k \in S : ~(k < m)
  BY Zenon, <1>2 DEF OpToRel
<1>. QED  BY <1>3

\* Induction on the numbers.
LEMMA NatSetInduction ==
    ASSUME NEW S, 0 \in S, \A n \in Nat : n \in S => n + 1 \in S
    PROVE  \A n \in Nat : n \in S
<1>. DEFINE T == {n \in Nat : n \notin S}
<1>. SUFFICES ASSUME T # {} PROVE FALSE
  OBVIOUS
<1>1. PICK m \in T : \A k \in T : m <= k
  <2>. T \in SUBSET Nat
    OBVIOUS
  <2>. HIDE DEF T
  <2>. QED  BY LeastNumber
<1>2. m # 0 /\ m - 1 \in Nat
  OBVIOUS
<1>3. m - 1 \in S
  BY <1>1, <1>2
<1>. QED  BY <1>2, <1>3

\* Induction on the size of the subsets of a finite set.
LEMMA SubsetInduction ==
    ASSUME NEW S, IsFiniteSet(S), NEW Q,
           \A T \in SUBSET S :
              (\A x \in T : T \ {x} \in Q) => T \in Q
    PROVE  \A T \in SUBSET S : T \in Q
<1>. DEFINE N == {n \in Nat : \A T \in SUBSET S : Cardinality(T) = n => T \in Q}
<1>1. 0 \in N
  <2>. SUFFICES ASSUME NEW T \in SUBSET S, Cardinality(T) = 0 PROVE T \in Q
    OBVIOUS
  <2>1. IsFiniteSet(T)
    BY FS_Subset
  <2>2. T = {}
    BY <2>1, FS_EmptySet
  <2>. QED  BY <2>2
<1>2. ASSUME NEW n \in Nat, n \in N PROVE n + 1 \in N
  <2>. SUFFICES ASSUME NEW T \in SUBSET S, Cardinality(T) = n + 1 PROVE T \in Q
    OBVIOUS
  <2>1. IsFiniteSet(T)
    BY FS_Subset
  <2>2. ASSUME NEW x \in T PROVE T \ {x} \in Q
    <3>1. Cardinality(T \ {x}) = Cardinality(T) - 1
      BY Zenon, <2>1, FS_RemoveElement
    <3>2. Cardinality(T \ {x}) = n
      BY <3>1
    <3>. QED  BY <1>2, <3>2
  <2>. QED  BY <2>2
<1>3. \A n \in Nat : n \in N
  <2>. HIDE DEF N
  <2>. QED  BY <1>1, <1>2, NatSetInduction
<1>. SUFFICES ASSUME NEW T \in SUBSET S PROVE T \in Q
  OBVIOUS
<1>4. Cardinality(T) \in Nat
  BY FS_Subset, FS_CardinalityType
<1>. QED  BY <1>3, <1>4

\* What is picked is a member.
LEMMA PickIn ==
    ASSUME NEW s, s # {}
    PROVE  Pick(s) \in s
  BY DEF Pick

\* The recursion exists: build it up by the size of the sets.
LEMMA PeelingExists ==
    ASSUME NEW f, NEW S, IsFiniteSet(S)
    PROVE  IsPeeling(Peeling(f, S), f, S)
<1>. DEFINE D(n) == {s \in SUBSET S : Cardinality(s) <= n}
            N == {n \in Nat : \E g : PeelsOn(g, f, D(n))}
            Step(g, s) == IF s = {} THEN 0 ELSE f[Pick(s)] + g[s \ {Pick(s)}]
<1>0. \A s \in SUBSET S : IsFiniteSet(s) /\ Cardinality(s) \in Nat
  BY FS_Subset, FS_CardinalityType
<1>1. 0 \in N
  <2>. DEFINE g == [s \in D(0) |-> 0]
  <2>1. \A s \in D(0) : s = {}
    <3>. SUFFICES ASSUME NEW s \in D(0) PROVE s = {}
      OBVIOUS
    <3>1. Cardinality(s) = 0
      BY <1>0
    <3>. QED  BY <1>0, <3>1, FS_EmptySet
  <2>2. g = [s \in D(0) |-> Step(g, s)]
    BY <2>1
  <2>. QED  BY Zenon, <2>2 DEF IsPeeling, PeelsOn
<1>2. ASSUME NEW n \in Nat, n \in N PROVE n + 1 \in N
  <2>1. PICK g : g = [s \in D(n) |-> Step(g, s)]
    BY Zenon, <1>2 DEF IsPeeling, PeelsOn
  <2>. DEFINE h == [s \in D(n + 1) |-> Step(g, s)]
  <2>2. ASSUME NEW s \in D(n + 1), s # {}
        PROVE  h[s \ {Pick(s)}] = g[s \ {Pick(s)}]
    <3>. DEFINE t == s \ {Pick(s)}
    <3>1. Cardinality(t) = Cardinality(s) - 1 /\ t \in SUBSET S
      BY <1>0, <2>2, PickIn, FS_RemoveElement
    <3>2. t \in D(n) /\ t \in D(n + 1)
      BY <1>0, <3>1
    <3>. HIDE DEF t, D
    <3>3. g[t] = Step(g, t)
      BY Zenon, <2>1, <3>2
    <3>4. h[t] = Step(g, t)
      BY <3>2
    <3>. QED  BY <3>3, <3>4 DEF t
  <2>3. \A s \in D(n + 1) : Step(g, s) = Step(h, s)
    <3>. HIDE DEF D, h
    <3>. QED  BY <2>2
  <2>4. h = [s \in D(n + 1) |-> Step(h, s)]
    <3>. HIDE DEF D, Step
    <3>. QED  BY <2>3
  <2>5. PeelsOn(h, f, D(n + 1))
    BY Zenon, <2>4 DEF IsPeeling, PeelsOn
  <2>. HIDE DEF h, D
  <2>. QED  BY <2>5
<1>3. Cardinality(S) \in N
  <2>. HIDE DEF N
  <2>1. \A n \in Nat : n \in N
    BY <1>1, <1>2, NatSetInduction
  <2>. QED  BY <2>1, FS_CardinalityType
<1>4. D(Cardinality(S)) = SUBSET S
  BY FS_Subset
<1>. QED  BY Zenon, <1>3, <1>4 DEF Peeling, IsPeeling

\* Two recursions agree on what both are defined on.
LEMMA PeelingUnique ==
    ASSUME NEW f, NEW S, IsFiniteSet(S), NEW U, U \subseteq S, NEW g, NEW h,
           IsPeeling(g, f, S), IsPeeling(h, f, U)
    PROVE  g[U] = h[U]
<1>. DEFINE Q == {T \in SUBSET U : g[T] = h[T]}
<1>1. IsFiniteSet(U)
  BY FS_Subset
<1>2. ASSUME NEW T \in SUBSET U, \A x \in T : T \ {x} \in Q PROVE T \in Q
  <2>1. /\ g[T] = IF T = {} THEN 0 ELSE f[Pick(T)] + g[T \ {Pick(T)}]
        /\ h[T] = IF T = {} THEN 0 ELSE f[Pick(T)] + h[T \ {Pick(T)}]
    BY Zenon DEF IsPeeling, PeelsOn
  <2>2. T # {} => g[T \ {Pick(T)}] = h[T \ {Pick(T)}]
    BY <1>2, PickIn
  <2>. QED  BY <2>1, <2>2
<1>3. \A T \in SUBSET U : T \in Q
  <2>. HIDE DEF Q
  <2>. QED  BY Zenon, <1>1, <1>2, SubsetInduction
<1>. QED  BY <1>3

\* The sum takes out the element it picks.
LEMMA SumPeels ==
    ASSUME NEW f, NEW S, IsFiniteSet(S)
    PROVE  SumFunctionOnSet(f, S)
             = IF S = {} THEN 0
               ELSE f[Pick(S)] + SumFunctionOnSet(f, S \ {Pick(S)})
<1>. DEFINE U == S \ {Pick(S)}
            g == Peeling(f, S)
            h == Peeling(f, U)
<1>1. U \in SUBSET S /\ IsFiniteSet(U)
  BY FS_Subset
<1>2. IsPeeling(g, f, S) /\ IsPeeling(h, f, U)
  BY <1>1, PeelingExists
<1>3. g[U] = h[U]
  <2>. HIDE DEF U, g, h
  <2>. QED  BY <1>1, <1>2, PeelingUnique
<1>4. g[S] = IF S = {} THEN 0 ELSE f[Pick(S)] + g[U]
  <2>. HIDE DEF g
  <2>. QED  BY Zenon, <1>2 DEF IsPeeling, PeelsOn
<1>. QED  BY <1>3, <1>4, SumIsPeeling

\* Nothing sums to 0.
LEMMA SumOfNothing ==
    ASSUME NEW f
    PROVE  SumFunctionOnSet(f, {}) = 0
<1>1. IsFiniteSet({})
  BY FS_EmptySet
<1>. QED  BY <1>1, SumPeels

\* A sum of integers is an integer.
LEMMA SumOfIntegersType ==
    ASSUME NEW S, IsFiniteSet(S), NEW f, \A x \in S : f[x] \in Int
    PROVE  \A T \in SUBSET S : SumFunctionOnSet(f, T) \in Int
<1>. DEFINE Q == {T \in SUBSET S : SumFunctionOnSet(f, T) \in Int}
<1>1. ASSUME NEW T \in SUBSET S, \A x \in T : T \ {x} \in Q PROVE T \in Q
  <2>1. CASE T = {}
    BY <2>1, SumOfNothing
  <2>2. CASE T # {}
    <3>1. IsFiniteSet(T) /\ Pick(T) \in T
      BY <2>2, FS_Subset, PickIn
    <3>2. SumFunctionOnSet(f, T) = f[Pick(T)] + SumFunctionOnSet(f, T \ {Pick(T)})
      BY <2>2, <3>1, SumPeels
    <3>3. SumFunctionOnSet(f, T \ {Pick(T)}) \in Int
      BY <1>1, <3>1
    <3>. QED  BY <3>1, <3>2, <3>3
  <2>. QED  BY <2>1, <2>2
<1>2. \A T \in SUBSET S : T \in Q
  <2>. HIDE DEF Q
  <2>. QED  BY Zenon, <1>1, SubsetInduction
<1>. QED  BY <1>2

\* Any element may be taken out of a sum of integers.
LEMMA SumTakesOut ==
    ASSUME NEW S, IsFiniteSet(S), NEW f, \A x \in S : f[x] \in Int
    PROVE  \A y \in S :
              SumFunctionOnSet(f, S) = f[y] + SumFunctionOnSet(f, S \ {y})
<1>. DEFINE Sum(T) == SumFunctionOnSet(f, T)
            Q == {T \in SUBSET S : \A y \in T : Sum(T) = f[y] + Sum(T \ {y})}
<1>0. \A T \in SUBSET S : Sum(T) \in Int
  BY SumOfIntegersType
<1>1. ASSUME NEW T \in SUBSET S, \A x \in T : T \ {x} \in Q PROVE T \in Q
  <2>. SUFFICES ASSUME NEW y \in T PROVE Sum(T) = f[y] + Sum(T \ {y})
    OBVIOUS
  <2>. DEFINE p == Pick(T)
  <2>1. p \in T /\ Sum(T) = f[p] + Sum(T \ {p})
    <3>1. IsFiniteSet(T) /\ T # {}
      BY FS_Subset
    <3>. QED  BY <3>1, SumPeels, PickIn
  <2>. HIDE DEF p, Sum
  <2>2. CASE y = p
    BY <2>1, <2>2
  <2>3. CASE y # p
    <3>1. y \in T \ {p} /\ p \in T \ {y}
      BY <2>1, <2>3
    <3>2. Sum(T \ {p}) = f[y] + Sum((T \ {p}) \ {y})
      BY <1>1, <2>1, <3>1
    <3>3. Sum(T \ {y}) = f[p] + Sum((T \ {y}) \ {p})
      BY <1>1, <3>1
    <3>4. (T \ {p}) \ {y} = (T \ {y}) \ {p}
      OBVIOUS
    <3>5. Sum((T \ {p}) \ {y}) \in Int /\ f[y] \in Int /\ f[p] \in Int
      BY <1>0, <2>1
    <3>6. Sum(T \ {y}) = f[p] + Sum((T \ {p}) \ {y})
      BY Zenon, <3>3, <3>4
    <3>. QED  BY <2>1, <3>2, <3>5, <3>6
  <2>. QED  BY <2>2, <2>3
<1>2. \A T \in SUBSET S : T \in Q
  <2>. HIDE DEF Q
  <2>. QED  BY Zenon, <1>1, SubsetInduction
<1>. QED  BY <1>2

\* A sum depends only on the summands.
LEMMA SumOfEquals ==
    ASSUME NEW S, IsFiniteSet(S), NEW f, NEW g, \A x \in S : f[x] = g[x]
    PROVE  SumFunctionOnSet(f, S) = SumFunctionOnSet(g, S)
<1>. DEFINE Q == {T \in SUBSET S : SumFunctionOnSet(f, T) = SumFunctionOnSet(g, T)}
<1>1. ASSUME NEW T \in SUBSET S, \A x \in T : T \ {x} \in Q PROVE T \in Q
  <2>1. CASE T = {}
    BY <2>1, SumOfNothing
  <2>2. CASE T # {}
    <3>1. IsFiniteSet(T) /\ Pick(T) \in T
      BY <2>2, FS_Subset, PickIn
    <3>2. /\ SumFunctionOnSet(f, T) = f[Pick(T)] + SumFunctionOnSet(f, T \ {Pick(T)})
          /\ SumFunctionOnSet(g, T) = g[Pick(T)] + SumFunctionOnSet(g, T \ {Pick(T)})
      BY <2>2, <3>1, SumPeels
    <3>3. SumFunctionOnSet(f, T \ {Pick(T)}) = SumFunctionOnSet(g, T \ {Pick(T)})
      BY <1>1, <3>1
    <3>. QED  BY <3>1, <3>2, <3>3
  <2>. QED  BY <2>1, <2>2
<1>2. \A T \in SUBSET S : T \in Q
  <2>. HIDE DEF Q
  <2>. QED  BY Zenon, <1>1, SubsetInduction
<1>. QED  BY <1>2

\* A sum grows with its summands.
LEMMA SumIsMonotonic ==
    ASSUME NEW S, IsFiniteSet(S), NEW f, NEW g,
           \A x \in S : f[x] \in Int /\ g[x] \in Int /\ f[x] <= g[x]
    PROVE  SumFunctionOnSet(f, S) <= SumFunctionOnSet(g, S)
<1>. DEFINE Q == {T \in SUBSET S : SumFunctionOnSet(f, T) <= SumFunctionOnSet(g, T)}
<1>0. \A T \in SUBSET S : SumFunctionOnSet(f, T) \in Int /\ SumFunctionOnSet(g, T) \in Int
  BY SumOfIntegersType
<1>1. ASSUME NEW T \in SUBSET S, \A x \in T : T \ {x} \in Q PROVE T \in Q
  <2>1. CASE T = {}
    BY <2>1, SumOfNothing
  <2>2. CASE T # {}
    <3>1. IsFiniteSet(T) /\ Pick(T) \in T
      BY <2>2, FS_Subset, PickIn
    <3>2. /\ SumFunctionOnSet(f, T) = f[Pick(T)] + SumFunctionOnSet(f, T \ {Pick(T)})
          /\ SumFunctionOnSet(g, T) = g[Pick(T)] + SumFunctionOnSet(g, T \ {Pick(T)})
      BY <2>2, <3>1, SumPeels
    <3>3. SumFunctionOnSet(f, T \ {Pick(T)}) <= SumFunctionOnSet(g, T \ {Pick(T)})
      BY <1>1, <3>1
    <3>4. /\ SumFunctionOnSet(f, T \ {Pick(T)}) \in Int
          /\ SumFunctionOnSet(g, T \ {Pick(T)}) \in Int
      BY <1>0
    <3>. QED  BY <3>1, <3>2, <3>3, <3>4
  <2>. QED  BY <2>1, <2>2
<1>2. \A T \in SUBSET S : T \in Q
  <2>. HIDE DEF Q
  <2>. QED  BY Zenon, <1>1, SubsetInduction
<1>. QED  BY <1>2

\* Natural numbers sum to one, and a part to no more than the whole.
LEMMA SumOfNaturals ==
    ASSUME NEW S, IsFiniteSet(S), NEW f, \A x \in S : f[x] \in Nat
    PROVE  /\ SumFunctionOnSet(f, S) \in Nat
           /\ \A T \in SUBSET S : SumFunctionOnSet(f, T) <= SumFunctionOnSet(f, S)
<1>. DEFINE Sum(T) == SumFunctionOnSet(f, T)
            Q == {T \in SUBSET S : Sum(T) \in Nat
                                   /\ \A U \in SUBSET T : Sum(U) <= Sum(T)}
<1>0. \A T \in SUBSET S : Sum(T) \in Int
  BY SumOfIntegersType
<1>1. ASSUME NEW T \in SUBSET S, \A x \in T : T \ {x} \in Q PROVE T \in Q
  <2>1. \A x \in T : Sum(T) = f[x] + Sum(T \ {x})
    <3>1. IsFiniteSet(T)
      BY FS_Subset
    <3>. QED  BY <3>1, SumTakesOut
  <2>2. Sum({}) = 0
    BY SumOfNothing
  <2>. HIDE DEF Sum
  <2>3. Sum(T) \in Nat
    <3>1. CASE T = {}
      BY <2>2, <3>1
    <3>2. CASE T # {}
      <4>1. PICK x \in T : TRUE
        BY <3>2
      <4>2. Sum(T \ {x}) \in Nat /\ f[x] \in Nat
        BY <1>1
      <4>. QED  BY <2>1, <4>2
    <3>. QED  BY <3>1, <3>2
  <2>4. ASSUME NEW U \in SUBSET T PROVE Sum(U) <= Sum(T)
    <3>1. CASE U = T
      BY <2>3, <3>1
    <3>2. CASE U # T
      <4>1. PICK x \in T : x \notin U
        BY <3>2
      <4>2. Sum(U) <= Sum(T \ {x}) /\ Sum(T \ {x}) \in Nat /\ f[x] \in Nat
        BY <1>1, <4>1
      <4>3. Sum(U) \in Int
        BY <1>0
      <4>. QED  BY <2>1, <4>2, <4>3
    <3>. QED  BY <3>1, <3>2
  <2>. QED  BY <2>3, <2>4
<1>2. \A T \in SUBSET S : T \in Q
  <2>. HIDE DEF Q
  <2>. QED  BY Zenon, <1>1, SubsetInduction
<1>. QED  BY <1>2

-----------------------------------------------------------------------------
(* Products and quotients. *)

\* A product of natural numbers grows with its factors.
LEMMA ProductIsMonotonic ==
    ASSUME NEW a \in Nat, NEW b \in Nat, NEW c \in Nat, a <= b
    PROVE  /\ a * c \in Nat /\ b * c \in Nat /\ c * a \in Nat /\ c * b \in Nat
           /\ a * c <= b * c /\ c * a <= c * b
  BY SMT

\* The quotient is the number of times the divisor fits.
LEMMA QuotientFacts ==
    ASSUME NEW a \in Nat, NEW c \in Nat, c > 0
    PROVE  /\ a \div c \in Nat
           /\ (a \div c) * c \in Nat
           /\ (a \div c) * c <= a
           /\ a < (a \div c) * c + c
  BY SMT

\* A quotient grows with what is divided.
LEMMA QuotientIsMonotonic ==
    ASSUME NEW a \in Nat, NEW b \in Nat, NEW c \in Nat, c > 0, a <= b
    PROVE  a \div c <= b \div c
<1>. DEFINE p == a \div c
            q == b \div c
<1>1. p \in Nat /\ q \in Nat /\ p * c <= a /\ b < q * c + c
  BY QuotientFacts
<1>. HIDE DEF p, q
<1>2. p <= q
  <2>. SUFFICES ASSUME q + 1 <= p PROVE FALSE
    BY <1>1
  <2>1. (q + 1) * c <= p * c /\ (q + 1) * c \in Nat /\ p * c \in Nat
    BY <1>1, ProductIsMonotonic
  <2>2. (q + 1) * c = q * c + c /\ q * c \in Nat
    BY <1>1, SMT
  <2>. QED  BY <1>1, <2>1, <2>2
<1>. QED  BY <1>2 DEF p, q

\* f finds the next member of P from k upwards.
IsSearch(f, P) == f = [k \in Nat |-> IF k \in P THEN k ELSE f[k + 1]]

\* A search upwards through the numbers has one result.
LEMMA SearchFinds ==
    ASSUME NEW P, NEW f, IsSearch(f, P), NEW k \in Nat, \E j \in P : j \in Nat /\ j >= k
    PROVE  f[k] \in Nat /\ f[k] \in P /\ f[k] >= k /\ \A i \in k .. f[k] - 1 : i \notin P
<1>. DEFINE J == {j \in Nat : j >= k /\ j \in P}
<1>1. PICK j \in J : \A i \in J : j <= i
  <2>1. J \in SUBSET Nat /\ J # {}
    OBVIOUS
  <2>. QED  BY Zenon, <2>1, LeastNumber
<1>2. j \in Nat /\ j >= k /\ j \in P
  OBVIOUS
<1>3. \A i \in k .. j - 1 : i \notin P
  BY <1>1
<1>. DEFINE A == {d \in Nat : d <= j - k => f[j - d] = j}
<1>4. \A i \in Nat : f[i] = IF i \in P THEN i ELSE f[i + 1]
  BY DEF IsSearch
<1>5. 0 \in A
  BY <1>2, <1>4
<1>6. ASSUME NEW d \in Nat, d \in A PROVE d + 1 \in A
  <2>. SUFFICES ASSUME d + 1 <= j - k PROVE f[j - (d + 1)] = j
    OBVIOUS
  <2>1. j - (d + 1) \in k .. j - 1 /\ j - (d + 1) \in Nat /\ j - (d + 1) + 1 = j - d
    BY <1>2
  <2>2. f[j - (d + 1)] = f[j - (d + 1) + 1]
    BY <1>3, <1>4, <2>1
  <2>3. f[j - d] = j
    BY <1>2, <1>6
  <2>. QED  BY <2>1, <2>2, <2>3
<1>. HIDE DEF A
<1>7. \A d \in Nat : d \in A
  BY <1>5, <1>6, NatSetInduction
<1>8. f[k] = j
  <2>1. j - k \in Nat /\ j - (j - k) = k
    BY <1>2
  <2>. DEFINE d == j - k
  <2>2. d \in A /\ d <= j - k
    BY <1>2, <1>7, <2>1
  <2>3. f[j - d] = j
    <3>. HIDE DEF d
    <3>. QED  BY <2>2 DEF A
  <2>. QED  BY <2>1, <2>3
<1>. QED  BY <1>2, <1>3, <1>8

\* Such a search exists where it always ends.
LEMMA SearchExists ==
    ASSUME NEW P, \A k \in Nat : \E j \in P : j \in Nat /\ j >= k
    PROVE  \E f : IsSearch(f, P)
<1>. DEFINE Least(k, j) == j \in Nat /\ j >= k /\ j \in P /\ \A i \in k .. j - 1 : i \notin P
            f == [k \in Nat |-> CHOOSE j : Least(k, j)]
<1>1. \A k \in Nat : \E j : Least(k, j)
  <2>. TAKE k \in Nat
  <2>. DEFINE J == {j \in Nat : j >= k /\ j \in P}
  <2>1. J \in SUBSET Nat /\ J # {}
    OBVIOUS
  <2>2. PICK j \in J : \A i \in J : j <= i
    BY Zenon, <2>1, LeastNumber
  <2>. QED  BY <2>2
<1>2. \A k \in Nat : Least(k, f[k])
  BY <1>1
<1>3. \A k \in Nat : \A j : Least(k, j) => j = f[k]
  <2>. TAKE k \in Nat
  <2>. TAKE j
  <2>. HAVE Least(k, j)
  <2>1. Least(k, f[k])
    BY <1>2
  <2>. HIDE DEF f
  <2>. QED  BY <2>1
<1>. HIDE DEF f
<1>4. \A k \in Nat : f[k] = IF k \in P THEN k ELSE f[k + 1]
  <2>. TAKE k \in Nat
  <2>1. CASE k \in P
    <3>1. Least(k, k)
      BY <2>1
    <3>. QED  BY <1>3, <2>1, <3>1
  <2>2. CASE k \notin P
    <3>1. k + 1 \in Nat
      OBVIOUS
    <3>2. Least(k + 1, f[k + 1])
      BY <1>2, <3>1
    <3>3. Least(k, f[k + 1])
      BY <2>2, <3>2
    <3>. QED  BY <1>3, <2>2, <3>3
  <2>. QED  BY <2>1, <2>2
<1>5. f = [k \in Nat |-> f[k]]
  BY DEF f
<1>6. IsSearch(f, P)
  BY <1>4, <1>5 DEF IsSearch
<1>. QED  BY <1>6

\* The step by which the multiples of a larger base outgrow a smaller one's.
LEMMA GrowthStep ==
    ASSUME NEW n \in Nat, NEW d \in Nat, n < d, NEW j \in Nat, NEW x \in Nat, NEW y \in Nat,
           (j + n) * x <= n * y
    PROVE  (j + 1 + n) * (n * x) <= n * (d * y)
<1>1. (j + 1 + n) * (n * x) <= (n + 1) * ((j + n) * x)
  OBVIOUS
<1>2. (n + 1) * ((j + n) * x) <= (n + 1) * (n * y)
  OBVIOUS
<1>3. (n + 1) * (n * y) <= d * (n * y)
  OBVIOUS
<1>4. d * (n * y) = n * (d * y)
  OBVIOUS
<1>5. /\ (j + 1 + n) * (n * x) \in Int /\ (n + 1) * ((j + n) * x) \in Int
      /\ (n + 1) * (n * y) \in Int /\ d * (n * y) \in Int
  OBVIOUS
<1>. QED  BY <1>1, <1>2, <1>3, <1>4, <1>5

\* A set of one element has one.
LEMMA OneIsThere ==
    ASSUME NEW S, Cardinality(S) = 1
    PROVE  \E x : x \in S
<1>1. Cardinality({}) = 0
  BY FS_EmptySet
<1>2. S # {}
  BY <1>1
<1>. QED  BY <1>2

\* The image of a finite set is finite.
LEMMA FiniteImage ==
    ASSUME NEW S, IsFiniteSet(S), NEW f, f = [x \in S |-> f[x]]
    PROVE  IsFiniteSet({f[x] : x \in S})
<1>. DEFINE T == {f[x] : x \in S}
<1>1. f \in Surjection(S, T)
  BY DEF Surjection
<1>. HIDE DEF T
<1>2. IsFiniteSet(T)
  BY <1>1, FS_Surjection
<1>. QED  BY <1>2 DEF T

\* A bounded set of numbers has a greatest one.
LEMMA GreatestNumber ==
    ASSUME NEW S \in SUBSET Nat, S # {}, NEW b \in Nat, \A k \in S : k <= b
    PROVE  \E m \in S : \A k \in S : k <= m
<1>. DEFINE R == {b - k : k \in S}
<1>1. R \in SUBSET Nat
  OBVIOUS
<1>2. R # {}
  OBVIOUS
<1>3. PICK r \in R : \A k \in R : r <= k
  <2>. HIDE DEF R
  <2>. QED  BY Zenon, <1>1, <1>2, LeastNumber
<1>4. PICK m \in S : r = b - m
  OBVIOUS
<1>5. ASSUME NEW k \in S PROVE k <= m
  <2>1. r <= b - k
    BY <1>3
  <2>. QED  BY <1>4, <2>1
<1>. QED  BY <1>5

\* The sum of two sums.
LEMMA SumAdds ==
    ASSUME NEW S, IsFiniteSet(S), NEW f, NEW g, NEW h,
           \A x \in S : f[x] = g[x] + h[x] /\ g[x] \in Int /\ h[x] \in Int
    PROVE  SumFunctionOnSet(f, S) = SumFunctionOnSet(g, S) + SumFunctionOnSet(h, S)
<1>. DEFINE F(T) == SumFunctionOnSet(f, T)
            G(T) == SumFunctionOnSet(g, T)
            H(T) == SumFunctionOnSet(h, T)
            Q == {T \in SUBSET S : F(T) = G(T) + H(T)}
<1>0. \A T \in SUBSET S : G(T) \in Int /\ H(T) \in Int
  BY SumOfIntegersType
<1>1. ASSUME NEW T \in SUBSET S, \A x \in T : T \ {x} \in Q PROVE T \in Q
  <2>1. CASE T = {}
    BY <2>1, SumOfNothing
  <2>2. CASE T # {}
    <3>. DEFINE p == Pick(T)
    <3>1. IsFiniteSet(T) /\ p \in T
      BY <2>2, FS_Subset, PickIn
    <3>2. F(T) = f[p] + F(T \ {p}) /\ G(T) = g[p] + G(T \ {p}) /\ H(T) = h[p] + H(T \ {p})
      BY <2>2, <3>1, SumPeels
    <3>3. F(T \ {p}) = G(T \ {p}) + H(T \ {p})
      BY <1>1, <3>1
    <3>4. G(T \ {p}) \in Int /\ H(T \ {p}) \in Int
      BY <1>0
    <3>5. f[p] = g[p] + h[p] /\ g[p] \in Int /\ h[p] \in Int
      BY <3>1
    <3>. HIDE DEF F, G, H, p
    <3>6. F(T) = G(T) + H(T)
      BY <3>2, <3>3, <3>4, <3>5
    <3>. QED  BY <3>6
  <2>. QED  BY <2>1, <2>2
<1>2. \A T \in SUBSET S : T \in Q
  <2>. HIDE DEF Q
  <2>. QED  BY Zenon, <1>1, SubsetInduction
<1>. QED  BY <1>2

\* A sum over two sets that do not meet.
LEMMA SumOverDisjoint ==
    ASSUME NEW A, IsFiniteSet(A), NEW B, IsFiniteSet(B), A \cap B = {},
           NEW f, \A x \in A \cup B : f[x] \in Int
    PROVE  SumFunctionOnSet(f, A \cup B) = SumFunctionOnSet(f, A) + SumFunctionOnSet(f, B)
<1>. DEFINE F(T) == SumFunctionOnSet(f, T)
            Q == {T \in SUBSET B : F(A \cup T) = F(A) + F(T)}
<1>0. IsFiniteSet(A \cup B)
  BY FS_Union
<1>1. \A T \in SUBSET (A \cup B) : F(T) \in Int
  BY <1>0, SumOfIntegersType
<1>2. ASSUME NEW T \in SUBSET B, \A x \in T : T \ {x} \in Q PROVE T \in Q
  <2>1. CASE T = {}
    <3>1. A \cup T = A /\ F(T) = 0 /\ F(A) \in Int
      BY <1>1, <2>1, SumOfNothing
    <3>. QED  BY <3>1
  <2>2. CASE T # {}
    <3>1. PICK p : p \in T
      BY <2>2
    <3>2. IsFiniteSet(A \cup T) /\ IsFiniteSet(T)
      BY <1>0, FS_Subset
    <3>3. F(T) = f[p] + F(T \ {p})
      BY <3>1, <3>2, SumTakesOut
    <3>4. F(A \cup T) = f[p] + F((A \cup T) \ {p})
      <4>1. \A x \in A \cup T : f[x] \in Int
        OBVIOUS
      <4>2. p \in A \cup T
        BY <3>1
      <4>. QED  BY Zenon, <3>2, <4>1, <4>2, SumTakesOut
    <3>5. (A \cup T) \ {p} = A \cup (T \ {p})
      BY <3>1
    <3>6. F(A \cup (T \ {p})) = F(A) + F(T \ {p})
      BY <1>2, <3>1
    <3>7. F(A) \in Int /\ F(T \ {p}) \in Int /\ f[p] \in Int
      BY <1>1, <3>1
    <3>8. F(A \cup T) = f[p] + F(A \cup (T \ {p}))
      BY Zenon, <3>4, <3>5
    <3>. HIDE DEF F
    <3>9. F(A \cup T) = F(A) + F(T)
      BY <3>3, <3>6, <3>7, <3>8
    <3>. QED  BY <3>9
  <2>. QED  BY <2>1, <2>2
<1>3. \A T \in SUBSET B : T \in Q
  <2>. HIDE DEF Q
  <2>. QED  BY Zenon, <1>2, SubsetInduction
<1>. QED  BY <1>3

\* Summands that are 0 may be left out.
LEMMA SumDropsZeros ==
    ASSUME NEW S, IsFiniteSet(S), NEW T \in SUBSET S, NEW f,
           \A x \in T : f[x] \in Int, \A x \in S \ T : f[x] = 0
    PROVE  SumFunctionOnSet(f, S) = SumFunctionOnSet(f, T)
<1>. DEFINE F(U) == SumFunctionOnSet(f, U)
            Q == {U \in SUBSET (S \ T) : F(U) = 0}
<1>1. IsFiniteSet(S \ T) /\ IsFiniteSet(T)
  BY FS_Subset
<1>2. ASSUME NEW U \in SUBSET (S \ T), \A x \in U : U \ {x} \in Q PROVE U \in Q
  <2>1. CASE U = {}
    BY <2>1, SumOfNothing
  <2>2. CASE U # {}
    <3>1. IsFiniteSet(U) /\ Pick(U) \in U
      BY <1>1, <2>2, FS_Subset, PickIn
    <3>2. F(U) = f[Pick(U)] + F(U \ {Pick(U)})
      BY <2>2, <3>1, SumPeels
    <3>3. F(U \ {Pick(U)}) = 0 /\ f[Pick(U)] = 0
      BY <1>2, <3>1
    <3>. QED  BY <3>2, <3>3
  <2>. QED  BY <2>1, <2>2
<1>3. \A U \in SUBSET (S \ T) : U \in Q
  <2>. HIDE DEF Q
  <2>. QED  BY Zenon, <1>1, <1>2, SubsetInduction
<1>4. F(S \ T) = 0
  BY <1>3
<1>5. F(T \cup (S \ T)) = F(T) + F(S \ T)
  <2>1. T \cap (S \ T) = {}
    OBVIOUS
  <2>2. \A x \in T \cup (S \ T) : f[x] \in Int
    OBVIOUS
  <2>. QED  BY Zenon, <1>1, <2>1, <2>2, SumOverDisjoint
<1>6. T \cup (S \ T) = S
  OBVIOUS
<1>7. F(T) \in Int
  BY <1>1, SumOfIntegersType
<1>8. F(S) = F(T) + F(S \ T)
  BY Zenon, <1>5, <1>6
<1>. HIDE DEF F
<1>9. F(S) = F(T)
  BY <1>4, <1>7, <1>8
<1>. QED  BY <1>9 DEF F

\* The sets part[p] are parts of all, and s[p] is the sum of f over each.
Parts(part, P, all) ==
    /\ \A p, q \in P : p # q => part[p] \cap part[q] = {}
    /\ \A x : x \in all <=> \E p \in P : x \in part[p]

SumsUp(s, f, part, P) ==
    \A p \in P : /\ IsFiniteSet(part[p])
                 /\ \A x \in part[p] : f[x] \in Int
                 /\ s[p] = SumFunctionOnSet(f, part[p])

\* A sum over parts that do not meet is the sum of the parts' sums.
LEMMA SumOverParts ==
    ASSUME NEW P, IsFiniteSet(P), NEW part, NEW all, Parts(part, P, all),
           NEW s, NEW f, SumsUp(s, f, part, P)
    PROVE  SumFunctionOnSet(s, P) = SumFunctionOnSet(f, all)
<1>. USE DEF Parts, SumsUp
<1>. DEFINE F(T) == SumFunctionOnSet(f, T)
            All(T) == UNION {part[p] : p \in T}
            Q == {T \in SUBSET P : IsFiniteSet(All(T)) /\ SumFunctionOnSet(s, T) = F(All(T))}
<1>1. ASSUME NEW T \in SUBSET P, \A x \in T : T \ {x} \in Q PROVE T \in Q
  <2>1. CASE T = {}
    <3>1. All(T) = {}
      BY <2>1
    <3>2. IsFiniteSet({})
      BY FS_EmptySet
    <3>3. SumFunctionOnSet(s, T) = 0 /\ F({}) = 0
      BY Zenon, <2>1, SumOfNothing
    <3>. HIDE DEF F, All
    <3>. QED  BY <3>1, <3>2, <3>3
  <2>2. CASE T # {}
    <3>. DEFINE p == Pick(T)
                R == T \ {p}
    <3>1. IsFiniteSet(T) /\ p \in T
      BY <2>2, FS_Subset, PickIn
    <3>2. SumFunctionOnSet(s, T) = s[p] + SumFunctionOnSet(s, R)
      BY <2>2, <3>1, SumPeels
    <3>3. R \in Q
      BY <1>1, <3>1
    <3>4. IsFiniteSet(All(R)) /\ SumFunctionOnSet(s, R) = F(All(R))
      BY <3>3
    <3>5. All(T) = part[p] \cup All(R)
      BY <3>1
    <3>6. part[p] \cap All(R) = {}
      BY <3>1
    <3>7. IsFiniteSet(part[p]) /\ s[p] = F(part[p])
      BY <3>1
    <3>8. \A x \in part[p] \cup All(R) : f[x] \in Int
      BY <3>1
    <3>9. IsFiniteSet(part[p] \cup All(R))
      BY <3>4, <3>7, FS_Union
    <3>10. F(part[p] \cup All(R)) = F(part[p]) + F(All(R))
      <4>. DEFINE A == part[p]
                  B == All(R)
      <4>1. IsFiniteSet(A) /\ IsFiniteSet(B) /\ A \cap B = {}
        BY <3>4, <3>6, <3>7
      <4>2. \A x \in A \cup B : f[x] \in Int
        BY <3>8
      <4>. HIDE DEF A, B
      <4>3. F(A \cup B) = F(A) + F(B)
        BY <4>1, <4>2, SumOverDisjoint
      <4>. QED  BY <4>3 DEF A, B
    <3>. HIDE DEF F, All, R, p
    <3>11. IsFiniteSet(All(T)) /\ SumFunctionOnSet(s, T) = F(All(T))
      BY <3>2, <3>4, <3>5, <3>7, <3>9, <3>10
    <3>. QED  BY <3>11
  <2>. QED  BY <2>1, <2>2
<1>2. \A T \in SUBSET P : T \in Q
  <2>. HIDE DEF Q
  <2>. QED  BY Zenon, <1>1, SubsetInduction
<1>3. All(P) = all
  OBVIOUS
<1>4. SumFunctionOnSet(s, P) = F(All(P))
  BY <1>2
<1>. HIDE DEF All
<1>. QED  BY <1>3, <1>4
==============================================================================
