------------------------ MODULE WeightPipelineProofs ------------------------
(***************************************************************************)
(* The numbers of the weight pipeline, for any chain, members and coins,   *)
(* and the theorems on the weight engines.                                 *)
(*                                                                         *)
(* A published weight fits its field and is never 0, places of a chain     *)
(* have a newest one, and what is read from a chain is an input: with      *)
(* these facts (PipelineFacts) the invariant of WeightEpochsProofs holds   *)
(* in every state.  The saldo of a cluster is an amount of money: the      *)
(* epochs part the chain, each epoch's flow adds up the coins its          *)
(* transactions make and spend, and on a ledger, where a coin is made once *)
(* and spent once, the flows of all epochs come to the coins left.         *)
(***************************************************************************)
EXTENDS WeightEpochsProofs, ArithmeticLemmas

USE Zenon

\* A restitution rate is a fraction between 0 and 1, whatever the saldo and
\* the restitution are (WeightEngine::RestitutionRate).
LEMMA RateIsAFraction ==
    ASSUME NEW r \in Int, NEW saldo \in Int
    PROVE  LET rate == RestitutionRate(r, saldo)
           IN  /\ rate.num \in Nat
               /\ rate.den \in Nat \ {0}
               /\ rate.num <= rate.den
  BY SMT DEF RestitutionRate, ClampRestituted

\* A published weight is at least 1, at most the largest value its field
\* holds, and is what a reader recovers from the record: no cluster is
\* silenced by rounding and none wraps around (WeightEngine::ToIntegerWeight
\* against the parser of weight_record.h).
THEOREM WeightsSurviveTheRecord ==
    ASSUME NEW s, s.num \in Nat, s.den \in Nat \ {0}
    PROVE  /\ ToIntegerWeight(s) \in 1 .. UMax
           /\ ParsedWeight(ToIntegerWeight(s)) = ToIntegerWeight(s)
<1>. USE PipelineAssumption
<1>. DEFINE n == s.num
            d == s.den
            w == (2 * n + d) \div (2 * d)
<1>0. n \in Nat /\ d \in Nat /\ d >= 1
  BY SMT
<1>1. ToIntegerWeight(s) \in 1 .. UMax
  <2>1. CASE n < d
    BY <2>1, SMT DEF ToIntegerWeight
  <2>2. CASE n >= d /\ n >= UMax * d
    BY <2>2, <1>0, SMT DEF ToIntegerWeight
  <2>3. CASE n >= d /\ n < UMax * d
    BY <1>0, <2>3, QuotientFacts, SMT DEF ToIntegerWeight, n, d
  <2>. QED
    BY <1>0, <2>1, <2>2, <2>3, SMT
<1>2. ASSUME NEW u \in 1 .. UMax PROVE ParsedWeight(u) = u
  BY SMT DEF ParsedWeight
<1>. HIDE DEF w, n, d
<1>. QED  BY <1>1, <1>2, SMT

\* Restitution decides over a share lambda of the weight and no more: the
\* final weight of a cluster is at most its raw weight, and at least 1 -
\* lambda times it (WeightEngine::FinalWeight).
THEOREM RestitutionWeighsLambda ==
    ASSUME NEW raw \in Nat, NEW e \in Nat, NEW rate,
           rate.num \in Nat, rate.den \in Nat \ {0}, rate.num <= rate.den
    PROVE  LET s == FinalWeight(raw, rate, e)
           IN  /\ s.num \in Nat
               /\ s.den \in Nat \ {0}
               /\ s.num <= raw * s.den
               /\ raw * (s.den * (LambdaDen - LambdaNum)) <= s.num * LambdaDen
<1>. USE PipelineAssumption
<1>. DEFINE r == rate.num
            d == rate.den
            L == LambdaNum
            D == LambdaDen
            low == d * (D - L)
            mid == r * L + low
<1>0. /\ r \in Nat /\ d \in Nat /\ d >= 1 /\ r <= d
      /\ L \in Nat /\ D \in Nat /\ L < D /\ D - L \in Nat
  BY SMT
<1>1. CASE e <= 1
  BY <1>0, <1>1, ProductIsMonotonic, SMT DEF FinalWeight
<1>2. CASE ~(e <= 1)
  <2>1. FinalWeight(raw, rate, e) = [num |-> raw * mid, den |-> d * D]
    BY <1>2 DEF FinalWeight
  <2>. HIDE DEF r, d, L, D
  <2>2. low \in Nat /\ r * L \in Nat /\ d * L \in Nat /\ d * D \in Nat
    BY <1>0, SMT
  <2>3. low + d * L = d * D
    BY <1>0, SMT
  <2>4. r * L <= d * L
    BY <1>0, SMT
  <2>5. mid \in Nat /\ low <= mid /\ mid <= d * D
    BY <2>2, <2>3, <2>4, SMT
  <2>6. d * D >= 1
    BY <1>0, SMT
  <2>7. raw * mid \in Nat /\ raw * mid <= raw * (d * D)
    BY <2>2, <2>5, ProductIsMonotonic
  <2>8. raw * ((d * D) * (D - L)) <= (raw * mid) * D
    BY <1>0, <2>2, <2>5, ProductIsMonotonic, SMT
  <2>. HIDE DEF mid, low
  <2>. QED  BY <2>1, <2>2, <2>6, <2>7, <2>8, SMT DEF L, D
<1>. QED  BY <1>1, <1>2

(***************************************************************************)
(* The facts of an epoch and the weights made of them are numbers.         *)
(***************************************************************************)

\* A range of blocks has finitely many transactions.
LEMMA PlacesAreFinite ==
    ASSUME NEW c, NEW a \in Int, NEW b \in Int, \A h \in a .. b : Len(c[h]) \in Nat
    PROVE  IsFiniteSet(Places(c, a, b))
<1>. DEFINE f == [h \in a .. b |-> {h} \X (1 .. Len(c[h]))]
<1>1. IsFiniteSet(a .. b)
  BY FS_Interval
<1>2. IsFiniteSet({f[h] : h \in a .. b})
  <2>1. f = [h \in a .. b |-> f[h]]
    OBVIOUS
  <2>. HIDE DEF f
  <2>. QED  BY <1>1, <2>1, FiniteImage
<1>3. ASSUME NEW h \in a .. b PROVE IsFiniteSet(f[h])
  <2>1. IsFiniteSet({h})
    BY FS_Singleton
  <2>0. IsFiniteSet(1 .. Len(c[h]))
    <3>1. 1 \in Int /\ Len(c[h]) \in Int
      BY SMT
    <3>. QED  BY <3>1, FS_Interval
  <2>2. IsFiniteSet({h} \X (1 .. Len(c[h])))
    BY <2>0, <2>1, FS_Product
  <2>. QED  BY <2>2
<1>4. Places(c, a, b) = UNION {f[h] : h \in a .. b}
  BY DEF Places
<1>. HIDE DEF f
<1>5. IsFiniteSet(UNION {f[h] : h \in a .. b})
  <2>1. \A T \in {f[h] : h \in a .. b} : IsFiniteSet(T)
    BY <1>3
  <2>. QED  BY <1>2, <2>1, FS_UNION
<1>. QED  BY <1>4, <1>5

\* The value of finitely many coins.
LEMMA ValueType ==
    ASSUME NEW coins, IsFiniteSet(coins), \A c \in coins : c.value \in Nat
    PROVE  Value(coins) \in Nat
<1>. DEFINE f == [c \in coins |-> c.value]
<1>1. \A c \in coins : f[c] \in Nat
  OBVIOUS
<1>2. Value(coins) = SumFunctionOnSet(f, coins)
  BY DEF Value, SumFunction
<1>. HIDE DEF f
<1>. QED  BY <1>1, <1>2, SumOfNaturals

\* The facts of a complete epoch are natural numbers.
LEMMA FactsType ==
    ASSUME NEW c, IsChain(c), NEW e \in Nat, e >= 1, LastHeight(e) + 1 <= Len(c), NEW a
    PROVE  /\ IsFiniteSet(EpochPlaces(c, e))
           /\ Tau(c, e, a) \in Nat
           /\ Restituted(c, e, a) \in Nat
           /\ Credits(c, e, a) \in Nat
           /\ Debits(c, e, a) \in Nat
<1>. DEFINE P == EpochPlaces(c, e)
<1>1. P \subseteq Places(c, 1, Len(c))
  BY EpochPlacesFacts DEF IsChain
<1>2. IsFiniteSet(P)
  <2>1. IsFiniteSet(Places(c, 1, Len(c)))
    BY PlacesAreFinite, SMT DEF IsChain
  <2>. HIDE DEF P
  <2>. QED  BY <1>1, <2>1, FS_Subset, SMT
<1>3. ASSUME NEW p \in P
      PROVE  /\ Value(OwnedBy(At(c, p).ins, a)) \in Nat
             /\ Value(OwnedBy(At(c, p).outs, a)) \in Nat
             /\ Reconciled(At(c, p), a) \in Nat
  <2>. DEFINE tx == At(c, p)
  <2>1. IsTransaction(tx)
    BY <1>1, <1>3 DEF IsChain
  <2>. HIDE DEF tx
  <2>2. ASSUME NEW k PROVE Value(OwnedBy(tx.ins, k)) \in Nat /\ Value(OwnedBy(tx.outs, k)) \in Nat
    <3>1. OwnedBy(tx.ins, k) \in SUBSET tx.ins /\ OwnedBy(tx.outs, k) \in SUBSET tx.outs
      BY DEF OwnedBy
    <3>2. IsFiniteSet(OwnedBy(tx.ins, k)) /\ IsFiniteSet(OwnedBy(tx.outs, k))
      BY <2>1, <3>1, FS_Subset, SMT DEF IsTransaction
    <3>3. /\ \A d \in OwnedBy(tx.ins, k) : d.value \in Nat
          /\ \A d \in OwnedBy(tx.outs, k) : d.value \in Nat
      BY <2>1, <3>1, SMT DEF IsTransaction
    <3>. QED  BY <3>2, <3>3, ValueType, SMT
  <2>3. Reconciled(tx, a) \in Nat
    BY <2>2 DEF Reconciled, ValuePaidToTreasury
  <2>. QED  BY <2>2, <2>3 DEF tx
<1>4. Tau(c, e, a) \in Nat
  <2>1. {p \in P : a \in Signers(At(c, p))} \in SUBSET P
    OBVIOUS
  <2>2. IsFiniteSet({p \in P : a \in Signers(At(c, p))})
    BY <1>2, <2>1, FS_Subset
  <2>3. Cardinality({p \in P : a \in Signers(At(c, p))}) \in Nat
    BY <2>2, FS_CardinalityType
  <2>. QED  BY <2>3 DEF Tau
<1>5. ASSUME NEW f, DOMAIN f = P, \A p \in P : f[p] \in Nat
      PROVE  SumFunction(f) \in Nat
  <2>. HIDE DEF P
  <2>. QED  BY <1>2, <1>5, SumOfNaturals, SMT DEF SumFunction
<1>6. Restituted(c, e, a) \in Nat
  <2>. DEFINE f == [p \in P |-> Reconciled(At(c, p), a)]
  <2>1. DOMAIN f = P /\ \A p \in P : f[p] \in Nat
    BY <1>3
  <2>2. SumFunction(f) \in Nat
    <3>. HIDE DEF f
    <3>. QED  BY <1>5, <2>1, SMT
  <2>. QED  BY <2>2 DEF Restituted
<1>7. Credits(c, e, a) \in Nat
  <2>. DEFINE f == [p \in P |-> Value(OwnedBy(At(c, p).outs, a))]
  <2>1. DOMAIN f = P /\ \A p \in P : f[p] \in Nat
    BY <1>3
  <2>2. SumFunction(f) \in Nat
    <3>. HIDE DEF f
    <3>. QED  BY <1>5, <2>1
  <2>. QED  BY <2>2 DEF Credits
<1>8. Debits(c, e, a) \in Nat
  <2>. DEFINE f == [p \in P |-> Value(OwnedBy(At(c, p).ins, a))]
  <2>1. DOMAIN f = P /\ \A p \in P : f[p] \in Nat
    BY <1>3
  <2>2. SumFunction(f) \in Nat
    <3>. HIDE DEF f
    <3>. QED  BY <1>5, <2>1
  <2>. QED  BY <2>2 DEF Debits
<1>. QED  BY <1>2, <1>4, <1>6, <1>7, <1>8, SMT

\* The saldo of a cluster is an integer.
LEMMA SaldoType ==
    ASSUME NEW c, IsChain(c), NEW e \in Nat, e * EpochLength <= Len(c), NEW k
    PROVE  Saldo(c, e, k) \in Int
<1>. DEFINE gain(i) == Gain(Credits(c, i, k), Debits(c, i, k), Restituted(c, i, k))
            f == [i \in 1 .. e |-> gain(i)]
<1>1. ASSUME NEW i \in 1 .. e PROVE gain(i) \in Int
  <2>1. i \in Nat /\ i >= 1
    BY SMT
  <2>2. LastHeight(i) + 1 = i * EpochLength /\ i * EpochLength \in Nat
    BY <2>1, EpochPlacesFacts
  <2>3. i * EpochLength <= e * EpochLength
    BY <2>1, MoreEpochsLast, SMT
  <2>4. e * EpochLength \in Nat
    BY PipelineAssumption, SMT
  <2>5. LastHeight(i) + 1 <= Len(c)
    BY <2>2, <2>3, <2>4, SMT DEF IsChain
  <2>6. Credits(c, i, k) \in Nat /\ Debits(c, i, k) \in Nat /\ Restituted(c, i, k) \in Nat
    BY <2>1, <2>5, FactsType, SMT
  <2>. QED  BY <2>6, SMT DEF Gain
<1>2. \A i \in 1 .. e : f[i] \in Int
  BY <1>1
<1>3. Saldo(c, e, k) = SumFunctionOnSet(f, 1 .. e)
  BY DEF Saldo, SumFunction
<1>4. IsFiniteSet(1 .. e)
  BY FS_Interval, SMT
<1>. HIDE DEF f
<1>. QED  BY <1>2, <1>3, <1>4, SumOfIntegersType

\* The rate of the epoch before is a fraction.
LEMMA RateType ==
    ASSUME NEW c, IsChain(c), NEW e \in Int, e * EpochLength <= Len(c), NEW k
    PROVE  LET rate == Rate(c, e, k)
           IN  /\ rate.num \in Nat
               /\ rate.den \in Nat \ {0}
               /\ rate.num <= rate.den
<1>1. CASE e < 1
  BY <1>1, SMT DEF Rate
<1>2. CASE e >= 1
  <2>1. e \in Nat
    BY <1>2, SMT
  <2>2. LastHeight(e) + 1 = e * EpochLength
    BY <1>2, <2>1, EpochPlacesFacts
  <2>3. Restituted(c, e, k) \in Int /\ Saldo(c, e, k) \in Int
    BY <1>2, <2>1, <2>2, FactsType, SaldoType, SMT
  <2>4. Rate(c, e, k) = RestitutionRate(Restituted(c, e, k), Saldo(c, e, k))
    BY <1>2, SMT DEF Rate
  <2>. QED  BY <2>3, <2>4, RateIsAFraction
<1>. QED  BY <1>1, <1>2, SMT

\* The raw weight is a natural number.
LEMMA RawType ==
    ASSUME NEW c, IsChain(c), NEW e \in Nat, e >= 1, LastHeight(e) + 1 <= Len(c),
           NEW in, IsInput(in), NEW k
    PROVE  ScaledRaw(c, in, e, k) \in Nat
<1>. DEFINE f == [a \in Companies(in, k) |-> Esg(in, a) * Tau(c, e, a)]
<1>1. \A a : Esg(in, a) \in Nat
  BY DEF Esg, IsInput
<1>2. \A a : Tau(c, e, a) \in Nat
  BY FactsType
<1>3. \A a \in Companies(in, k) : f[a] \in Nat
  BY <1>1, <1>2, SMT
<1>4. IsFiniteSet(Companies(in, k))
  <2>1. Companies(in, k) \in SUBSET DOMAIN in.member
    BY DEF Companies
  <2>. QED  BY <2>1, FS_Subset DEF IsInput
<1>5. SumFunction(f) \in Nat
  <2>1. SumFunction(f) = SumFunctionOnSet(f, Companies(in, k))
    BY DEF SumFunction
  <2>. HIDE DEF f
  <2>. QED  BY <1>3, <1>4, <2>1, SumOfNaturals, SMT
<1>6. Kappa * Tau(c, e, k) + SumFunction(f) \in Nat
  BY <1>2, <1>5, PipelineAssumption, SMT
<1>. QED  BY <1>1, <1>6, SMT DEF ScaledRaw

\* Every weight the pipeline computes fits its field and is not 0.
LEMMA WeightInRange ==
    ASSUME NEW c, IsChain(c), NEW e \in Nat, e >= 1, LastHeight(e) + 1 <= Len(c),
           NEW in, IsInput(in), NEW k
    PROVE  WeightForEpoch(c, in, e, k) \in 1 .. UMax
<1>. DEFINE raw == ScaledRaw(c, in, e, k)
            rate == Rate(c, e - 1, k)
            s == FinalWeight(raw, rate, e)
<1>1. raw \in Nat
  BY RawType
<1>2. rate.num \in Nat /\ rate.den \in Nat \ {0} /\ rate.num <= rate.den
  <2>1. LastHeight(e) + 1 = e * EpochLength /\ e * EpochLength \in Nat
    BY EpochPlacesFacts
  <2>2. e - 1 \in Nat
    BY SMT
  <2>3. (e - 1) * EpochLength <= e * EpochLength /\ (e - 1) * EpochLength \in Nat
    BY <2>2, MoreEpochsLast, PipelineAssumption, SMT
  <2>4. (e - 1) * EpochLength <= Len(c)
    BY <2>1, <2>3, SMT DEF IsChain
  <2>. QED  BY <2>2, <2>4, RateType, SMT
<1>. HIDE DEF raw, rate
<1>3. s.num \in Nat /\ s.den \in Nat \ {0}
  BY <1>1, <1>2, RestitutionWeighsLambda
<1>. HIDE DEF s
<1>4. ToIntegerWeight(s) \in 1 .. UMax
  BY <1>3, WeightsSurviveTheRecord
<1>. QED  BY <1>4 DEF WeightForEpoch, s, raw, rate

(***************************************************************************)
(* The streams: there is a newest item, and the inputs are well formed.    *)
(***************************************************************************)

\* Of the places of a chain one is the newest.
LEMMA NewestExists ==
    ASSUME NEW c, IsChain(c),
           NEW P, P \subseteq Places(c, 1, Len(c)), P # {}
    PROVE  \E p \in P : \A q \in P : q # p => Later(p, q)
<1>00. Len(c) \in Nat /\ \A h \in 1 .. Len(c) : Len(c[h]) \in Nat
  BY DEF IsChain
<1>0. ASSUME NEW p \in P
      PROVE  \E h \in 1 .. Len(c) : \E i \in 1 .. Len(c[h]) : p = <<h, i>>
  BY PlaceFacts, SMT
<1>. DEFINE H == {h \in 1 .. Len(c) : \E i \in 1 .. Len(c[h]) : <<h, i>> \in P}
<1>1. H \in SUBSET Nat /\ H # {} /\ (\A h \in H : h <= Len(c)) /\ Len(c) \in Nat
  <2>0. PICK p : p \in P
    OBVIOUS
  <2>a. PICK h \in 1 .. Len(c) : \E i \in 1 .. Len(c[h]) : p = <<h, i>>
    BY <1>0, <2>0
  <2>b. h \in H
    BY <2>0, <2>a
  <2>1. H # {}
    BY <2>b
  <2>. QED  BY <1>00, <2>1, SMT
<1>2. PICK m \in H : \A h \in H : h <= m
  <2>. HIDE DEF H
  <2>. QED  BY <1>1, GreatestNumber
<1>. DEFINE I == {i \in 1 .. Len(c[m]) : <<m, i>> \in P}
<1>3. I \in SUBSET Nat /\ I # {} /\ (\A i \in I : i <= Len(c[m])) /\ Len(c[m]) \in Nat
  <2>1. m \in 1 .. Len(c) /\ \E i \in 1 .. Len(c[m]) : <<m, i>> \in P
    BY <1>2
  <2>2. Len(c[m]) \in Nat
    BY <1>00, <2>1
  <2>3. I # {}
    BY <2>1
  <2>4. I \subseteq 1 .. Len(c[m])
    OBVIOUS
  <2>. HIDE DEF I
  <2>. QED  BY <2>2, <2>3, <2>4, SMT
<1>4. PICK j \in I : \A i \in I : i <= j
  <2>. HIDE DEF I
  <2>. QED  BY <1>3, GreatestNumber
<1>5. <<m, j>> \in P
  BY <1>4
<1>6. ASSUME NEW q \in P, q # <<m, j>> PROVE Later(<<m, j>>, q)
  <2>0. PICK h \in 1 .. Len(c) : \E i \in 1 .. Len(c[h]) : q = <<h, i>>
    BY <1>0
  <2>1. PICK i \in 1 .. Len(c[h]) : q = <<h, i>>
    BY <2>0
  <2>2. h \in H /\ h <= m
    BY <1>2, <2>1
  <2>3. CASE h = m
    <3>1. i \in I
      BY <2>1, <2>3
    <3>2. i <= j /\ i # j
      BY <1>4, <1>6, <2>1, <2>3, <3>1, SMT
    <3>3. i \in Nat /\ j \in Nat
      BY <1>3, <1>4, <3>1
    <3>. QED  BY <2>1, <2>3, <3>2, <3>3, SMT DEF Later
  <2>4. CASE h # m
    <3>1. m \in Nat /\ h \in Nat
      BY <1>1, SMT
    <3>. QED  BY <2>1, <2>2, <2>4, <3>1, SMT DEF Later
  <2>. QED  BY <2>3, <2>4
<1>. QED  BY <1>5, <1>6

\* So the newest item of a stream is there.
LEMMA TheNewestIsThere == NewestIsThere
  BY NewestExists DEF NewestIsThere

\* The inputs read from a chain are inputs of the pipeline.
LEMMA InputsRead ==
    ASSUME NEW c, IsChain(c)
    PROVE  IsInput(ReadInputs(c))
<1>0. Len(c) \in Nat /\ \A h \in 1 .. Len(c) : Len(c[h]) \in Nat
  BY DEF IsChain
<1>1. IsFiniteSet(DOMAIN ReadMembership(c))
  <2>. DEFINE P == {p \in Items(c, "membership") : SelfAttested(At(c, p))}
              f == [p \in P |-> At(c, p).item.node]
  <2>1. P \subseteq Places(c, 1, Len(c))
    BY DEF Items
  <2>2. IsFiniteSet(P)
    <3>1. 1 \in Int /\ Len(c) \in Int
      BY <1>0, SMT
    <3>2. IsFiniteSet(Places(c, 1, Len(c)))
      BY <1>0, <3>1, PlacesAreFinite
    <3>. HIDE DEF P
    <3>. QED  BY <2>1, <3>2, FS_Subset
  <2>3. DOMAIN Newest(c, P) = {f[p] : p \in P}
    <3>. HIDE DEF P
    <3>. QED  BY DEF Newest
  <2>4. f = [p \in P |-> f[p]]
    OBVIOUS
  <2>. HIDE DEF f, P
  <2>5. IsFiniteSet({f[p] : p \in P})
    BY <2>2, <2>4, FiniteImage
  <2>. QED  BY <2>3, <2>5 DEF ReadMembership, P
<1>2. ASSUME NEW a \in DOMAIN ReadEsg(c) PROVE ReadEsg(c)[a].score \in Nat
  <2>. DEFINE P == Items(c, "esg")
  <2>1. P \subseteq Places(c, 1, Len(c)) /\ \A p \in P : At(c, p).item.stream = "esg"
    BY DEF Items
  <2>2. a \in DOMAIN Newest(c, P)
    BY <1>2 DEF ReadEsg
  <2>. HIDE DEF P
  <2>3. PICK p \in P : Newest(c, P)[a] = At(c, p).item
    BY <2>1, <2>2, NewestFacts, TheNewestIsThere, SMT
  <2>4. IsTransaction(At(c, p))
    BY <2>1, <2>3 DEF IsChain
  <2>5. At(c, p).item.score \in Nat
    BY <2>1, <2>4 DEF IsTransaction
  <2>. QED  BY <2>3, <2>5 DEF ReadEsg, P
<1>3. ReadInputs(c).member = ReadMembership(c) /\ ReadInputs(c).esg = ReadEsg(c)
  BY DEF ReadInputs
<1>. QED  BY <1>1, <1>2, <1>3 DEF IsInput

\* The facts about chains that the proofs about the engine assume.
LEMMA ThePipelineFacts == PipelineFacts
<1>1. WeightsFit
  BY WeightInRange DEF WeightsFit
<1>2. InputsAreRead
  BY InputsRead DEF InputsAreRead
<1>. QED  BY <1>1, <1>2, TheNewestIsThere DEF PipelineFacts

(***************************************************************************)
(* The saldo and the ledger.                                               *)
(***************************************************************************)

\* Coins without value do not count.
LEMMA ValueOfMoney ==
    ASSUME NEW coins, IsFiniteSet(coins), \A c \in coins : c.value \in Nat
    PROVE  /\ IsFiniteSet(Money(coins))
           /\ Value(coins) = Value(Money(coins))
<1>. DEFINE f == [c \in coins |-> c.value]
            M == Money(coins)
            g == [c \in M |-> c.value]
<1>1. M \in SUBSET coins /\ (\A c \in coins \ M : f[c] = 0) /\ (\A c \in M : f[c] \in Int)
  BY SMT DEF Money
<1>2. IsFiniteSet(M)
  <2>. HIDE DEF M
  <2>. QED  BY <1>1, FS_Subset
<1>3. SumFunctionOnSet(f, coins) = SumFunctionOnSet(f, M)
  <2>. HIDE DEF M, f
  <2>. QED  BY <1>1, SumDropsZeros
<1>4. SumFunctionOnSet(f, M) = SumFunctionOnSet(g, M)
  <2>1. \A c \in M : f[c] = g[c]
    BY <1>1
  <2>. HIDE DEF M, f, g
  <2>. QED  BY <1>2, <2>1, SumOfEquals
<1>5. Value(coins) = SumFunctionOnSet(f, coins) /\ Value(M) = SumFunctionOnSet(g, M)
  BY DEF Value, SumFunction
<1>. QED  BY <1>2, <1>3, <1>4, <1>5, SMT

\* The value of a part of some coins and of the rest.
LEMMA ValueOfRest ==
    ASSUME NEW coins, IsFiniteSet(coins), \A c \in coins : c.value \in Nat,
           NEW part \in SUBSET coins
    PROVE  Value(coins \ part) = Value(coins) - Value(part)
<1>. DEFINE f == [c \in coins |-> c.value]
            rest == coins \ part
<1>1. IsFiniteSet(part) /\ IsFiniteSet(rest)
  <2>1. rest \in SUBSET coins
    OBVIOUS
  <2>. HIDE DEF rest
  <2>. QED  BY <2>1, FS_Subset
<1>2. part \cap rest = {} /\ part \cup rest = coins /\ \A c \in coins : f[c] \in Int
  BY SMT
<1>3. SumFunctionOnSet(f, coins) = SumFunctionOnSet(f, part) + SumFunctionOnSet(f, rest)
  <2>. HIDE DEF rest, f
  <2>. QED  BY <1>1, <1>2, SumOverDisjoint
<1>4. ASSUME NEW T \in SUBSET coins, IsFiniteSet(T)
      PROVE  Value(T) = SumFunctionOnSet(f, T)
  <2>. DEFINE g == [c \in T |-> c.value]
  <2>1. \A c \in T : g[c] = f[c]
    OBVIOUS
  <2>2. Value(T) = SumFunctionOnSet(g, T)
    BY DEF Value, SumFunction
  <2>. HIDE DEF f, g
  <2>. QED  BY <1>4, <2>1, <2>2, SumOfEquals
<1>5. Value(part) = SumFunctionOnSet(f, part) /\ Value(rest) = SumFunctionOnSet(f, rest)
       /\ Value(coins) = SumFunctionOnSet(f, coins)
  <2>1. rest \in SUBSET coins /\ coins \in SUBSET coins
    OBVIOUS
  <2>. HIDE DEF rest, f
  <2>. QED  BY <1>1, <1>4, <2>1, SMT
<1>6. Value(part) \in Nat /\ Value(rest) \in Nat
  <2>1. \A c \in rest : c.value \in Nat
    OBVIOUS
  <2>. HIDE DEF rest
  <2>. QED  BY <1>1, <2>1, ValueType
<1>. HIDE DEF rest, f
<1>7. Value(rest) = Value(coins) - Value(part)
  BY <1>3, <1>5, <1>6, SMT
<1>. QED  BY <1>7 DEF rest

\* Coins of different transactions that are different coins add up.
LEMMA ValueAddsUp ==
    ASSUME NEW P, IsFiniteSet(P), NEW part, NEW f,
           \A p \in P : /\ IsFiniteSet(part[p])
                        /\ \A c \in part[p] : c.value \in Nat
                        /\ f[p] = Value(part[p]),
           NEW all, Parts(part, P, all)
    PROVE  SumFunctionOnSet(f, P) = Value(all)
<1>. DEFINE v == [c \in all |-> c.value]
<1>1. \A p \in P : \A c \in part[p] : c \in all
  BY DEF Parts
<1>2. ASSUME NEW p \in P PROVE f[p] = SumFunctionOnSet(v, part[p])
  <2>. DEFINE T == part[p]
              g == [c \in T |-> c.value]
  <2>1. \A c \in T : g[c] = v[c]
    BY <1>1
  <2>2. Value(T) = SumFunctionOnSet(g, T)
    BY DEF Value, SumFunction
  <2>3. IsFiniteSet(T)
    OBVIOUS
  <2>. HIDE DEF T, g, v
  <2>4. Value(T) = SumFunctionOnSet(v, T)
    BY <2>1, <2>2, <2>3, SumOfEquals, SMT
  <2>. QED  BY <2>4 DEF T
<1>3. \A p \in P : \A c \in part[p] : v[c] \in Int
  BY <1>1, SMT
<1>4. Value(all) = SumFunctionOnSet(v, all)
  BY DEF Value, SumFunction
<1>. HIDE DEF v
<1>5. SumsUp(f, v, part, P)
  BY <1>2, <1>3 DEF SumsUp
<1>6. SumFunctionOnSet(f, P) = SumFunctionOnSet(v, all)
  BY <1>5, SumOverParts, SMT
<1>. QED  BY <1>4, <1>6

\* The epochs up to e part the first e * EpochLength blocks.
LEMMA EpochsPartTheChain ==
    ASSUME NEW c, NEW e \in Nat
    PROVE  /\ \A p : p \in Places(c, 1, e * EpochLength)
                       <=> \E i \in 1 .. e : p \in EpochPlaces(c, i)
           /\ \A i, j \in 1 .. e : i # j => EpochPlaces(c, i) \cap EpochPlaces(c, j) = {}
<1>. USE PipelineAssumption
<1>0. e * EpochLength \in Nat
  BY SMT
<1>1. ASSUME NEW i \in 1 .. e
      PROVE  /\ EpochPlaces(c, i) \subseteq Places(c, 1, e * EpochLength)
             /\ \A p \in EpochPlaces(c, i) :
                   /\ p[1] \in Nat
                   /\ (i - 1) * EpochLength < p[1] /\ p[1] <= i * EpochLength
  <2>1. i \in Nat /\ i >= 1 /\ i <= e /\ i - 1 \in Nat
    BY SMT
  <2>2. (i - 1) * EpochLength \in Nat /\ i * EpochLength \in Nat
    BY <2>1, SMT
  <2>. DEFINE lo == (i - 1) * EpochLength
              hi == i * EpochLength
  <2>3. EpochPlaces(c, i) = Places(c, lo + 1, hi)
    <3>1. LastHeight(i) + 1 = hi
      BY <2>1, EpochPlacesFacts
    <3>. QED  BY <3>1 DEF EpochPlaces, FirstHeight
  <2>4. hi <= e * EpochLength
    BY <2>1, MoreEpochsLast
  <2>5. EpochPlaces(c, i) \subseteq Places(c, 1, e * EpochLength)
    <3>1. LastHeight(i) + 1 <= e * EpochLength
      BY <2>1, <2>4, EpochPlacesFacts
    <3>. QED  BY <1>0, <2>1, <3>1, EpochPlacesFacts, SMT
  <2>6. lo \in Nat /\ hi \in Nat
    BY <2>2
  <2>. HIDE DEF lo, hi
  <2>7. ASSUME NEW p \in Places(c, lo + 1, hi) PROVE p[1] \in Nat /\ lo < p[1] /\ p[1] <= hi
    <3>1. PICK h \in lo + 1 .. hi : \E n \in 1 .. Len(c[h]) : p = <<h, n>>
      BY PlaceFacts, SMT
    <3>2. p[1] = h
      BY <3>1, SMT
    <3>. QED  BY <2>6, <3>2, SMT
  <2>. QED  BY <2>3, <2>5, <2>7 DEF lo, hi
<1>2. ASSUME NEW p \in Places(c, 1, e * EpochLength)
      PROVE  \E i \in 1 .. e : p \in EpochPlaces(c, i)
  <2>1. PICK h \in 1 .. e * EpochLength : \E n \in 1 .. Len(c[h]) : p = <<h, n>>
    BY PlaceFacts, SMT
  <2>. DEFINE x == h - 1
              q == x \div EpochLength
              lo == q * EpochLength
              end == e * EpochLength
  <2>2. x \in Nat /\ x < end
    BY <1>0, SMT
  <2>3. q \in Nat /\ lo \in Nat /\ lo <= x /\ x < lo + EpochLength
    <3>. HIDE DEF x
    <3>. QED  BY <2>2, QuotientFacts, SMT
  <2>. HIDE DEF x, q
  <2>4. q < e
    <3>1. CASE e <= q
      <4>1. end <= lo
        BY <2>3, <3>1, MoreEpochsLast
      <4>. HIDE DEF end, lo
      <4>. QED  BY <1>0, <2>2, <2>3, <4>1, SMT DEF end
    <3>. QED  BY <2>3, <3>1, SMT
  <2>. DEFINE i == q + 1
  <2>5. i \in Nat /\ i >= 1 /\ i \in 1 .. e /\ i - 1 = q
    BY <2>3, <2>4, SMT
  <2>6. i * EpochLength = lo + EpochLength
    BY <2>3, SMT
  <2>7. FirstHeight(i) + 1 = lo + 1 /\ LastHeight(i) + 1 = lo + EpochLength
    <3>1. FirstHeight(i) = (i - 1) * EpochLength
      BY DEF FirstHeight
    <3>2. LastHeight(i) + 1 = i * EpochLength
      BY <2>5, EpochPlacesFacts
    <3>. QED  BY <2>5, <2>6, <3>1, <3>2, SMT
  <2>. HIDE DEF lo, i
  <2>8. h \in lo + 1 .. lo + EpochLength
    BY <2>3, SMT DEF x
  <2>9. p \in Places(c, lo + 1, lo + EpochLength)
    BY <2>1, <2>8, PlaceFacts
  <2>10. p \in EpochPlaces(c, i)
    BY <2>7, <2>9 DEF EpochPlaces
  <2>. QED  BY <2>5, <2>10
<1>3. ASSUME NEW i \in 1 .. e, NEW j \in 1 .. e, i < j
      PROVE  EpochPlaces(c, i) \cap EpochPlaces(c, j) = {}
  <2>. DEFINE a == i * EpochLength
              b == (j - 1) * EpochLength
  <2>1. i \in Nat /\ j - 1 \in Nat /\ i <= j - 1
    BY <1>3, SMT
  <2>2. a <= b /\ a \in Nat /\ b \in Nat
    BY <2>1, MoreEpochsLast, SMT
  <2>3. ASSUME NEW p \in EpochPlaces(c, i), p \in EpochPlaces(c, j) PROVE FALSE
    <3>1. p[1] <= a /\ p[1] \in Nat /\ b < p[1]
      BY <1>1, <2>3
    <3>. HIDE DEF a, b
    <3>. QED  BY <2>2, <3>1, SMT
  <2>. QED  BY <2>3
<1>4. \A i, j \in 1 .. e : i # j => EpochPlaces(c, i) \cap EpochPlaces(c, j) = {}
  <2>1. \A i, j \in 1 .. e : i # j => i < j \/ j < i
    BY SMT
  <2>. QED  BY <1>3, <2>1
<1>. QED  BY <1>1, <1>2, <1>4

\* A sum over the epochs is one over the blocks.
LEMMA SumOverEpochs ==
    ASSUME NEW c, IsChain(c), NEW e \in Nat, e * EpochLength <= Len(c), NEW f, NEW s,
           \A p \in Places(c, 1, e * EpochLength) : f[p] \in Int,
           \A i \in 1 .. e : s[i] = SumFunction([p \in EpochPlaces(c, i) |-> f[p]])
    PROVE  SumFunctionOnSet(s, 1 .. e)
             = SumFunctionOnSet(f, Places(c, 1, e * EpochLength))
<1>. DEFINE E == 1 .. e
            part == [i \in E |-> EpochPlaces(c, i)]
            all == Places(c, 1, e * EpochLength)
<1>1. IsFiniteSet(E)
  BY FS_Interval, SMT
<1>2. e * EpochLength \in Nat /\ Len(c) \in Nat
  BY PipelineAssumption, SMT DEF IsChain
<1>3. Parts(part, E, all)
  BY EpochsPartTheChain DEF Parts
<1>4. ASSUME NEW i \in E
      PROVE  /\ IsFiniteSet(part[i])
             /\ \A p \in part[i] : f[p] \in Int
             /\ s[i] = SumFunctionOnSet(f, part[i])
  <2>1. i \in Nat /\ i >= 1 /\ i <= e
    BY SMT
  <2>2. i * EpochLength <= e * EpochLength /\ LastHeight(i) + 1 = i * EpochLength
          /\ i * EpochLength \in Nat
    BY <2>1, MoreEpochsLast, EpochPlacesFacts
  <2>3. LastHeight(i) + 1 <= Len(c)
    <3>. DEFINE x == i * EpochLength
                y == e * EpochLength
    <3>1. x \in Nat /\ y \in Nat /\ x <= y /\ y <= Len(c) /\ LastHeight(i) + 1 = x
      BY <1>2, <2>2
    <3>. HIDE DEF x, y
    <3>. QED  BY <1>2, <3>1, SMT
  <2>. DEFINE T == EpochPlaces(c, i)
              g == [p \in T |-> f[p]]
  <2>4. IsFiniteSet(T)
    BY <2>1, <2>3, FactsType
  <2>5. \A p \in T : f[p] \in Int
    BY <1>3 DEF Parts
  <2>6. SumFunction(g) = SumFunctionOnSet(g, T)
    BY DEF SumFunction
  <2>7. \A p \in T : g[p] = f[p]
    OBVIOUS
  <2>8. s[i] = SumFunction(g)
    OBVIOUS
  <2>. HIDE DEF g, T
  <2>9. s[i] = SumFunctionOnSet(f, T)
    BY <2>4, <2>6, <2>7, <2>8, SumOfEquals, SMT
  <2>. QED  BY <2>4, <2>5, <2>9 DEF T
<1>. HIDE DEF E, part, all
<1>5. SumFunctionOnSet(s, E) = SumFunctionOnSet(f, all)
  <2>1. SumsUp(s, f, part, E)
    BY <1>4 DEF SumsUp
  <2>. QED  BY <1>1, <1>3, <2>1, SumOverParts, SMT
<1>. QED  BY <1>5 DEF E, all

\* The parts of a finite family of finite sets are finite together.
LEMMA PartsAreFinite ==
    ASSUME NEW P, IsFiniteSet(P), NEW part, part = [p \in P |-> part[p]],
           \A p \in P : IsFiniteSet(part[p]), NEW all, Parts(part, P, all)
    PROVE  IsFiniteSet(all)
<1>1. IsFiniteSet({part[p] : p \in P})
  BY FiniteImage
<1>2. IsFiniteSet(UNION {part[p] : p \in P})
  <2>. DEFINE U == {part[p] : p \in P}
  <2>1. \A T \in U : IsFiniteSet(T)
    OBVIOUS
  <2>2. IsFiniteSet(U)
    BY <1>1
  <2>. HIDE DEF U
  <2>3. IsFiniteSet(UNION U)
    BY <2>1, <2>2, FS_UNION
  <2>. QED  BY <2>3 DEF U
<1>3. all = UNION {part[p] : p \in P}
  BY SMT DEF Parts
<1>. QED  BY <1>2, <1>3

\* The coins of the first n blocks: those of an address that were made, and
\* those with a value that it spent.
MadeBy(c, n, k) == OwnedBy(UNION {At(c, p).outs : p \in Places(c, 1, n)}, k)

SpentBy(c, n, k) == Money(OwnedBy(UNION {At(c, p).ins : p \in Places(c, 1, n)}, k))

\* What the transactions of the first n blocks are worth to an address.
LEMMA FlowsAddUp ==
    ASSUME NEW c, IsChain(c), IsLedger(c), NEW n \in Nat, n <= Len(c), NEW k
    PROVE  LET P == Places(c, 1, n)
               f == [p \in P |-> Value(OwnedBy(At(c, p).outs, k))]
               g == [p \in P |-> Value(OwnedBy(At(c, p).ins, k))]
           IN  /\ IsFiniteSet(MadeBy(c, n, k))
               /\ \A coin \in MadeBy(c, n, k) : coin.value \in Nat
               /\ \A p \in P : f[p] \in Nat /\ g[p] \in Nat
               /\ SumFunctionOnSet(f, P) = Value(MadeBy(c, n, k))
               /\ SumFunctionOnSet(g, P) = Value(SpentBy(c, n, k))
<1>. DEFINE P == Places(c, 1, n)
            f == [p \in P |-> Value(OwnedBy(At(c, p).outs, k))]
            g == [p \in P |-> Value(OwnedBy(At(c, p).ins, k))]
            outs == [p \in P |-> OwnedBy(At(c, p).outs, k)]
            ins == [p \in P |-> Money(OwnedBy(At(c, p).ins, k))]
<1>1. IsFiniteSet(P) /\ P \subseteq Places(c, 1, Len(c))
  <2>1. 1 .. n \subseteq 1 .. Len(c)
    BY SMT DEF IsChain
  <2>2. \A h \in 1 .. n : Len(c[h]) \in Nat
    BY <2>1 DEF IsChain
  <2>3. IsFiniteSet(P)
    BY <2>2, PlacesAreFinite, SMT
  <2>. QED  BY <2>1, <2>3 DEF Places
<1>2. ASSUME NEW p \in P
      PROVE  /\ IsFiniteSet(At(c, p).outs) /\ IsFiniteSet(At(c, p).ins)
             /\ \A coin \in At(c, p).outs \cup At(c, p).ins : coin.value \in Nat
  <2>1. IsTransaction(At(c, p))
    BY <1>1 DEF IsChain
  <2>. QED  BY <2>1 DEF IsTransaction
<1>3. /\ \A p, q \in P : p # q =>
            /\ At(c, p).outs \cap At(c, q).outs = {}
            /\ Money(At(c, p).ins) \cap Money(At(c, q).ins) = {}
  BY <1>1 DEF IsLedger
<1>4. Parts(outs, P, MadeBy(c, n, k))
  <2>. HIDE DEF P
  <2>1. \A p, q \in P : p # q => outs[p] \cap outs[q] = {}
    BY <1>3 DEF OwnedBy
  <2>2. \A x : x \in MadeBy(c, n, k) <=> \E p \in P : x \in outs[p]
    BY DEF MadeBy, OwnedBy, P
  <2>. QED  BY <2>1, <2>2 DEF Parts
<1>5. Parts(ins, P, SpentBy(c, n, k))
  <2>. HIDE DEF P
  <2>1. \A p, q \in P : p # q => ins[p] \cap ins[q] = {}
    BY <1>3, SMT DEF OwnedBy, Money
  <2>2. \A x : x \in SpentBy(c, n, k) <=> \E p \in P : x \in ins[p]
    BY DEF SpentBy, OwnedBy, Money, P
  <2>. QED  BY <2>1, <2>2 DEF Parts
<1>. HIDE DEF P
<1>6. ASSUME NEW p \in P
      PROVE  /\ IsFiniteSet(outs[p]) /\ \A coin \in outs[p] : coin.value \in Nat
             /\ f[p] = Value(outs[p]) /\ f[p] \in Nat
  <2>. DEFINE S == At(c, p).outs
              T == OwnedBy(S, k)
  <2>1. T \in SUBSET S /\ IsFiniteSet(S) /\ \A coin \in S : coin.value \in Nat
    BY <1>2 DEF OwnedBy
  <2>2. outs[p] = T /\ f[p] = Value(T)
    OBVIOUS
  <2>. HIDE DEF S, T
  <2>3. IsFiniteSet(T)
    BY <2>1, FS_Subset
  <2>4. \A coin \in T : coin.value \in Nat
    BY <2>1
  <2>5. Value(T) \in Nat
    BY <2>3, <2>4, ValueType
  <2>. HIDE DEF outs, f
  <2>. QED  BY <2>2, <2>3, <2>4, <2>5, SMT
<1>7. ASSUME NEW p \in P
      PROVE  /\ IsFiniteSet(ins[p]) /\ \A coin \in ins[p] : coin.value \in Nat
             /\ g[p] = Value(ins[p]) /\ g[p] \in Nat
  <2>. DEFINE S == At(c, p).ins
              T == OwnedBy(S, k)
  <2>1. T \in SUBSET S /\ IsFiniteSet(S) /\ \A coin \in S : coin.value \in Nat
    BY <1>2 DEF OwnedBy
  <2>2. ins[p] = Money(T) /\ g[p] = Value(T)
    BY SMT
  <2>. HIDE DEF S, T
  <2>3. IsFiniteSet(T)
    BY <2>1, FS_Subset
  <2>4. \A coin \in T : coin.value \in Nat
    BY <2>1
  <2>5. Value(T) \in Nat
    BY <2>3, <2>4, ValueType
  <2>6. IsFiniteSet(Money(T)) /\ Value(T) = Value(Money(T))
    BY <2>3, <2>4, ValueOfMoney
  <2>7. Money(T) \subseteq T
    BY DEF Money
  <2>. HIDE DEF ins, g
  <2>. QED  BY <2>2, <2>4, <2>5, <2>6, <2>7, SMT
<1>8. outs = [p \in P |-> outs[p]]
  OBVIOUS
<1>. HIDE DEF outs, ins, f, g
<1>9. SumFunctionOnSet(f, P) = Value(MadeBy(c, n, k))
  <2>1. \A p \in P : /\ IsFiniteSet(outs[p])
                     /\ \A coin \in outs[p] : coin.value \in Nat
                     /\ f[p] = Value(outs[p])
    BY <1>6, SMT
  <2>. QED  BY <1>1, <1>4, <2>1, ValueAddsUp, SMT
<1>10. SumFunctionOnSet(g, P) = Value(SpentBy(c, n, k))
  <2>1. \A p \in P : /\ IsFiniteSet(ins[p])
                     /\ \A coin \in ins[p] : coin.value \in Nat
                     /\ g[p] = Value(ins[p])
    BY <1>7
  <2>. QED  BY <1>1, <1>5, <2>1, ValueAddsUp
<1>11. IsFiniteSet(MadeBy(c, n, k))
  BY <1>1, <1>4, <1>6, <1>8, PartsAreFinite, SMT
<1>12. \A coin \in MadeBy(c, n, k) : coin.value \in Nat
  BY <1>4, <1>6 DEF Parts
<1>13. \A p \in P : f[p] \in Nat /\ g[p] \in Nat
  BY <1>6, <1>7
<1>. QED  BY <1>9, <1>10, <1>11, <1>12, <1>13 DEF f, g, P

\* The coins an address has left.
Left(c, n, k) ==
    OwnedBy((UNION {At(c, p).outs : p \in Places(c, 1, n)})
              \ UNION {At(c, p).ins : p \in Places(c, 1, n)}, k)

\* A ledger balances: what is left is what was made less what was spent.
LEMMA LedgerBalances ==
    ASSUME NEW c, IsChain(c), IsLedger(c), NEW n \in Nat, n <= Len(c), NEW k
    PROVE  Value(Left(c, n, k)) = Value(MadeBy(c, n, k)) - Value(SpentBy(c, n, k))
<1>. DEFINE P == Places(c, 1, n)
            R == Places(c, 1, Len(c))
            A == MadeBy(c, n, k)
            B == SpentBy(c, n, k)
            L == Left(c, n, k)
<1>1. IsFiniteSet(A) /\ \A coin \in A : coin.value \in Nat
  BY FlowsAddUp
<1>2. Len(c) \in Nat /\ P \subseteq R
  <2>1. Len(c) \in Nat /\ 1 .. n \subseteq 1 .. Len(c)
    BY SMT DEF IsChain
  <2>. QED  BY <2>1 DEF Places
<1>3. ASSUME NEW p \in P, NEW q \in R, ~Later(q, p) PROVE q \in P
  <2>1. PICK h \in 1 .. n : \E i \in 1 .. Len(c[h]) : p = <<h, i>>
    BY PlaceFacts, SMT
  <2>2. PICK j \in 1 .. Len(c) : \E i \in 1 .. Len(c[j]) : q = <<j, i>>
    BY PlaceFacts, SMT
  <2>3. j <= h
    BY <1>2, <1>3, <2>1, <2>2, SMT DEF Later
  <2>4. j \in 1 .. n
    BY <2>3, SMT
  <2>. QED  BY <2>2, <2>4, PlaceFacts
<1>. HIDE DEF P, R
<1>4. \A p \in P : \A coin \in Money(At(c, p).ins) :
         \E q \in P : coin \in At(c, q).outs
  <2>1. \A p \in R : \A coin \in Money(At(c, p).ins) :
           \E q \in R : ~Later(q, p) /\ coin \in At(c, q).outs
    BY DEF IsLedger, R
  <2>. QED  BY <1>2, <1>3, <2>1
<1>5. /\ \A x : x \in A <=> x.owner = k /\ \E p \in P : x \in At(c, p).outs
      /\ \A x : x \in B <=> x.value # 0 /\ x.owner = k /\ \E p \in P : x \in At(c, p).ins
      /\ \A x : x \in L <=> /\ x.owner = k
                            /\ \E p \in P : x \in At(c, p).outs
                            /\ ~ \E p \in P : x \in At(c, p).ins
  BY DEF MadeBy, SpentBy, Left, OwnedBy, Money, P
<1>. HIDE DEF A, B, L
<1>6. B \subseteq A
  BY <1>4, <1>5 DEF Money
<1>7. L \subseteq A /\ Money(L) = Money(A \ B)
  BY <1>5 DEF Money
<1>8. IsFiniteSet(L) /\ IsFiniteSet(A \ B)
  BY <1>1, <1>7, FS_Subset, SMT
<1>9. Value(L) = Value(Money(L))
  BY <1>1, <1>7, <1>8, ValueOfMoney
<1>10. Value(A \ B) = Value(Money(A \ B))
  <2>. DEFINE D == A \ B
  <2>1. IsFiniteSet(D) /\ \A coin \in D : coin.value \in Nat
    BY <1>1, <1>8
  <2>. HIDE DEF D
  <2>2. Value(D) = Value(Money(D))
    BY <2>1, ValueOfMoney
  <2>. QED  BY <2>2 DEF D
<1>11. Value(A \ B) = Value(A) - Value(B)
  BY <1>1, <1>6, ValueOfRest
<1>12. Value(L) = Value(A) - Value(B)
  BY <1>7, <1>9, <1>10, <1>11
<1>. QED  BY <1>12 DEF A, B, L

\* The sums of the epochs' facts.
LEMMA FlowsOfEpochs ==
    ASSUME NEW c, IsChain(c), IsLedger(c), NEW e \in Nat, e * EpochLength <= Len(c), NEW k
    PROVE  LET credits == [i \in 1 .. e |-> Credits(c, i, k)]
               debits == [i \in 1 .. e |-> Debits(c, i, k)]
               n == e * EpochLength
           IN  /\ SumFunctionOnSet(credits, 1 .. e) = Value(MadeBy(c, n, k))
               /\ SumFunctionOnSet(debits, 1 .. e) = Value(SpentBy(c, n, k))
<1>. DEFINE n == e * EpochLength
            P == Places(c, 1, n)
            f == [p \in P |-> Value(OwnedBy(At(c, p).outs, k))]
            g == [p \in P |-> Value(OwnedBy(At(c, p).ins, k))]
            credits == [i \in 1 .. e |-> Credits(c, i, k)]
            debits == [i \in 1 .. e |-> Debits(c, i, k)]
<1>1. n \in Nat /\ n <= Len(c)
  BY PipelineAssumption, SMT
<1>2. /\ \A p \in P : f[p] \in Nat /\ g[p] \in Nat
      /\ SumFunctionOnSet(f, P) = Value(MadeBy(c, n, k))
      /\ SumFunctionOnSet(g, P) = Value(SpentBy(c, n, k))
  <2>. HIDE DEF n
  <2>. QED  BY <1>1, FlowsAddUp
<1>3. ASSUME NEW i \in 1 .. e PROVE \A p \in EpochPlaces(c, i) : p \in P
  BY EpochsPartTheChain
<1>4. ASSUME NEW i \in 1 .. e
      PROVE  credits[i] = SumFunction([p \in EpochPlaces(c, i) |-> f[p]])
  <2>. HIDE DEF P
  <2>1. [p \in EpochPlaces(c, i) |-> f[p]]
          = [p \in EpochPlaces(c, i) |-> Value(OwnedBy(At(c, p).outs, k))]
    BY <1>3
  <2>. QED  BY <2>1 DEF Credits
<1>5. ASSUME NEW i \in 1 .. e
      PROVE  debits[i] = SumFunction([p \in EpochPlaces(c, i) |-> g[p]])
  <2>. HIDE DEF P
  <2>1. [p \in EpochPlaces(c, i) |-> g[p]]
          = [p \in EpochPlaces(c, i) |-> Value(OwnedBy(At(c, p).ins, k))]
    BY <1>3
  <2>. QED  BY <2>1 DEF Debits
<1>. HIDE DEF f, g, credits, debits
<1>6. SumFunctionOnSet(credits, 1 .. e) = SumFunctionOnSet(f, Places(c, 1, e * EpochLength))
  <2>1. \A p \in Places(c, 1, e * EpochLength) : f[p] \in Int
    BY <1>2, SMT
  <2>. QED  BY <1>4, <2>1, SumOverEpochs
<1>7. SumFunctionOnSet(debits, 1 .. e) = SumFunctionOnSet(g, Places(c, 1, e * EpochLength))
  <2>1. \A p \in Places(c, 1, e * EpochLength) : g[p] \in Int
    BY <1>2, SMT
  <2>. QED  BY <1>5, <2>1, SumOverEpochs
<1>. QED  BY <1>2, <1>6, <1>7 DEF credits, debits

\* The saldo of a cluster on a ledger: what it has left and what it returned.
LEMMA SaldoOfLedger ==
    ASSUME NEW c, IsChain(c), IsLedger(c), NEW e \in Nat, e * EpochLength <= Len(c), NEW k
    PROVE  Saldo(c, e, k) = Value(Left(c, e * EpochLength, k))
                              + SumFunction([i \in 1 .. e |-> Restituted(c, i, k)])
<1>. DEFINE E == 1 .. e
            n == e * EpochLength
            credits == [i \in E |-> Credits(c, i, k)]
            debits == [i \in E |-> Debits(c, i, k)]
            back == [i \in E |-> Restituted(c, i, k)]
            net == [i \in E |-> Credits(c, i, k) - Debits(c, i, k)]
            gain == [i \in E |-> Gain(Credits(c, i, k), Debits(c, i, k), Restituted(c, i, k))]
<1>1. IsFiniteSet(E)
  BY FS_Interval, SMT
<1>2. n \in Nat /\ n <= Len(c) /\ Len(c) \in Nat
  BY PipelineAssumption, SMT DEF IsChain
<1>3. ASSUME NEW i \in E
      PROVE  Credits(c, i, k) \in Nat /\ Debits(c, i, k) \in Nat /\ Restituted(c, i, k) \in Nat
  <2>. DEFINE x == i * EpochLength
  <2>1. i \in Nat /\ i >= 1 /\ i <= e
    BY SMT
  <2>2. LastHeight(i) + 1 = x /\ x \in Nat /\ x <= n
    BY <2>1, MoreEpochsLast, EpochPlacesFacts
  <2>. HIDE DEF x, n
  <2>3. LastHeight(i) + 1 <= Len(c)
    BY <1>2, <2>2, SMT
  <2>. QED  BY <2>1, <2>3, FactsType
<1>4. \A i \in E : gain[i] = net[i] + back[i] /\ net[i] \in Int /\ back[i] \in Int
  BY <1>3, SMT DEF Gain
<1>5. \A i \in E : credits[i] = net[i] + debits[i] /\ net[i] \in Int /\ debits[i] \in Int
  BY <1>3, SMT
<1>6. Saldo(c, e, k) = SumFunctionOnSet(gain, E)
        /\ SumFunction(back) = SumFunctionOnSet(back, E)
  BY DEF Saldo, SumFunction
<1>7. SumFunctionOnSet(credits, E) = Value(MadeBy(c, n, k))
        /\ SumFunctionOnSet(debits, E) = Value(SpentBy(c, n, k))
  BY FlowsOfEpochs
<1>8. Value(Left(c, n, k)) = Value(MadeBy(c, n, k)) - Value(SpentBy(c, n, k))
  <2>. HIDE DEF n
  <2>. QED  BY <1>2, LedgerBalances
<1>. HIDE DEF E, gain, net, back, credits, debits, n
<1>9. SumFunctionOnSet(gain, E) = SumFunctionOnSet(net, E) + SumFunctionOnSet(back, E)
  BY <1>1, <1>4, SumAdds, SMT
<1>10. SumFunctionOnSet(credits, E) = SumFunctionOnSet(net, E) + SumFunctionOnSet(debits, E)
  BY <1>1, <1>5, SumAdds, SMT
<1>11. SumFunctionOnSet(net, E) \in Int /\ SumFunctionOnSet(debits, E) \in Int
         /\ SumFunctionOnSet(back, E) \in Int
  <2>1. E \in SUBSET E
    OBVIOUS
  <2>. QED  BY <1>1, <1>4, <1>5, <2>1, SumOfIntegersType, SMT
<1>12. Saldo(c, e, k) = Value(Left(c, n, k)) + SumFunction(back)
  BY <1>6, <1>7, <1>8, <1>9, <1>10, <1>11, SMT
<1>. QED  BY <1>12 DEF n, back, E

\* The newest complete epoch.
LEMMA NewestCompleteEpoch ==
    ASSUME NEW len \in Nat, len >= 1
    PROVE  LET e == HeightToEpoch((len - 1) + 1) - 1
           IN  /\ e \in Nat
               /\ LastHeight(e) + 1 = e * EpochLength
               /\ e * EpochLength \in Nat
               /\ e * EpochLength <= len
<1>. USE PipelineAssumption
<1>. DEFINE q == len \div EpochLength
<1>1. q \in Nat /\ q * EpochLength \in Nat /\ q * EpochLength <= len
  BY QuotientFacts, SMT
<1>2. (len - 1) + 1 = len /\ ~(len < 0)
  BY SMT
<1>3. HeightToEpoch((len - 1) + 1) = q + 1
  BY <1>2 DEF HeightToEpoch
<1>. HIDE DEF q
<1>4. HeightToEpoch((len - 1) + 1) - 1 = q
  BY <1>1, <1>3, SMT
<1>5. LastHeight(q) + 1 = q * EpochLength
  BY <1>1, SMT DEF LastHeight
<1>. QED  BY <1>1, <1>4, <1>5

\* On a chain that is a ledger the saldo is as WeightEngine::Saldo says.
LEMMA LedgerMeansSaldo ==
    ASSUME ChainInv, IsChain(chain), IsLedger(chain), Len(chain) >= 1
    PROVE  SaldoIsBalancePlusReturned
<1>. DEFINE e == HeightToEpoch(Height + 1) - 1
            n == e * EpochLength
            kept == SubSeq(chain, 1, LastHeight(e) + 1)
<1>1. e \in Nat /\ LastHeight(e) + 1 = n /\ n \in Nat /\ n <= Len(chain) /\ Len(chain) \in Nat
  <2>1. Len(chain) \in Nat
    BY DEF IsChain
  <2>. QED  BY <2>1, NewestCompleteEpoch DEF Height
<1>2. kept = SubSeq(chain, 1, n)
  BY <1>1
<1>3. Len(kept) = n /\ \A h \in 1 .. n : kept[h] = chain[h]
  <2>. HIDE DEF n, kept
  <2>. QED  BY <1>1, <1>2, SMT DEF ChainInv
<1>4. Mined(kept) = {At(chain, p) : p \in Places(chain, 1, n)}
  <2>. HIDE DEF n, kept
  <2>1. Places(kept, 1, n) = Places(chain, 1, n)
    <3>1. \A h \in 1 .. n : {h} \X (1 .. Len(kept[h])) = {h} \X (1 .. Len(chain[h]))
      BY <1>3
    <3>. QED  BY <3>1, SMT DEF Places
  <2>2. ASSUME NEW p \in Places(chain, 1, n) PROVE At(kept, p) = At(chain, p)
    <3>1. PICK h \in 1 .. n : \E i \in 1 .. Len(chain[h]) : p = <<h, i>>
      BY PlaceFacts, SMT
    <3>. QED  BY <1>3, <3>1, SMT DEF At
  <2>. QED  BY <1>3, <2>1, <2>2 DEF Mined
<1>5. ASSUME NEW k PROVE OwnedBy(Utxo(kept), k) = Left(chain, n, k)
  <2>. HIDE DEF n, kept
  <2>1. UNION {tx.outs : tx \in Mined(kept)} = UNION {At(chain, p).outs : p \in Places(chain, 1, n)}
    BY <1>4
  <2>2. UNION {tx.ins : tx \in Mined(kept)} = UNION {At(chain, p).ins : p \in Places(chain, 1, n)}
    BY <1>4
  <2>. QED  BY <2>1, <2>2 DEF Utxo, Left
<1>6. ASSUME NEW k \in Node
      PROVE  Saldo(chain, e, k) = Value(OwnedBy(Utxo(kept), k))
                + SumFunction([i \in 1 .. e |-> Restituted(chain, i, k)])
  <2>1. e * EpochLength <= Len(chain)
    BY <1>1
  <2>2. Left(chain, e * EpochLength, k) = OwnedBy(Utxo(kept), k)
    BY <1>5
  <2>. HIDE DEF e, kept
  <2>. QED  BY <1>1, <2>1, <2>2, SaldoOfLedger, SMT
<1>. HIDE DEF n
<1>. QED  BY <1>6 DEF SaldoIsBalancePlusReturned

(***************************************************************************)
(* The theorems.                                                           *)
(***************************************************************************)

\* The invariant of the module WeightEpochsProofs holds in every state.
LEMMA EpochsInvHolds == Spec => []EpochsInv
<1>1. Init => EpochsInv
  BY EpochsInit
<1>2. EpochsInv /\ [Next]_vars => EpochsInv'
  BY EpochsStep, ThePipelineFacts
<1>. QED  BY <1>1, <1>2, PTL DEF Spec

\* Weights, epochs and counters stay in their ranges: whatever the chain, the
\* inputs and the faults, no engine settles on a weight its field cannot
\* hold (WeightEngine::ToIntegerWeight, ThreadWeightEngine).
THEOREM EpochsTypeCorrect == Spec => []TypeOK
<1>1. EpochsInv => TypeOK
  BY EpochsTypes, SMT
<1>. QED  BY <1>1, EpochsInvHolds, PTL

\* The verifier accuses nobody unjustly and misses nothing it can see, for any
\* number of nodes and any history: a node whose engine has the agreed
\* parameters marks a record as wrong only if an engine with others made it
\* or it was computed from other inputs, and does mark the former when the
\* inputs are the same (mc_VerifyPublishedWeights).
THEOREM JustVerdicts == Spec => []VerdictsAreJust
<1>1. EpochsInv => VerdictsAreJust
  BY DEF EpochsInv
<1>. QED  BY <1>1, EpochsInvHolds, PTL

\* A weight the thread has registered is what the registry returns for the
\* node once no record of it is in flight, unless two of its records were
\* (StreamWeightRegistry::RegisterLocalWeight).
THEOREM RegistrationsStand == Spec => []RegisteredWeightStands
<1>1. EpochsInv => RegisteredWeightStands
  BY SMT DEF EpochsInv, StandInv, Stands, RegisteredWeightStands
<1>. QED  BY <1>1, EpochsInvHolds, PTL

\* The saldo the pipeline carries is the balance of the ledger plus what was
\* paid back, on every chain that validation lets through
\* (WeightEngine::Saldo).
THEOREM SaldoFollowsLedger == Spec => []SaldoIsBalancePlusReturned
<1>1. EpochsInv => SaldoIsBalancePlusReturned
  <2>. SUFFICES ASSUME EpochsInv PROVE SaldoIsBalancePlusReturned
    OBVIOUS
  <2>1. ChainInv /\ IsChain(chain) /\ IsLedger(chain) /\ Len(chain) >= 1
    BY LedgerFacts DEF EpochsInv, LedgerInv
  <2>. QED  BY <2>1, LedgerMeansSaldo, SMT
<1>. QED  BY <1>1, EpochsInvHolds, PTL
====
