------------------------- MODULE RandaoBeaconProofs -------------------------
(* Proofs about RandaoBeacon: whatever the number of nodes, the tree of     *)
(* blocks, the lookback and the order of requests, with blocks that arrive  *)
(* after their parents the memo never leaves the chain's own accumulator.   *)
EXTENDS RandaoBeacon, SequenceTheorems, WellFoundedInduction, TLAPS

-----------------------------------------------------------------------------
(* Chains and their prefixes. *)

\* A block is a sequence of labels no longer than the tree is high.
LEMMA BlockIsSeq ==
    ASSUME NEW b \in Blocks
    PROVE  /\ b \in Seq(Label)
           /\ Len(b) \in 0 .. MaxHeight
           /\ Len(b) \in Nat
           /\ b = [i \in 1 .. Len(b) |-> b[i]]
<1>1. PICK h \in 0 .. MaxHeight : b \in [1 .. h -> Label]
  BY DEF Blocks
<1>2. h \in Nat
  BY <1>1, BeaconAssumption
<1>3. b \in Seq(Label) /\ Len(b) = h
  BY <1>1, <1>2
<1> QED
  BY <1>1, <1>2, <1>3

\* Every such sequence is a block.
LEMMA SeqIsBlock ==
    ASSUME NEW b \in Seq(Label), Len(b) <= MaxHeight
    PROVE  b \in Blocks
<1>1. Len(b) \in 0 .. MaxHeight
  BY BeaconAssumption
<1>2. b \in [1 .. Len(b) -> Label]
  OBVIOUS
<1> QED
  BY <1>1, <1>2 DEF Blocks

\* Genesis is the block of height 0.
LEMMA GenesisIsBlock == Genesis \in Blocks /\ Len(Genesis) = 0
<1>1. Genesis \in Seq(Label) /\ Len(Genesis) = 0
  BY DEF Genesis
<1>2. 0 <= MaxHeight
  BY BeaconAssumption
<1> QED
  BY Zenon, <1>1, <1>2, SeqIsBlock

\* The ancestor at height i is a block of height i and agrees with b up to it.
LEMMA AncestorProps ==
    ASSUME NEW b \in Blocks, NEW i \in 0 .. Len(b)
    PROVE  /\ Ancestor(b, i) \in Blocks
           /\ Len(Ancestor(b, i)) = i
           /\ \A j \in 1 .. i : Ancestor(b, i)[j] = b[j]
<1>1. b \in Seq(Label) /\ Len(b) \in Nat /\ Len(b) \in 0 .. MaxHeight
  BY BlockIsSeq
<1>2. SubSeq(b, 1, i) = [j \in 1 .. i |-> b[j]]
  BY <1>1
<1>3. SubSeq(b, 1, i) \in Seq(Label) /\ Len(SubSeq(b, 1, i)) = i
  BY <1>1, <1>2
<1>4. i <= MaxHeight
  BY <1>1, BeaconAssumption
<1>5. SubSeq(b, 1, i) \in Blocks
  BY Zenon, <1>3, <1>4, SeqIsBlock
<1> QED
  BY <1>2, <1>3, <1>5 DEF Ancestor

\* An ancestor of an ancestor is an ancestor.
LEMMA AncestorOfAncestor ==
    ASSUME NEW b \in Blocks, NEW i \in 0 .. Len(b), NEW j \in 0 .. i
    PROVE  Ancestor(Ancestor(b, i), j) = Ancestor(b, j)
<1>1. Len(b) \in Nat /\ b \in Seq(Label) /\ j \in 0 .. Len(b) /\ i \in Nat /\ j \in Nat
  BY BlockIsSeq
<1>2. Ancestor(b, i) \in Blocks /\ Len(Ancestor(b, i)) = i
  BY AncestorProps
<1>3. /\ Ancestor(b, j) \in Blocks /\ Len(Ancestor(b, j)) = j
      /\ \A k \in 1 .. j : Ancestor(b, j)[k] = b[k]
  BY <1>1, AncestorProps
<1>4. /\ Ancestor(Ancestor(b, i), j) \in Blocks
      /\ Len(Ancestor(Ancestor(b, i), j)) = j
      /\ \A k \in 1 .. j : Ancestor(Ancestor(b, i), j)[k] = Ancestor(b, i)[k]
  BY <1>2, AncestorProps
<1>5. \A k \in 1 .. j : Ancestor(Ancestor(b, i), j)[k] = Ancestor(b, j)[k]
  BY <1>1, <1>3, <1>4, AncestorProps
<1>6. Ancestor(b, j) = [k \in 1 .. j |-> Ancestor(b, j)[k]]
  BY <1>3, BlockIsSeq
<1>7. Ancestor(Ancestor(b, i), j) = [k \in 1 .. j |-> Ancestor(Ancestor(b, i), j)[k]]
  BY <1>4, BlockIsSeq
<1> QED
  BY <1>5, <1>6, <1>7

\* A block is its own ancestor at its own height.
LEMMA AncestorSelf ==
    ASSUME NEW b \in Blocks
    PROVE  Ancestor(b, Len(b)) = b /\ b \in Ancestors(b)
<1>1. Len(b) \in Nat /\ b = [i \in 1 .. Len(b) |-> b[i]]
  BY BlockIsSeq
<1>2. /\ Ancestor(b, Len(b)) \in Blocks /\ Len(Ancestor(b, Len(b))) = Len(b)
      /\ \A k \in 1 .. Len(b) : Ancestor(b, Len(b))[k] = b[k]
  BY <1>1, AncestorProps
<1>3. Ancestor(b, Len(b)) = [k \in 1 .. Len(b) |-> Ancestor(b, Len(b))[k]]
  BY <1>2, BlockIsSeq
<1>4. Ancestor(b, Len(b)) = b
  BY <1>1, <1>2, <1>3
<1> QED
  BY <1>1, <1>4 DEF Ancestors

\* The ancestors of an ancestor are among the block's own.
LEMMA AncestorIsAncestor ==
    ASSUME NEW b \in Blocks, NEW i \in 0 .. Len(b)
    PROVE  Ancestor(b, i) \in Ancestors(b) /\ Ancestors(Ancestor(b, i)) \subseteq Ancestors(b)
<1>1. Len(Ancestor(b, i)) = i /\ Len(b) \in Nat
  BY AncestorProps, BlockIsSeq
<1>2. \A j \in 0 .. i : Ancestor(Ancestor(b, i), j) = Ancestor(b, j) /\ j \in 0 .. Len(b)
  BY <1>1, AncestorOfAncestor
<1> QED
  BY <1>1, <1>2 DEF Ancestors

\* All ancestors are blocks.
LEMMA AncestorsAreBlocks ==
    ASSUME NEW b \in Blocks
    PROVE  Ancestors(b) \subseteq Blocks
  BY AncestorProps DEF Ancestors

\* The parent lies one below, and its ancestors are the others of the block.
LEMMA ParentProps ==
    ASSUME NEW b \in Blocks, Len(b) # 0
    PROVE  /\ Parent(b) \in Blocks
           /\ Len(Parent(b)) = Len(b) - 1
           /\ Parent(b) \in Ancestors(b)
           /\ Ancestors(b) = Ancestors(Parent(b)) \cup {b}
<1>1. Len(b) \in Nat /\ Len(b) - 1 \in 0 .. Len(b)
  BY BlockIsSeq
<1>2. Parent(b) = Ancestor(b, Len(b) - 1)
  BY DEF Parent, Ancestor
<1>3. /\ Parent(b) \in Blocks
      /\ Len(Parent(b)) = Len(b) - 1
      /\ Parent(b) \in Ancestors(b)
      /\ Ancestors(Parent(b)) \subseteq Ancestors(b)
  BY <1>1, <1>2, AncestorProps, AncestorIsAncestor
<1>4. ASSUME NEW a \in Ancestors(b)
      PROVE  a \in Ancestors(Parent(b)) \cup {b}
  <2>1. PICK i \in 0 .. Len(b) : a = Ancestor(b, i)
    BY DEF Ancestors
  <2>2. CASE i = Len(b)
    BY <2>1, <2>2, AncestorSelf
  <2>3. CASE i # Len(b)
    <3>1. i \in 0 .. (Len(b) - 1)
      BY <1>1, <2>3
    <3>2. a = Ancestor(Parent(b), i)
      BY <1>1, <1>2, <2>1, <3>1, AncestorOfAncestor
    <3> QED
      BY <1>3, <3>1, <3>2 DEF Ancestors
  <2> QED
    BY <2>2, <2>3
<1> QED
  BY <1>3, <1>4, AncestorSelf

\* A block mined on t has t as its parent.
LEMMA ChildProps ==
    ASSUME NEW t \in Blocks, NEW l \in Label, Len(t) + 1 <= MaxHeight
    PROVE  /\ Append(t, l) \in Blocks
           /\ Len(Append(t, l)) = Len(t) + 1
           /\ Parent(Append(t, l)) = t
<1>1. t \in Seq(Label) /\ Len(t) \in Nat /\ t = [i \in 1 .. Len(t) |-> t[i]]
  BY BlockIsSeq
<1>2. Append(t, l) \in Seq(Label) /\ Len(Append(t, l)) = Len(t) + 1
  BY <1>1
<1>3. Append(t, l) \in Blocks
  BY Zenon, <1>2, SeqIsBlock
<1>4. Parent(Append(t, l)) = [i \in 1 .. Len(t) |-> Append(t, l)[i]]
  BY <1>1, <1>2 DEF Parent
<1>5. \A i \in 1 .. Len(t) : Append(t, l)[i] = t[i]
  BY <1>1
<1> QED
  BY <1>1, <1>2, <1>3, <1>4, <1>5

\* The block R_tot is taken from is an ancestor of the tip.
LEMMA LookbackProps ==
    ASSUME NEW t \in Blocks
    PROVE  /\ LookbackBlock(t) \in Blocks
           /\ LookbackBlock(t) \in Ancestors(t)
           /\ Ancestors(LookbackBlock(t)) \subseteq Ancestors(t)
<1>1. Len(t) \in Nat
  BY BlockIsSeq
<1>2. (IF Len(t) > Lookback THEN Len(t) - Lookback ELSE 0) \in 0 .. Len(t)
  BY <1>1, BeaconAssumption
<1> QED
  BY <1>2, AncestorProps, AncestorIsAncestor DEF LookbackBlock

-----------------------------------------------------------------------------
(* The accumulator. *)

\* The walk back of GetAccumulator ends: a bounded set has a maximum.
LEMMA BoundedSetHasMaximum ==
    ASSUME NEW S \in SUBSET Nat, S # {}, NEW k \in Nat, \A i \in S : i <= k
    PROVE  \E m \in S : \A i \in S : i <= m
<1> DEFINE T == {x \in Nat : k - x \in S}
           R == OpToRel(<, Nat)
<1>1. T \subseteq Nat
  OBVIOUS
<1>2. T # {}
  <2>1. PICK i \in S : TRUE
    BY Zenon
  <2>2. k - i \in Nat /\ k - (k - i) = i
    BY <2>1
  <2>3. k - i \in T
    BY <2>1, <2>2
  <2> QED
    BY Zenon, <2>3
<1>3. \E x \in T : \A y \in T : ~(<<y, x>> \in R)
  <2> HIDE DEF T, R
  <2>1. IsWellFoundedOn(R, Nat)
    BY Zenon, NatLessThanWellFounded DEF R
  <2> QED
    BY Zenon, <1>1, <1>2, <2>1, WFMin
<1>4. PICK x \in T : \A y \in T : ~(<<y, x>> \in R)
  BY Zenon, <1>3
<1>5. \A y \in T : ~(y < x)
  BY Zenon, <1>1, <1>4 DEF OpToRel
<1>6. k - x \in S
  OBVIOUS
<1>7. ASSUME NEW i \in S PROVE i <= k - x
  <2>1. i \in Nat /\ i <= k
    OBVIOUS
  <2>2. k - i \in Nat /\ k - (k - i) = i
    BY <2>1
  <2>3. k - i \in T
    BY <2>2
  <2>4. ~(k - i < x)
    BY <2>3, <1>5
  <2> QED
    BY <2>1, <2>4, <1>1
<1> QED
  BY <1>6, <1>7

\* The walk stops at the nearest memoised ancestor or below the beacon.
LEMMA BaseHeightProps ==
    ASSUME NEW b \in Blocks, NEW C
    PROVE  /\ BaseHeight(C, b) \in CachedHeights(C, b) \cup {FirstBeacon - 1}
           /\ BaseHeight(C, b) \in Nat
           /\ BaseHeight(C, b) >= FirstBeacon - 1
           /\ BaseHeight(C, b) >= FirstBeacon =>
                 /\ BaseHeight(C, b) <= Len(b)
                 /\ Ancestor(b, BaseHeight(C, b)) \in DOMAIN C
<1> DEFINE S == CachedHeights(C, b) \cup {FirstBeacon - 1}
           k == Len(b) + FirstBeacon
<1>1. Len(b) \in Nat /\ FirstBeacon \in Nat \ {0}
  BY BlockIsSeq, BeaconAssumption
<1>2. S \in SUBSET Nat /\ S # {} /\ k \in Nat /\ \A i \in S : i <= k
  BY <1>1 DEF CachedHeights
<1>3. \E m \in S : \A i \in S : i <= m
  <2> HIDE DEF S, k
  <2> QED BY Zenon, <1>2, BoundedSetHasMaximum
<1>4. BaseHeight(C, b) \in S /\ \A i \in S : i <= BaseHeight(C, b)
  BY <1>3 DEF BaseHeight
<1>5. FirstBeacon - 1 <= BaseHeight(C, b) /\ BaseHeight(C, b) \in Nat
  BY <1>2, <1>4
<1>6. ASSUME BaseHeight(C, b) >= FirstBeacon
      PROVE  BaseHeight(C, b) \in CachedHeights(C, b)
  BY <1>1, <1>4, <1>6
<1>7. ASSUME BaseHeight(C, b) >= FirstBeacon
      PROVE  BaseHeight(C, b) <= Len(b) /\ Ancestor(b, BaseHeight(C, b)) \in DOMAIN C
  BY <1>1, <1>6, <1>7 DEF CachedHeights
<1> QED
  BY <1>1, <1>4, <1>5, <1>7

\* A memo in which every entry is the accumulator of its own chain.
CoherentMemo(C) ==
    \A p \in DOMAIN C : p \in Blocks /\ C[p] = ChainAccumulator(p)

\* With a coherent memo and all ancestors on disk, GetAccumulator returns the
\* accumulator of the chain.
LEMMA AccumulatorCorrect ==
    ASSUME NEW b \in Blocks, NEW C, NEW D, CoherentMemo(C), Ancestors(b) \subseteq D
    PROVE  GetAccumulator(C, D, b) = ChainAccumulator(b)
<1> DEFINE m == BaseHeight(C, b)
           base == IF m < FirstBeacon THEN {} ELSE C[Ancestor(b, m)]
           old == {<<"reveal", Ancestor(b, i)>> : i \in FirstBeacon .. m}
           new == {<<"reveal", Ancestor(b, i)>> : i \in m + 1 .. Len(b)}
<1>1. Len(b) \in Nat /\ FirstBeacon \in Nat \ {0}
  BY BlockIsSeq, BeaconAssumption
<1>2. /\ m \in Nat /\ m >= FirstBeacon - 1
      /\ m >= FirstBeacon => m <= Len(b) /\ Ancestor(b, m) \in DOMAIN C
  BY BaseHeightProps
<1>3. base = old
  <2>1. CASE m < FirstBeacon
    BY <1>1, <1>2, <2>1
  <2>2. CASE m >= FirstBeacon
    <3>1. m \in 0 .. Len(b) /\ Len(Ancestor(b, m)) = m
      BY <1>1, <1>2, <2>2, AncestorProps
    <3>2. C[Ancestor(b, m)] = {<<"reveal", Ancestor(Ancestor(b, m), i)>> : i \in FirstBeacon .. m}
      BY <1>2, <2>2, <3>1 DEF CoherentMemo, ChainAccumulator
    <3>3. \A i \in FirstBeacon .. m : Ancestor(Ancestor(b, m), i) = Ancestor(b, i)
      BY <1>1, <1>2, <3>1, AncestorOfAncestor
    <3> QED
      BY <1>1, <1>2, <2>2, <3>2, <3>3
  <2> QED
    BY <1>1, <1>2, <2>1, <2>2
<1>4. {Contribution(D, Ancestor(b, i)) : i \in m + 1 .. Len(b)} = new
  <2>1. \A i \in m + 1 .. Len(b) : Contribution(D, Ancestor(b, i)) = <<"reveal", Ancestor(b, i)>>
    BY <1>1, <1>2 DEF Contribution, Ancestors
  <2> QED
    BY <2>1
<1>5. old \cap new = {}
  <2>1. \A i \in FirstBeacon .. m, j \in m + 1 .. Len(b) :
           Len(Ancestor(b, i)) = i /\ Len(Ancestor(b, j)) = j /\ i # j
    <3>1. ASSUME NEW i \in FirstBeacon .. m, NEW j \in m + 1 .. Len(b)
          PROVE  i \in 0 .. Len(b) /\ j \in 0 .. Len(b) /\ i # j
      BY <1>1, <1>2
    <3> QED
      BY <3>1, AncestorProps
  <2> QED
    BY <2>1
<1>6. old \cup new = ChainAccumulator(b)
  <2>1. CASE m >= FirstBeacon
    <3>1. FirstBeacon .. Len(b) = (FirstBeacon .. m) \cup (m + 1 .. Len(b))
      BY <1>1, <1>2, <2>1
    <3> QED
      BY <3>1 DEF ChainAccumulator
  <2>2. CASE m = FirstBeacon - 1
    BY <1>1, <1>2, <2>2 DEF ChainAccumulator
  <2> QED
    BY <1>1, <1>2, <2>1, <2>2
<1>7. GetAccumulator(C, D, b) = XOR(base, new)
  BY Zenon, <1>4 DEF GetAccumulator
<1> HIDE DEF base, old, new
<1> QED
  BY <1>3, <1>5, <1>6, <1>7 DEF XOR

\* What it memoises on the way is coherent, too.
LEMMA MemoStaysCoherent ==
    ASSUME NEW C, NEW D, NEW T \in SUBSET Blocks, CoherentMemo(C),
           \A t \in T : Ancestors(t) \subseteq D
    PROVE  /\ CoherentMemo(Memoised(C, D, T))
           /\ DOMAIN Memoised(C, D, T) \subseteq DOMAIN C \cup D
<1> DEFINE new == UNION {{Ancestor(t, i) : i \in BaseHeight(C, t) + 1 .. Len(t)} : t \in T}
<1>1. ASSUME NEW p \in new
      PROVE  p \in Blocks /\ Ancestors(p) \subseteq D /\ p \in D
  <2>1. PICK t \in T : \E i \in BaseHeight(C, t) + 1 .. Len(t) : p = Ancestor(t, i)
    OBVIOUS
  <2>2. PICK i \in BaseHeight(C, t) + 1 .. Len(t) : p = Ancestor(t, i)
    BY <2>1
  <2>3. t \in Blocks /\ i \in 0 .. Len(t)
    BY SMTT(30), BaseHeightProps, BlockIsSeq, <2>1, <2>2
  <2> QED
    BY <2>2, <2>3, AncestorProps, AncestorIsAncestor
<1>2. \A p \in new : GetAccumulator(C, D, p) = ChainAccumulator(p)
  <2> HIDE DEF new
  <2> QED BY <1>1, AccumulatorCorrect
<1>3. Memoised(C, D, T) = [p \in DOMAIN C \cup new |->
            IF p \in DOMAIN C THEN C[p] ELSE GetAccumulator(C, D, p)]
  BY DEF Memoised
<1> HIDE DEF new
<1> QED
  BY <1>1, <1>2, <1>3 DEF CoherentMemo

-----------------------------------------------------------------------------
(* The inductive invariant. *)

\* What a node has on disk, it has on disk down to genesis.
DataClosed == \A n \in Node : \A b \in data[n] : Ancestors(b) \subseteq data[n]

IInv ==
    /\ TypeOK
    /\ DataClosed
    /\ MemoMatchesChain
    /\ NoHonestBlockRefused
    /\ OnlyProvenBlocksAccepted

\* The same, sorted by the part of the state it speaks of.
GlobalOK ==
    /\ headers \in [Node -> SUBSET Blocks]
    /\ data \in [Node -> SUBSET Blocks]
    /\ failed \in [Node -> SUBSET Blocks]
    /\ tip \in [Node -> Blocks]
    /\ DOMAIN cache = Node
    /\ DOMAIN proof \subseteq Blocks
    /\ \A b \in DOMAIN proof : b # Genesis
    /\ \A b \in DOMAIN proof : proof[b] = NoReveal \/ proof[b] \in Seeds

NodeInv(n) ==
    /\ headers[n] \subseteq DOMAIN proof \cup {Genesis}
    /\ Genesis \in data[n]
    /\ data[n] \subseteq headers[n]
    /\ failed[n] \subseteq headers[n] \ data[n]
    /\ DOMAIN cache[n] \subseteq headers[n]
    /\ \A b \in DOMAIN cache[n] : cache[n][b] \in SUBSET Values
    /\ \A b \in headers[n] : Ancestors(b) \subseteq headers[n]
    /\ tip[n] \in Connectable(data[n], failed[n])
    /\ \A b \in data[n] : Ancestors(b) \subseteq data[n]
    /\ \A b \in DOMAIN cache[n] : cache[n][b] = ChainAccumulator(b)
    /\ \A b \in failed[n] : ~Proven(b)
    /\ \A b \in data[n] \ {Genesis} : Proven(b)

\* The invariant, node by node.
LEMMA InvByNode == IInv <=> GlobalOK /\ \A n \in Node : NodeInv(n)
  BY DEF IInv, TypeOK, DataClosed, MemoMatchesChain, NoHonestBlockRefused,
     OnlyProvenBlocksAccepted, GlobalOK, NodeInv

\* The same in the next state.
LEMMA InvByNodePrimed == GlobalOK' /\ (\A n \in Node : NodeInv(n)') => IInv'
  BY DEF IInv, TypeOK, DataClosed, MemoMatchesChain, NoHonestBlockRefused,
     OnlyProvenBlocksAccepted, GlobalOK, NodeInv

\* Blocks mined elsewhere do not disturb a node, nor change what is proven.
LEMMA ProvenIsStable ==
    ASSUME NEW c \in DOMAIN proof, proof'[c] = proof[c]
    PROVE  Proven(c)' <=> Proven(c)
  BY DEF Proven, WPoARANDAOActiveAtHeight, ChainSeed, DeriveSeed,
     ChainAccumulator, LookbackBlock, Ancestor, Parent

\* A node that took no part in a step keeps its part of the invariant.
LEMMA UndisturbedNode ==
    ASSUME NEW n \in Node, GlobalOK, NodeInv(n),
           DOMAIN proof \subseteq DOMAIN proof',
           \A c \in DOMAIN proof : proof'[c] = proof[c],
           headers'[n] = headers[n], data'[n] = data[n], failed'[n] = failed[n],
           cache'[n] = cache[n], tip'[n] = tip[n]
    PROVE  NodeInv(n)'
<1>1. \A c \in failed[n] \cup (data[n] \ {Genesis}) : Proven(c)' <=> Proven(c)
  BY ProvenIsStable DEF NodeInv
<1> QED
  BY <1>1 DEF NodeInv, Connectable

\* Under the invariant every node's memo is coherent.
LEMMA InvHasCoherentMemo ==
    ASSUME IInv, NEW n \in Node
    PROVE  CoherentMemo(cache[n])
  BY DEF IInv, TypeOK, MemoMatchesChain, CoherentMemo

\* The seed a node computes over a chain it has on disk is the chain's.
LEMMA SeedCorrect ==
    ASSUME NEW t \in Blocks, NEW C, NEW D, CoherentMemo(C), Ancestors(t) \subseteq D
    PROVE  WPoARandaoSelectionSeed(C, D, t) = ChainSeed(t)
<1>1. LookbackBlock(t) \in Blocks /\ Ancestors(LookbackBlock(t)) \subseteq D
  BY LookbackProps
<1>2. GetAccumulator(C, D, LookbackBlock(t)) = ChainAccumulator(LookbackBlock(t))
  BY <1>1, AccumulatorCorrect
<1> QED
  BY <1>2 DEF WPoARandaoSelectionSeed, ChainSeed

\* A chain's accumulator is a set of values.
LEMMA ChainAccumulatorType ==
    ASSUME NEW b \in Blocks
    PROVE  ChainAccumulator(b) \in SUBSET Values
<1>1. \A i \in FirstBeacon .. Len(b) : Ancestor(b, i) \in Blocks
  BY BlockIsSeq, AncestorProps, BeaconAssumption
<1> QED
  BY <1>1 DEF ChainAccumulator, Values

\* A chain's seed is a seed.
LEMMA ChainSeedType ==
    ASSUME NEW t \in Blocks
    PROVE  ChainSeed(t) \in Seeds
<1>1. LookbackBlock(t) \in Blocks /\ Len(t) \in 0 .. MaxHeight
  BY LookbackProps, BlockIsSeq
<1>2. ChainAccumulator(LookbackBlock(t)) \in SUBSET Values
  BY <1>1, ChainAccumulatorType
<1>3. Len(t) + 1 \in 1 .. MaxHeight + 1
  BY <1>1, BeaconAssumption
<1> QED
  BY <1>2, <1>3 DEF ChainSeed, DeriveSeed, Seeds

\* The invariant holds initially.
LEMMA InitInv == Init => IInv
<1> SUFFICES ASSUME Init PROVE IInv
  OBVIOUS
<1>1. Genesis \in Blocks /\ Len(Genesis) = 0
  BY GenesisIsBlock
<1>2. Ancestors(Genesis) = {Genesis}
  <2>1. 0 .. Len(Genesis) = {0}
    BY <1>1
  <2>2. Ancestor(Genesis, 0) = Genesis
    BY <1>1, AncestorSelf
  <2> QED
    BY <2>1, <2>2 DEF Ancestors
<1>3. TypeOK
  BY <1>1, <1>2 DEF Init, TypeOK, Connectable
<1>4. DataClosed
  BY <1>2 DEF Init, DataClosed
<1>5. MemoMatchesChain /\ NoHonestBlockRefused /\ OnlyProvenBlocksAccepted
  BY DEF Init, MemoMatchesChain, NoHonestBlockRefused, OnlyProvenBlocksAccepted
<1> QED
  BY <1>3, <1>4, <1>5 DEF IInv

\* A block handed to AcceptBlock after its parent, with the seed its miner
\* proved, leaves the node in order, whatever the verdict.
LEMMA AcceptKeepsInv ==
    ASSUME IInv, NEW n \in Node, NEW b \in Blocks, b # Genesis, Len(b) # 0,
           b \notin data[n], Parent(b) \in data[n],
           NEW C, CoherentMemo(C), DOMAIN C \subseteq headers[n] \cup {b},
           b \in DOMAIN proof',
           DOMAIN proof \subseteq DOMAIN proof', DOMAIN proof' \subseteq Blocks \ {Genesis},
           \A c \in DOMAIN proof' : proof'[c] = NoReveal \/ proof'[c] \in Seeds,
           \A c \in DOMAIN proof : proof'[c] = proof[c],
           AcceptAndActivate(n, b, C, proof'[b])
    PROVE  IInv'
<1> DEFINE D1 == data[n] \cup {b}
           best == MostWork(D1, failed[n])
           recheck == {LookbackBlock(Parent(c)) :
                         c \in {x \in best : WPoARANDAOActiveAtHeight(Len(x))}}
           C1 == IF WPoARANDAOActiveAtHeight(Len(b)) /\ proof'[b] # NoReveal
                 THEN Memoised(C, data[n], {LookbackBlock(Parent(b))}) ELSE C
<1>1. Parent(b) \in Blocks /\ Ancestors(b) = Ancestors(Parent(b)) \cup {b}
  BY ParentProps
<1>2. Ancestors(Parent(b)) \subseteq data[n] /\ Ancestors(b) \subseteq D1
  BY <1>1 DEF IInv, DataClosed
<1>3. CoherentMemo(C1) /\ DOMAIN C1 \subseteq headers[n] \cup {b}
  <2>1. LookbackBlock(Parent(b)) \in Blocks /\ Ancestors(LookbackBlock(Parent(b))) \subseteq data[n]
    BY <1>1, <1>2, LookbackProps
  <2>2. /\ CoherentMemo(Memoised(C, data[n], {LookbackBlock(Parent(b))}))
        /\ DOMAIN Memoised(C, data[n], {LookbackBlock(Parent(b))}) \subseteq DOMAIN C \cup data[n]
    BY <2>1, MemoStaysCoherent
  <2>3. data[n] \subseteq headers[n]
    BY DEF IInv, TypeOK
  <2> QED
    BY ZenonT(30), <2>2, <2>3
<1>4. ValidatorSeed(n, b, C) = ChainSeed(Parent(b))
  BY <1>1, <1>2, SeedCorrect DEF ValidatorSeed
<1>5. PassesMinerCheck(b, proof'[b], ValidatorSeed(n, b, C)) <=> Proven(b)'
  BY <1>4 DEF PassesMinerCheck, Proven, WPoARANDAOActiveAtHeight, ChainSeed, DeriveSeed,
     ChainAccumulator, LookbackBlock, Ancestor, Parent
<1>6. \A c \in DOMAIN proof : Proven(c)' <=> Proven(c)
  BY ProvenIsStable
<1>0. GlobalOK /\ \A m \in Node : NodeInv(m)
  BY InvByNode
<1>7. /\ headers' = [headers EXCEPT ![n] = @ \cup {b}]
      /\ headers'[n] = headers[n] \cup {b}
      /\ \A m \in Node : m # n => headers'[m] = headers[m]
  BY DEF AcceptAndActivate, IInv, TypeOK
<1>8. CASE Proven(b)'
  <2>1. /\ data' = [data EXCEPT ![n] = D1]
        /\ failed' = failed
        /\ \E t \in best : tip' = [tip EXCEPT ![n] = t]
        /\ cache' = [cache EXCEPT ![n] =
                        IF best # {tip[n]} THEN Memoised(C1, D1, recheck) ELSE C1]
    BY Zenon, <1>5, <1>8 DEF AcceptAndActivate
  <2>2. \A c \in D1 : Ancestors(c) \subseteq D1
    BY <1>2 DEF IInv, DataClosed
  <2>3. \A c \in best : c \in Blocks /\ c \in D1
    BY DEF MostWork, Connectable, IInv, TypeOK
  <2>4. ASSUME NEW c \in best, WPoARANDAOActiveAtHeight(Len(c))
        PROVE  /\ LookbackBlock(Parent(c)) \in Blocks
               /\ Ancestors(LookbackBlock(Parent(c))) \subseteq D1
    <3>1. Len(c) # 0
      BY <2>4, BeaconAssumption, <2>3, BlockIsSeq DEF WPoARANDAOActiveAtHeight
    <3>2. Parent(c) \in Blocks /\ Ancestors(Parent(c)) \subseteq Ancestors(c)
      BY Zenon, <2>3, <3>1, ParentProps
    <3> QED
      BY Zenon, <2>2, <2>3, <3>2, LookbackProps
  <2>5. recheck \in SUBSET Blocks /\ \A t \in recheck : Ancestors(t) \subseteq D1
    BY ZenonT(30), <2>4
  <2>6. CoherentMemo(cache'[n]) /\ DOMAIN cache'[n] \subseteq headers'[n]
    <3>1. /\ CoherentMemo(Memoised(C1, D1, recheck))
          /\ DOMAIN Memoised(C1, D1, recheck) \subseteq DOMAIN C1 \cup D1
      <4> HIDE DEF C1, D1, recheck
      <4> QED BY <1>3, <2>5, MemoStaysCoherent
    <3>2. cache'[n] = Memoised(C1, D1, recheck) \/ cache'[n] = C1
      BY Zenon, <2>1 DEF IInv, TypeOK
    <3>3. D1 \subseteq headers'[n]
      BY <1>7 DEF IInv, TypeOK
    <3> HIDE DEF C1, D1, recheck
    <3> QED BY <1>3, <1>7, <3>1, <3>2, <3>3
  <2>7. PICK t \in best : tip' = [tip EXCEPT ![n] = t]
    BY Zenon, <2>1
  <2>8. t \in Connectable(D1, failed[n]) /\ t \in Blocks
    BY ZenonT(30), <2>3 DEF MostWork
  <2> HIDE DEF C1, best, recheck
  <2>9. /\ data' \in [Node -> SUBSET Blocks] /\ tip' \in [Node -> Blocks]
        /\ headers' \in [Node -> SUBSET Blocks] /\ failed' \in [Node -> SUBSET Blocks]
        /\ DOMAIN cache' = Node
    BY SMTT(30), <1>7, <2>1, <2>7, <2>8 DEF IInv, TypeOK
  <2>10. /\ data'[n] = D1 /\ tip'[n] = t /\ failed'[n] = failed[n]
         /\ \A m \in Node : m # n =>
               /\ data'[m] = data[m] /\ tip'[m] = tip[m]
               /\ failed'[m] = failed[m] /\ cache'[m] = cache[m]
    BY <2>1, <2>7 DEF IInv, TypeOK
  <2>11. GlobalOK'
    BY SMTT(30), <2>9 DEF GlobalOK
  <2>12. \A m \in Node : m # n => NodeInv(m)'
    BY SMTT(30), <1>0, <1>7, <2>10, UndisturbedNode
  <2>13. NodeInv(n)'
    <3>1. \A c \in failed'[n] : ~Proven(c)'
      BY SMTT(30), <1>0, <1>6, <2>10 DEF NodeInv
    <3>2. \A c \in data'[n] \ {Genesis} : Proven(c)'
      BY SMTT(30), <1>0, <1>6, <1>8, <2>10 DEF NodeInv
    <3>3. \A c \in headers'[n] : Ancestors(c) \subseteq headers'[n]
      BY <1>0, <1>2, <1>7 DEF NodeInv
    <3>4. b \notin failed[n]
      BY <1>6, <1>8, <1>0 DEF NodeInv
    <3>5. \A c \in DOMAIN cache'[n] :
             cache'[n][c] = ChainAccumulator(c) /\ cache'[n][c] \in SUBSET Values
      BY SMTT(30), <2>6, ChainAccumulatorType DEF CoherentMemo
    <3>6. /\ headers'[n] \subseteq DOMAIN proof' \cup {Genesis}
          /\ Genesis \in data'[n]
          /\ data'[n] \subseteq headers'[n]
          /\ failed'[n] \subseteq headers'[n] \ data'[n]
      BY SMTT(30), <1>0, <1>7, <2>10, <3>4 DEF NodeInv
    <3>7. tip'[n] \in Connectable(data'[n], failed'[n])
      BY <2>8, <2>10
    <3>8. \A c \in data'[n] : Ancestors(c) \subseteq data'[n]
      BY <2>2, <2>10
    <3> QED
      BY SMTT(30), <2>6, <3>1, <3>2, <3>3, <3>5, <3>6, <3>7, <3>8
      DEF NodeInv, Connectable
  <2> QED
    BY <2>11, <2>12, <2>13, InvByNodePrimed
<1>9. CASE ~Proven(b)'
  <2>1. /\ failed' = [failed EXCEPT ![n] = @ \cup {b}]
        /\ cache' = [cache EXCEPT ![n] = C1]
        /\ data' = data /\ tip' = tip
    BY <1>5, <1>9 DEF AcceptAndActivate
  <2> HIDE DEF C1
  <2>2. /\ data'[n] = data[n] /\ tip'[n] = tip[n] /\ failed'[n] = failed[n] \cup {b}
        /\ cache'[n] = C1
        /\ \A m \in Node : m # n =>
              /\ data'[m] = data[m] /\ tip'[m] = tip[m]
              /\ failed'[m] = failed[m] /\ cache'[m] = cache[m]
    BY <1>0, <2>1 DEF GlobalOK
  <2>3. GlobalOK'
    BY <1>0, <1>7, <2>1 DEF GlobalOK
  <2>4. \A m \in Node : m # n => NodeInv(m)'
    BY SMTT(30), <1>0, <1>7, <2>2, UndisturbedNode
  <2>5. NodeInv(n)'
    <3>1. \A c \in failed'[n] : ~Proven(c)'
      BY SMTT(30), <1>0, <1>6, <1>9, <2>2 DEF NodeInv
    <3>2. \A c \in data'[n] \ {Genesis} : Proven(c)'
      BY SMTT(30), <1>0, <1>6, <2>2 DEF NodeInv
    <3>3. \A c \in headers'[n] : Ancestors(c) \subseteq headers'[n]
      BY <1>0, <1>2, <1>7 DEF NodeInv
    <3>4. \A c \in DOMAIN cache'[n] :
             cache'[n][c] = ChainAccumulator(c) /\ cache'[n][c] \in SUBSET Values
      BY SMTT(30), <1>3, <2>2, ChainAccumulatorType DEF CoherentMemo
    <3>5. /\ headers'[n] \subseteq DOMAIN proof' \cup {Genesis}
          /\ Genesis \in data'[n]
          /\ data'[n] \subseteq headers'[n]
          /\ failed'[n] \subseteq headers'[n] \ data'[n]
          /\ DOMAIN cache'[n] \subseteq headers'[n]
      BY <1>0, <1>3, <1>7, <2>2 DEF NodeInv
    <3>6. tip'[n] \in Connectable(data'[n], failed'[n])
      <4>1. tip[n] \in data[n] /\ Ancestors(tip[n]) \subseteq data[n] \ failed[n]
        BY <1>0 DEF NodeInv, Connectable
      <4>2. Ancestors(tip[n]) \subseteq data[n] \ (failed[n] \cup {b})
        BY SMTT(30), <4>1
      <4> QED
        BY SMTT(30), <2>2, <4>1, <4>2 DEF Connectable
    <3>7. \A c \in data'[n] : Ancestors(c) \subseteq data'[n]
      BY SMTT(30), <1>0, <2>2 DEF NodeInv
    <3> QED
      BY SMTT(30), <3>1, <3>2, <3>3, <3>4, <3>5, <3>6, <3>7
      DEF NodeInv, Connectable
  <2> QED
    BY <2>3, <2>4, <2>5, InvByNodePrimed
<1> QED
  BY <1>8, <1>9

\* A miner's own block is proved over the seed its own check expects.
LEMMA MineBlockKeepsInv ==
    ASSUME IInv, NEW n \in Node, NEW l \in Label, MineBlock(n, l)
    PROVE  IInv'
<1> DEFINE b == Append(tip[n], l)
           governed == WPoARANDAOActiveAtHeight(Len(b))
           seed == IF governed
                   THEN WPoARandaoSelectionSeed(cache[n], data[n], tip[n]) ELSE NoReveal
           C == IF governed THEN Memoised(cache[n], data[n], {LookbackBlock(tip[n])})
                ELSE cache[n]
<1>0. GlobalOK /\ \A m \in Node : NodeInv(m)
  BY InvByNode
<1>1. CanMine(n, b) /\ Mined(b, seed) /\ AcceptAndActivate(n, b, C, seed)
  BY DEF MineBlock
<1>2. tip[n] \in Blocks /\ tip[n] \in data[n] /\ Ancestors(tip[n]) \subseteq data[n]
  BY <1>0 DEF GlobalOK, NodeInv, Connectable
<1>3. Len(tip[n]) \in Nat /\ Len(b) = Len(tip[n]) + 1
  BY SMTT(30), <1>2, BlockIsSeq
<1>4. Len(tip[n]) + 1 <= MaxHeight
  BY <1>1, <1>3 DEF CanMine
<1>5. b \in Blocks /\ Parent(b) = tip[n] /\ Len(b) # 0
  BY <1>2, <1>3, <1>4, ChildProps
<1>6. b # Genesis
  BY SMTT(30), <1>5, GenesisIsBlock
<1>7. b \notin DOMAIN proof /\ b \notin headers[n] /\ b \notin data[n]
  BY ZenonT(30), <1>0, <1>1, <1>6 DEF CanMine, NodeInv
<1>8. CoherentMemo(C) /\ DOMAIN C \subseteq headers[n] \cup {b}
  <2>1. LookbackBlock(tip[n]) \in Blocks /\ Ancestors(LookbackBlock(tip[n])) \subseteq data[n]
    BY <1>2, LookbackProps
  <2>2. /\ CoherentMemo(Memoised(cache[n], data[n], {LookbackBlock(tip[n])}))
        /\ DOMAIN Memoised(cache[n], data[n], {LookbackBlock(tip[n])})
             \subseteq DOMAIN cache[n] \cup data[n]
    BY <2>1, InvHasCoherentMemo, MemoStaysCoherent
  <2>3. data[n] \subseteq headers[n] /\ DOMAIN cache[n] \subseteq headers[n]
    BY <1>0 DEF NodeInv
  <2> QED
    BY ZenonT(30), <2>2, <2>3, InvHasCoherentMemo
<1>9. seed = NoReveal \/ seed \in Seeds
  BY <1>2, InvHasCoherentMemo, SeedCorrect, ChainSeedType
<1> HIDE DEF b, C, seed
<1>10. /\ DOMAIN proof' = DOMAIN proof \cup {b}
       /\ proof'[b] = seed
       /\ \A c \in DOMAIN proof : proof'[c] = proof[c]
  BY <1>1, <1>7 DEF Mined
<1>11. /\ DOMAIN proof' \subseteq Blocks \ {Genesis}
       /\ \A c \in DOMAIN proof' : proof'[c] = NoReveal \/ proof'[c] \in Seeds
  BY <1>0, <1>5, <1>6, <1>9, <1>10 DEF GlobalOK
<1> QED
  BY <1>1, <1>2, <1>5, <1>6, <1>7, <1>8, <1>10, <1>11, AcceptKeepsInv

\* A block without a reveal, not yet judged by anyone.
LEMMA MineUnprovenKeepsInv ==
    ASSUME IInv, NEW n \in Node, NEW l \in Label, MineUnproven(n, l)
    PROVE  IInv'
<1> DEFINE b == Append(tip[n], l)
<1>0. GlobalOK /\ \A m \in Node : NodeInv(m)
  BY InvByNode
<1>1. /\ CanMine(n, b) /\ Mined(b, NoReveal)
      /\ UNCHANGED <<headers, data, failed, cache, tip>>
  BY DEF MineUnproven
<1>2. tip[n] \in Blocks /\ Len(tip[n]) \in Nat /\ Len(b) = Len(tip[n]) + 1
  BY <1>0, BlockIsSeq DEF GlobalOK
<1>3. Len(tip[n]) + 1 <= MaxHeight
  BY <1>1, <1>2 DEF CanMine
<1>4. b \in Blocks /\ b # Genesis
  <2>1. b \in Blocks /\ Len(b) # 0
    BY <1>2, <1>3, ChildProps
  <2> QED
    BY <2>1, GenesisIsBlock
<1> HIDE DEF b
<1>5. /\ DOMAIN proof' = DOMAIN proof \cup {b}
      /\ proof'[b] = NoReveal
      /\ \A c \in DOMAIN proof : proof'[c] = proof[c]
  BY <1>1 DEF Mined, CanMine
<1>6. GlobalOK'
  BY <1>0, <1>1, <1>4, <1>5 DEF GlobalOK
<1>7. \A m \in Node : NodeInv(m)'
  BY <1>0, <1>1, <1>5, UndisturbedNode
<1> QED
  BY <1>6, <1>7, InvByNodePrimed

\* A header extends the index by one block with a known parent.
LEMMA ReceiveHeaderKeepsInv ==
    ASSUME IInv, NEW n \in Node, NEW b \in DOMAIN proof, ReceiveHeader(n, b)
    PROVE  IInv'
<1>0. GlobalOK /\ \A m \in Node : NodeInv(m)
  BY InvByNode
<1>1. b \in Blocks /\ b # Genesis /\ Parent(b) \in headers[n]
  BY <1>0 DEF GlobalOK, ReceiveHeader, HeaderAcceptable
<1>2. Len(b) # 0
  <2>1. b = [i \in 1 .. Len(b) |-> b[i]] /\ Genesis = [i \in 1 .. 0 |-> b[i]]
    BY <1>1, BlockIsSeq DEF Genesis
  <2> QED
    BY <1>1, <2>1
<1>3. Ancestors(b) = Ancestors(Parent(b)) \cup {b}
  BY <1>1, <1>2, ParentProps
<1>4. /\ headers' = [headers EXCEPT ![n] = @ \cup {b}]
      /\ UNCHANGED <<proof, data, failed, cache, tip>>
  BY DEF ReceiveHeader
<1>5. headers'[n] = headers[n] \cup {b} /\ \A m \in Node : m # n => headers'[m] = headers[m]
  BY <1>0, <1>4 DEF GlobalOK
<1>6. GlobalOK'
  BY <1>0, <1>1, <1>4 DEF GlobalOK
<1>7. \A m \in Node : m # n => NodeInv(m)'
  BY SMTT(30), <1>0, <1>4, <1>5, UndisturbedNode
<1>8. NodeInv(n)'
  <2>1. \A c \in headers'[n] : Ancestors(c) \subseteq headers'[n]
    BY SMTT(30), <1>0, <1>1, <1>3, <1>5 DEF NodeInv
  <2>2. \A c \in failed[n] \cup (data[n] \ {Genesis}) : Proven(c)' <=> Proven(c)
    BY <1>0, <1>4, ProvenIsStable DEF NodeInv
  <2> QED
    BY SMTT(30), <1>0, <1>4, <1>5, <2>1, <2>2
    DEF NodeInv, Connectable
<1> QED
  BY <1>6, <1>7, <1>8, InvByNodePrimed

\* A received block whose parent is on disk is judged over its chain's seed.
LEMMA ReceiveBlockKeepsInv ==
    ASSUME ParentFirst, IInv, NEW n \in Node, NEW b \in DOMAIN proof, ReceiveBlock(n, b)
    PROVE  IInv'
<1>0. GlobalOK /\ \A m \in Node : NodeInv(m)
  BY InvByNode
<1>1. /\ b \in Blocks /\ b # Genesis /\ b \notin data[n] /\ Parent(b) \in data[n]
      /\ AcceptAndActivate(n, b, cache[n], proof[b]) /\ proof' = proof
  BY <1>0 DEF GlobalOK, ReceiveBlock
<1>2. Len(b) # 0
  <2>1. b = [i \in 1 .. Len(b) |-> b[i]] /\ Genesis = [i \in 1 .. 0 |-> b[i]]
    BY <1>1, BlockIsSeq DEF Genesis
  <2> QED
    BY <1>1, <2>1
<1>3. CoherentMemo(cache[n]) /\ DOMAIN cache[n] \subseteq headers[n] \cup {b}
  BY <1>0, InvHasCoherentMemo DEF NodeInv
<1>4. /\ DOMAIN proof' \subseteq Blocks \ {Genesis}
      /\ \A c \in DOMAIN proof' : proof'[c] = NoReveal \/ proof'[c] \in Seeds
  BY <1>0, <1>1 DEF GlobalOK
<1> QED
  BY <1>1, <1>2, <1>3, <1>4, AcceptKeepsInv

\* An empty memo is coherent.
LEMMA RestartKeepsInv ==
    ASSUME IInv, NEW n \in Node, Restart(n)
    PROVE  IInv'
<1>0. GlobalOK /\ \A m \in Node : NodeInv(m)
  BY InvByNode
<1>1. /\ cache' = [cache EXCEPT ![n] = [b \in {} |-> {}]]
      /\ UNCHANGED <<proof, headers, data, failed, tip>>
  BY DEF Restart
<1>2. DOMAIN cache'[n] = {} /\ \A m \in Node : m # n => cache'[m] = cache[m]
  BY <1>0, <1>1 DEF GlobalOK
<1>3. GlobalOK'
  BY <1>0, <1>1 DEF GlobalOK
<1>4. \A m \in Node : m # n => NodeInv(m)'
  BY SMTT(30), <1>0, <1>1, <1>2, UndisturbedNode
<1>5. NodeInv(n)'
  <2>1. \A c \in failed[n] \cup (data[n] \ {Genesis}) : Proven(c)' <=> Proven(c)
    BY <1>0, <1>1, ProvenIsStable DEF NodeInv
  <2> QED
    BY <1>0, <1>1, <1>2, <2>1
    DEF NodeInv, Connectable
<1> QED
  BY <1>3, <1>4, <1>5, InvByNodePrimed

\* Every step keeps the invariant.
LEMMA NextKeepsInv ==
    ASSUME ParentFirst, IInv, [Next]_vars
    PROVE  IInv'
<1>1. CASE Next
  BY <1>1, MineBlockKeepsInv, MineUnprovenKeepsInv, ReceiveHeaderKeepsInv,
     ReceiveBlockKeepsInv, RestartKeepsInv DEF Next
<1>2. CASE UNCHANGED vars
  <2>1. GlobalOK /\ \A m \in Node : NodeInv(m)
    BY InvByNode
  <2>2. GlobalOK'
    BY <1>2, <2>1 DEF vars, GlobalOK
  <2>3. \A m \in Node : NodeInv(m)'
    BY <1>2, <2>1, UndisturbedNode DEF vars
  <2> QED
    BY <2>2, <2>3, InvByNodePrimed
<1> QED
  BY <1>1, <1>2

-----------------------------------------------------------------------------
(* The theorems. *)

\* The invariant holds in every reachable state when parents come first.
LEMMA InvHolds ==
    ASSUME ParentFirst
    PROVE  Spec => []IInv
<1>1. Init => IInv
  BY InitInv
<1>2. IInv /\ [Next]_vars => IInv'
  BY NextKeepsInv
<1> QED
  BY <1>1, <1>2, PTL DEF Spec

\* The state of the beacon keeps its type and the links of the block index.
THEOREM BeaconTypeCorrect ==
    ASSUME ParentFirst
    PROVE  Spec => []TypeOK
<1>1. IInv => TypeOK
  BY DEF IInv
<1> QED
  BY <1>1, InvHolds, PTL

\* For any number of nodes, tree of blocks, lookback and first governed height:
\* no order of requests, reorganisation or restart makes a memo entry of
\* GetAccumulator differ from the XOR of the reveals of its own chain.
THEOREM MemoIsSound ==
    ASSUME ParentFirst
    PROVE  Spec => []MemoMatchesChain
<1>1. IInv => MemoMatchesChain
  BY DEF IInv
<1> QED
  BY <1>1, InvHolds, PTL

\* AcceptBlock's verdict on the reveal is a function of the chain alone: it
\* refuses no block proved over its chain's seed.
THEOREM VerdictIsSound ==
    ASSUME ParentFirst
    PROVE  Spec => []NoHonestBlockRefused
<1>1. IInv => NoHonestBlockRefused
  BY DEF IInv
<1> QED
  BY <1>1, InvHolds, PTL

\* And it stores no block proved over anything else.
THEOREM StoredBlocksAreProven ==
    ASSUME ParentFirst
    PROVE  Spec => []OnlyProvenBlocksAccepted
<1>1. IInv => OnlyProvenBlocksAccepted
  BY DEF IInv
<1> QED
  BY <1>1, InvHolds, PTL

\* Two nodes on the same tip elect the next proposer from the same seed.
THEOREM SeedsAgree ==
    ASSUME ParentFirst
    PROVE  Spec => []SeedAgreement
<1>1. IInv => SeedAgreement
  <2> SUFFICES ASSUME IInv, NEW m \in Node, NEW n \in Node, tip[m] = tip[n]
               PROVE  WPoARandaoSelectionSeed(cache[m], data[m], tip[m]) =
                      WPoARandaoSelectionSeed(cache[n], data[n], tip[n])
    BY DEF SeedAgreement
  <2>1. ASSUME NEW k \in Node
        PROVE  WPoARandaoSelectionSeed(cache[k], data[k], tip[k]) = ChainSeed(tip[k])
    <3>1. tip[k] \in Blocks /\ Ancestors(tip[k]) \subseteq data[k]
      BY DEF IInv, TypeOK, Connectable
    <3> QED
      BY <3>1, InvHasCoherentMemo, SeedCorrect
  <2> QED
    BY <2>1
<1> QED
  BY <1>1, InvHolds, PTL

=============================================================================
