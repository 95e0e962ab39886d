---------------------------- MODULE RandaoBeacon ----------------------------
(***************************************************************************)
(* The RANDAO beacon of wPoA (src/src/wpoa/randao_accumulator.cpp) as the  *)
(* nodes of a network use it: a miner proves its reveal over the seed its  *)
(* own accumulator yields, every other node recomputes the seed from the   *)
(* blocks it holds, memoises the accumulators on the way, and accepts or   *)
(* refuses the block for good (AcceptBlock in src/src/core/main.cpp).      *)
(*                                                                         *)
(* A block is the chain that ends in it: a sequence of labels, the empty   *)
(* one for genesis.  A hash commits to all ancestors, so equality of hashes*)
(* is equality of these sequences, and the ancestors are the prefixes.     *)
(* R_tot is an XOR of independent 32-byte values, modelled as the set of   *)
(* values that occur in it an odd number of times; SHA-256 is injective.   *)
(***************************************************************************)
EXTENDS Integers, Sequences, FiniteSets

CONSTANTS
    Node,         \* the nodes of the network
    Label,        \* what tells the blocks on one parent apart (miner, time, ...)
    FirstBeacon,  \* setupfirstblocks: the first height the beacon governs
    Lookback,     \* -wpoarandaolookback, the k of R_tot[n-k]
    ParentFirst,  \* TRUE: a block's data never overtakes its parent's
    MaxHeight,    \* bound: height of the tree
    MaxBlocks     \* bound: number of blocks ever mined

ASSUME BeaconAssumption ==
    /\ FirstBeacon \in Nat \ {0}
    /\ Lookback \in Nat
    /\ ParentFirst \in BOOLEAN
    /\ MaxHeight \in Nat
    /\ MaxBlocks \in Nat

VARIABLES
    proof,    \* block -> the seed its VRF reveal was proved over
    headers,  \* node -> blocks in mapBlockIndex
    data,     \* node -> blocks with BLOCK_HAVE_DATA
    failed,   \* node -> blocks with BLOCK_FAILED_VALID, persisted
    cache,    \* node -> g_randao_cache, block -> R_tot, lost on restart
    tip       \* node -> chainActive.Tip()

vars == <<proof, headers, data, failed, cache, tip>>

Genesis == << >>
NoReveal == << >>

Height(b) == Len(b)
Parent(b) == SubSeq(b, 1, Len(b) - 1)
Ancestor(b, i) == SubSeq(b, 1, i)
Ancestors(b) == {Ancestor(b, i) : i \in 0 .. Len(b)}
WPoARANDAOActiveAtHeight(h) == h >= FirstBeacon

-----------------------------------------------------------------------------
(* The accumulator. *)

XOR(S, T) == (S \ T) \cup (T \ S)

\* The value folded for block b: its reveal when the node can read the block,
\* the block hash when it cannot.
Contribution(D, b) == IF b \in D THEN <<"reveal", b>> ELSE <<"hash", b>>

\* The height at which the walk back stops: the nearest memoised ancestor, or
\* the last height before the beacon.
CachedHeights(C, b) ==
    {i \in FirstBeacon .. Len(b) : Ancestor(b, i) \in DOMAIN C}

BaseHeight(C, b) ==
    LET S == CachedHeights(C, b) \cup {FirstBeacon - 1}
    IN  CHOOSE m \in S : \A i \in S : i <= m

GetAccumulatorRefold(C, D, b) ==
    LET m == BaseHeight(C, b)
        base == IF m < FirstBeacon THEN {} ELSE C[Ancestor(b, m)]
    IN  XOR(base, {Contribution(D, Ancestor(b, i)) :
                     i \in (m .. Len(b)) \cap (FirstBeacon .. Len(b))})

GetAccumulator(C, D, b) ==
    LET m == BaseHeight(C, b)
        base == IF m < FirstBeacon THEN {} ELSE C[Ancestor(b, m)]
    IN  XOR(base, {Contribution(D, Ancestor(b, i)) : i \in m + 1 .. Len(b)})

\* The memo after the accumulators of all blocks of T were asked for.
Memoised(C, D, T) ==
    LET new == UNION {{Ancestor(t, i) : i \in BaseHeight(C, t) + 1 .. Len(t)} : t \in T}
    IN  [p \in DOMAIN C \cup new |->
            IF p \in DOMAIN C THEN C[p] ELSE GetAccumulator(C, D, p)]

LookbackBlock(t) ==
    Ancestor(t, IF Len(t) > Lookback THEN Len(t) - Lookback ELSE 0)

DeriveSeed(rtot, t) == <<rtot, t, Len(t) + 1>>

WPoARandaoSelectionSeed(C, D, t) ==
    DeriveSeed(GetAccumulator(C, D, LookbackBlock(t)), t)

-----------------------------------------------------------------------------
(* Blocks on the network and at a node. *)

Init ==
    /\ proof = [b \in {} |-> NoReveal]
    /\ headers = [n \in Node |-> {Genesis}]
    /\ data = [n \in Node |-> {Genesis}]
    /\ failed = [n \in Node |-> {}]
    /\ cache = [n \in Node |-> [b \in {} |-> {}]]
    /\ tip = [n \in Node |-> Genesis]

Mined(b, seed) ==
    proof' = [c \in DOMAIN proof \cup {b} |-> IF c = b THEN seed ELSE proof[c]]

\* The blocks whose whole chain is on disk (nChainTx # 0) and not failed.
Connectable(D, F) == {b \in D : Ancestors(b) \subseteq D \ F}

\* The candidates with the most work.  Which of several wins is decided by the
\* comparator, which other modules treat; here any of them may.
MostWork(D, F) ==
    {b \in Connectable(D, F) : \A c \in Connectable(D, F) : Len(c) <= Len(b)}

\* The seed a validator recomputes for block b: over the block's parent.
ValidatorSeedOfTip(n, b, C) == WPoARandaoSelectionSeed(C, data[n], tip[n])
ValidatorSeed(n, b, C) == WPoARandaoSelectionSeed(C, data[n], Parent(b))

\* The reveal a block carries must verify over the validator's seed.
PassesMinerCheckLenient(b, seed, own) ==
    WPoARANDAOActiveAtHeight(Len(b)) => seed \in {own, NoReveal}
PassesMinerCheck(b, seed, own) ==
    WPoARANDAOActiveAtHeight(Len(b)) => seed = own

\* AcceptBlock for block b, ending in acceptance or refusal, and the
\* ActivateBestChain that follows an accepted block.  A missing reveal is
\* refused before the seed is computed.  FindMostWorkChain checks the most-work
\* candidates once more when there are several candidates, which can only add
\* to the memo.
AcceptAndActivate(n, b, C, seed) ==
    LET C1 == IF WPoARANDAOActiveAtHeight(Len(b)) /\ seed # NoReveal
              THEN Memoised(C, data[n], {LookbackBlock(Parent(b))})
              ELSE C
        D1 == data[n] \cup {b}
        best == MostWork(D1, failed[n])
        recheck == {LookbackBlock(Parent(c)) :
                      c \in {x \in best : WPoARANDAOActiveAtHeight(Len(x))}}
    IN  /\ headers' = [headers EXCEPT ![n] = @ \cup {b}]
        /\ IF PassesMinerCheck(b, seed, ValidatorSeed(n, b, C))
           THEN /\ data' = [data EXCEPT ![n] = D1]
                /\ failed' = failed
                /\ \E t \in best : tip' = [tip EXCEPT ![n] = t]
                /\ cache' = [cache EXCEPT ![n] =
                                IF best # {tip[n]}
                                THEN Memoised(C1, D1, recheck) ELSE C1]
           ELSE /\ failed' = [failed EXCEPT ![n] = @ \cup {b}]
                /\ cache' = [cache EXCEPT ![n] = C1]
                /\ UNCHANGED <<data, tip>>

CanMine(n, b) ==
    /\ Parent(b) = tip[n]
    /\ b \notin DOMAIN proof
    /\ Len(b) <= MaxHeight
    /\ Cardinality(DOMAIN proof) < MaxBlocks

\* The miner proves over the seed of its tip and submits the block to itself.
MineBlock(n, l) ==
    LET b == Append(tip[n], l)
        C == Memoised(cache[n], data[n], {LookbackBlock(tip[n])})
        governed == WPoARANDAOActiveAtHeight(Len(b))
        seed == IF governed
                THEN WPoARandaoSelectionSeed(cache[n], data[n], tip[n])
                ELSE NoReveal
    IN  /\ CanMine(n, b)
        /\ Mined(b, seed)
        /\ AcceptAndActivate(n, b, IF governed THEN C ELSE cache[n], seed)

\* A miner out of step with the rules publishes a block without a reveal.
MineUnproven(n, l) ==
    LET b == Append(tip[n], l)
    IN  /\ CanMine(n, b)
        /\ WPoARANDAOActiveAtHeight(Len(b))
        /\ Mined(b, NoReveal)
        /\ UNCHANGED <<headers, data, failed, cache, tip>>

\* AcceptBlockHeader: the parent is known, and the branch holds no failed block.
HeaderAcceptableOrphan(n, b) == Ancestors(b) \cap failed[n] = {}
HeaderAcceptable(n, b) ==
    /\ Parent(b) \in headers[n]
    /\ Ancestors(b) \cap failed[n] = {}

ReceiveHeader(n, b) ==
    /\ b \notin headers[n]
    /\ HeaderAcceptable(n, b)
    /\ headers' = [headers EXCEPT ![n] = @ \cup {b}]
    /\ UNCHANGED <<proof, data, failed, cache, tip>>

ReceiveBlock(n, b) ==
    /\ b \notin data[n]
    /\ HeaderAcceptable(n, b)
    /\ ParentFirst => Parent(b) \in data[n]
    /\ AcceptAndActivate(n, b, cache[n], proof[b])
    /\ UNCHANGED proof

\* The block index, BLOCK_FAILED_VALID included, is on disk; the memo is not.
Restart(n) ==
    /\ cache' = [cache EXCEPT ![n] = [b \in {} |-> {}]]
    /\ UNCHANGED <<proof, headers, data, failed, tip>>

Next ==
    \E n \in Node :
        \/ \E l \in Label : MineBlock(n, l)
        \/ \E l \in Label : MineUnproven(n, l)
        \/ \E b \in DOMAIN proof : ReceiveHeader(n, b)
        \/ \E b \in DOMAIN proof : ReceiveBlock(n, b)
        \/ Restart(n)

Spec == Init /\ [][Next]_vars

-----------------------------------------------------------------------------
(* What the beacon promises, stated without the memo. *)

Blocks == UNION {[1 .. h -> Label] : h \in 0 .. MaxHeight}
Values == {"reveal", "hash"} \X Blocks
Seeds == (SUBSET Values) \X Blocks \X (1 .. MaxHeight + 1)

\* R_tot of a chain: the reveals of its governed blocks and nothing else.
ChainAccumulator(b) == {<<"reveal", Ancestor(b, i)>> : i \in FirstBeacon .. Len(b)}
ChainSeed(t) == DeriveSeed(ChainAccumulator(LookbackBlock(t)), t)

\* The block proves its reveal over the seed its own chain determines.
Proven(b) ==
    WPoARANDAOActiveAtHeight(Len(b)) => proof[b] = ChainSeed(Parent(b))

\* Type invariant, with the parent links of the block index: what a node has
\* indexed, it has indexed down to genesis, and the tip is a connected chain.
TypeOK ==
    /\ headers \in [Node -> SUBSET Blocks]
    /\ data \in [Node -> SUBSET Blocks]
    /\ failed \in [Node -> SUBSET Blocks]
    /\ tip \in [Node -> Blocks]
    /\ DOMAIN cache = Node
    /\ DOMAIN proof \subseteq Blocks
    /\ \A b \in DOMAIN proof : b # Genesis
    /\ \A b \in DOMAIN proof : proof[b] = NoReveal \/ proof[b] \in Seeds
    /\ \A n \in Node :
        /\ headers[n] \subseteq DOMAIN proof \cup {Genesis}
        /\ Genesis \in data[n]
        /\ data[n] \subseteq headers[n]
        /\ failed[n] \subseteq headers[n] \ data[n]
        /\ DOMAIN cache[n] \subseteq headers[n]
        /\ \A b \in DOMAIN cache[n] : cache[n][b] \in SUBSET Values
        /\ \A b \in headers[n] : Ancestors(b) \subseteq headers[n]
        /\ tip[n] \in Connectable(data[n], failed[n])

\* A memo entry of GetAccumulator is the XOR of exactly the reveals of the
\* governed blocks of that block's own chain: no reorganisation, restart or
\* order of requests makes an entry stale (the claim of the cache comment,
\* randao_accumulator.cpp:39-47).
MemoMatchesChain ==
    \A n \in Node : \A b \in DOMAIN cache[n] : cache[n][b] = ChainAccumulator(b)

\* AcceptBlock never marks a block failed whose miner proved it over the seed
\* of its own chain: the validator's seed is the miner's.
NoHonestBlockRefused ==
    \A n \in Node : \A b \in failed[n] : ~Proven(b)

\* AcceptBlock never stores a governed block proved over anything else.
OnlyProvenBlocksAccepted ==
    \A n \in Node : \A b \in data[n] \ {Genesis} : Proven(b)

\* Two nodes that stand on the same tip elect the next proposer from the same
\* seed, whatever each of them memoised, and that seed is the chain's.
SeedAgreement ==
    \A m, n \in Node : tip[m] = tip[n] =>
        WPoARandaoSelectionSeed(cache[m], data[m], tip[m]) =
        WPoARandaoSelectionSeed(cache[n], data[n], tip[n])

\* Blocks go on arriving at a node while some are offered and admissible; the
\* download loop of SendMessages (main.cpp:8395-8420) asks for them again.
FairSpec ==
    /\ Spec
    /\ \A n \in Node : WF_vars(\E b \in DOMAIN proof : ReceiveBlock(n, b))

\* A node always catches up with the others: it comes to hold every block there
\* is whose whole chain is proven (mining ends at MaxBlocks).
ProvenBlocksArrive ==
    \A n \in Node : []<>(\A b \in DOMAIN proof :
        (\A a \in Ancestors(b) \ {Genesis} : Proven(a)) => b \in data[n])
=============================================================================
