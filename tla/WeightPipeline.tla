--------------------------- MODULE WeightPipeline ---------------------------
(***************************************************************************)
(* The weight of a cluster as a function of the chain: the facts read off  *)
(* the blocks of an epoch (WeightStreamReader::ComputeEpochFacts in        *)
(* src/src/weight_engine/weight_reader.cpp), the latest-wins inputs of the *)
(* two published streams, and the pipeline of                              *)
(* src/src/weight_engine/weight_engine.h folded forward from epoch 1.      *)
(*                                                                         *)
(* A chain is a sequence of blocks, the block of height h at position      *)
(* h + 1; a block is a sequence of transactions.  A coin names the output  *)
(* that made it, its owner and its value; the coins a transaction spends   *)
(* are the prevouts the block's undo data holds.  Scores, kappa and the    *)
(* amounts are integers, lambda is LambdaNum / LambdaDen, and a real       *)
(* number of the pipeline is an exact fraction [num, den] with den > 0:    *)
(* the rounding of doubles is abstracted away.                             *)
(***************************************************************************)
EXTENDS Integers, Sequences, FiniteSets, Functions

CONSTANTS
    Treasury,     \* -weighttreasuryaddress, the payee of restitutions
    Kappa,        \* -weightkappa
    LambdaNum,    \* -weightlambda, as a fraction in [0, 1)
    LambdaDen,
    UMax,         \* UINT32_MAX
    EpochLength,  \* -weightepochlength
    Margin        \* MC_WEIGHT_DEFAULT_STABILITY_MARGIN

ASSUME PipelineAssumption ==
    /\ Kappa \in Nat \ {0}
    /\ LambdaNum \in Nat
    /\ LambdaDen \in Nat
    /\ LambdaNum < LambdaDen
    /\ UMax \in Nat \ {0, 1}
    /\ EpochLength \in Nat \ {0}
    /\ Margin \in Nat

NoItem == [stream |-> "none"]

(***************************************************************************)
(* Epochs and heights.                                                     *)
(***************************************************************************)
HeightToEpoch(height) ==
    (IF height < 0 THEN 0 ELSE height) \div EpochLength + 1

FirstHeight(e) == (e - 1) * EpochLength
LastHeight(e) == e * EpochLength - 1

\* A margin too short by one block.
LastBuriedEpochEarly(tip) ==
    IF tip < Margin THEN 0 ELSE (tip - Margin + 2) \div EpochLength

LastBuriedEpoch(tip) ==
    IF tip < Margin THEN 0 ELSE (tip - Margin + 1) \div EpochLength

\* The guard of ComputeEpochFacts.
Buried(tip, e) == e >= 1 /\ LastHeight(e) <= tip - Margin

(***************************************************************************)
(* The facts of an epoch: activity, restitution and gross flows of an      *)
(* address.  The coinbase is credited and has no signer.                   *)
(***************************************************************************)
Signers(tx) == {c.owner : c \in tx.ins}
Value(coins) == SumFunction([c \in coins |-> c.value])
OwnedBy(coins, a) == {c \in coins : c.owner = a}

\* The places of the transactions of a range of blocks, and the one there.
Places(chain, from, to) ==
    UNION {{h} \X (1 .. Len(chain[h])) : h \in from .. to}
EpochPlaces(chain, e) ==
    Places(chain, FirstHeight(e) + 1, LastHeight(e) + 1)
At(chain, p) == chain[p[1]][p[2]]

ValuePaidToTreasury(tx) == Value(OwnedBy(tx.outs, Treasury))

Reconciled(tx, a) ==
    IF a \in Signers(tx) /\ a # Treasury THEN ValuePaidToTreasury(tx) ELSE 0

\* The four maps ComputeEpochFacts fills in one pass.
Tau(chain, e, a) ==
    Cardinality({p \in EpochPlaces(chain, e) : a \in Signers(At(chain, p))})
Restituted(chain, e, a) ==
    SumFunction([p \in EpochPlaces(chain, e) |-> Reconciled(At(chain, p), a)])
Credits(chain, e, a) ==
    SumFunction([p \in EpochPlaces(chain, e) |->
                   Value(OwnedBy(At(chain, p).outs, a))])
Debits(chain, e, a) ==
    SumFunction([p \in EpochPlaces(chain, e) |->
                   Value(OwnedBy(At(chain, p).ins, a))])

(***************************************************************************)
(* The latest-wins inputs.  A membership record counts only when the       *)
(* address it declares signed it; a score counts whoever signed it, since  *)
(* the closed stream admits only the certification authority.              *)
(***************************************************************************)
Items(chain, stream) ==
    {p \in Places(chain, 1, Len(chain)) : At(chain, p).item.stream = stream}

SelfAttested(tx) == tx.item.node \in Signers(tx)

Later(p, q) == p[1] > q[1] \/ (p[1] = q[1] /\ p[2] > q[2])

\* The newest item about each address, among those at the places.
Newest(chain, places) ==
    LET about(a) == {p \in places : At(chain, p).item.node = a}
    IN  [a \in {At(chain, p).item.node : p \in places} |->
           At(chain, CHOOSE p \in about(a) :
                        \A q \in about(a) : q # p => Later(p, q)).item]

ReadMembership(chain) ==
    Newest(chain, {p \in Items(chain, "membership") :
                      SelfAttested(At(chain, p))})

ReadEsg(chain) == Newest(chain, Items(chain, "esg"))

ReadInputs(chain) ==
    [member |-> ReadMembership(chain), esg |-> ReadEsg(chain)]

\* BuildClustersFromMembership: the miners somebody declares, and the
\* companies that declare them.
Heads(in) == {in.member[a].miner : a \in DOMAIN in.member}
Companies(in, k) ==
    {a \in DOMAIN in.member : in.member[a].miner = k /\ a # k}
Esg(in, a) == IF a \in DOMAIN in.esg THEN in.esg[a].score ELSE 0

(***************************************************************************)
(* The pipeline of one epoch.                                              *)
(***************************************************************************)
\* Kappa times RawWeight.
ScaledRaw(chain, in, e, k) ==
    Esg(in, k) *
        (Kappa * Tau(chain, e, k)
            + SumFunction([c \in Companies(in, k) |->
                             Esg(in, c) * Tau(chain, e, c)]))

\* The gain without the restitution added back.
GainNet(credits, debits, restituted) == credits - debits

Gain(credits, debits, restituted) ==
    credits - debits + (IF restituted > 0 THEN restituted ELSE 0)

ClampRestituted(r, saldo) ==
    IF r < 0 THEN 0 ELSE IF r > saldo THEN saldo ELSE r

RestitutionRate(r, saldo) ==
    IF saldo <= 0 THEN [num |-> 0, den |-> 1]
    ELSE [num |-> ClampRestituted(r, saldo), den |-> saldo]

\* Kappa times FinalWeight, from Kappa times the raw weight.
FinalWeight(raw, ratePrev, e) ==
    IF e <= 1 THEN [num |-> raw, den |-> 1]
    ELSE [num |-> raw * (ratePrev.num * LambdaNum
                            + ratePrev.den * (LambdaDen - LambdaNum)),
          den |-> ratePrev.den * LambdaDen]

\* The weight without its upper bound.
ToIntegerWeightUnclamped(s) ==
    IF s.num < s.den THEN 1 ELSE (2 * s.num + s.den) \div (2 * s.den)

ToIntegerWeight(s) ==
    IF s.num < s.den THEN 1
    ELSE IF s.num >= UMax * s.den THEN UMax
    ELSE (2 * s.num + s.den) \div (2 * s.den)

\* The weight a reader recovers from the integer a record carries; 0 stands
\* for a record it drops.
ParsedWeight(w) == IF w <= 0 THEN 0 ELSE w % (UMax + 1)

(***************************************************************************)
(* The fold of WeightEngineComputeEpochDetail: the saldo of a cluster is   *)
(* carried from epoch 1 on, and its rate enters the next epoch's weight.   *)
(***************************************************************************)
Saldo(chain, e, k) ==
    SumFunction([i \in 1 .. e |->
                   Gain(Credits(chain, i, k), Debits(chain, i, k),
                        Restituted(chain, i, k))])

Rate(chain, e, k) ==
    IF e < 1 THEN [num |-> 0, den |-> 1]
    ELSE RestitutionRate(Restituted(chain, e, k), Saldo(chain, e, k))

WeightForEpoch(chain, in, e, k) ==
    ToIntegerWeight(FinalWeight(ScaledRaw(chain, in, e, k),
                                Rate(chain, e - 1, k), e))
=============================================================================
