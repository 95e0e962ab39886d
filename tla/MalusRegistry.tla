---------------------------- MODULE MalusRegistry ----------------------------
(***************************************************************************)
(* The registry of misbehaviour: reports on the open stream                *)
(* wpoa-weights-malus, the predicate ValidReport by which every node       *)
(* judges them, the decayed accumulator and the correction of the weights  *)
(* that the miner and the time bar use (src/src/wpoa/malus_registry.cpp,   *)
(* src/src/wpoa/malus_record.h).  The time bar is                          *)
(* WPoASortitionVerifyProposer of src/src/wpoa/private_sortition.cpp and   *)
(* the storing of a block AcceptBlock of src/src/core/main.cpp.            *)
(*                                                                         *)
(* One branch, main, wins everywhere; tip[n] says how much of it node n    *)
(* has connected, and what is confirmed there is what n reads.  A block    *)
(* that loses its round is a side block: it hangs on main, confirms        *)
(* nothing, and a node has it only if it arrived there.  A block's offset  *)
(* is its nTime less its parent's.  The accumulator of epoch e is kept     *)
(* multiplied by MuDen^e, which makes it an integer.                       *)
(***************************************************************************)
EXTENDS Integers, Sequences, FiniteSets, Functions

CONSTANTS
    Node,           \* the nodes
    Validator,      \* those with a weight
    Faulty,         \* those that may misbehave
    Luck,           \* validator -> height -> exponential draw of its reveal
    InitialWeight,  \* validator -> weight
    LaterWeight,    \* validator -> weight after the reweighting
    Reweighting,    \* height of the block that confirms it
    Points,         \* kind of report -> p(kind)
    MuNum, MuDen,   \* -wpoamalusmu, as a fraction in [0, 1)
    MMax,           \* -wpoamalusmax
    EpochLength,    \* -weightepochlength
    MaxHeight,      \* bound: height of the main branch
    MaxSides,       \* bound: number of side blocks
    MaxOffences,    \* bound: number of offences
    MaxReports      \* bound: number of reports

ASSUME MalusAssumption ==
    /\ IsFiniteSet(Validator)
    /\ Validator \subseteq Node
    /\ Faulty \subseteq Validator
    /\ Luck \in [Validator -> [1 .. MaxHeight -> Nat]]
    /\ InitialWeight \in [Validator -> Nat \ {0}]
    /\ LaterWeight \in [Validator -> Nat \ {0}]
    /\ Reweighting \in Nat
    /\ Points \in [{"equiv", "delay", "selfwrite", "badweight"} -> Nat \ {0}]
    /\ MuNum \in Nat /\ MuDen \in Nat /\ MuNum < MuDen
    /\ MMax \in Nat \ {0}
    /\ EpochLength \in Nat \ {0}
    /\ MaxHeight \in Nat /\ MaxSides \in Nat
    /\ MaxOffences \in Nat /\ MaxReports \in Nat

VARIABLES
    main,      \* the blocks of the main branch, by height
    sides,     \* the side blocks published
    tip,       \* node -> height up to which it has connected main
    stored,    \* node -> side blocks whose data it holds
    failed,    \* node -> blocks with BLOCK_FAILED_VALID
    pool,      \* reports broadcast and not confirmed
    reports,   \* number of reports so far
    offences   \* number of offences so far

vars == <<main, sides, tip, stored, failed, pool, reports, offences>>

NoItem == [by |-> {}, about |-> {}]

HeightToEpoch(h) == h \div EpochLength + 1

-----------------------------------------------------------------------------
(* What node n reads off the branch it has connected. *)

WeightsAsOf(h) == IF h < 1 THEN InitialWeight ELSE main[h].weights
GetAllNodesWeights(n) == WeightsAsOf(tip[n])

\* The confirmed reports, each with the place that tells it from its copies.
ReportsOf(chain, top) ==
    UNION {{[at |-> <<h, i>>, r |-> chain[h].reports[i]] :
               i \in 1 .. Len(chain[h].reports)} : h \in 1 .. top}
ReadAllReports(n) == ReportsOf(main, tip[n])

Connected(n) == {main[h] : h \in 1 .. tip[n]}

\* LoadAccusedBlock: a block the node knows and has the data of.
HaveData(n) == Connected(n) \cup stored[n]

-----------------------------------------------------------------------------
(* MalusAccumulator. *)

Power(b, k) ==
    LET P[i \in 0 .. k] == IF i = 0 THEN 1 ELSE b * P[i - 1]
    IN  P[k]
Scale(e) == Power(MuDen, e)

Fold(prev, points, e) == MuNum * prev + points * Scale(e)

\* Psi as a fraction: 1 - M / MMax, never below 0.
CorrectionFactor(m, e) ==
    [num |-> IF m < MMax * Scale(e) THEN MMax * Scale(e) - m ELSE 0, den |-> MMax * Scale(e)]

EffectiveWeight(w, psi) ==
    LET r == (2 * w * psi.num + psi.den) \div (2 * psi.den)
    IN  IF w = 0 \/ psi.num = 0 THEN 0 ELSE IF r = 0 THEN 1 ELSE r

\* The closed form finds the first k >= 1 with mu^k * M <= MMax, one too few when
\* M comes to rest on the threshold; the loop then settles the strict inequality.
EpochsToClearClosedForm(m, e) ==
    LET First[k \in Nat] == IF Power(MuNum, k) * m <= MMax * Scale(e + k) THEN k ELSE First[k + 1]
    IN  IF m < MMax * Scale(e) THEN 0 ELSE First[1]
EpochsToClear(m, e) ==
    LET Settle[k \in Nat] == IF Power(MuNum, k) * m < MMax * Scale(e + k) THEN k ELSE Settle[k + 1]
    IN  IF m < MMax * Scale(e) THEN 0 ELSE Settle[EpochsToClearClosedForm(m, e)]

-----------------------------------------------------------------------------
(* The delay of a round: increasing in the draw divided by the share of the *)
(* total weight; the band it is mapped to is left out.                      *)

Total(weights) == SumFunctionOnSet(weights, Validator)
MiningDelay(weights, v, h) == (Luck[v][h] * Total(weights)) \div weights[v]

-----------------------------------------------------------------------------
(* ValidReport. *)

SignedByAccused(r) == \A b \in r.blocks : b.by = r.accused /\ b.height = r.height

ValidEquivocation(n, r) ==
    /\ Cardinality(r.blocks) = 2
    /\ r.blocks \subseteq HaveData(n)
    /\ SignedByAccused(r)

\* The accused's weight is corrected, the others' are not, and all of them are
\* the weights of the node's tip.
ReportedWeights(n, r, psi) ==
    [GetAllNodesWeights(n) EXCEPT ![r.accused] = EffectiveWeight(@, psi)]

ValidDelayOrPunctual(n, r, psi) ==
    /\ Cardinality(r.blocks) = 1
    /\ r.blocks \subseteq HaveData(n)
    /\ SignedByAccused(r)
    /\ LET eff == ReportedWeights(n, r, psi)
       IN  eff[r.accused] # 0
           /\ \A b \in r.blocks : b.offset <= MiningDelay(eff, r.accused, r.height)
ValidDelay(n, r, psi) ==
    /\ Cardinality(r.blocks) = 1
    /\ r.blocks \subseteq HaveData(n)
    /\ SignedByAccused(r)
    /\ LET eff == ReportedWeights(n, r, psi)
       IN  eff[r.accused] # 0
           /\ \A b \in r.blocks : b.offset < MiningDelay(eff, r.accused, r.height)

\* ValidDataIntegrityReport on the item the named transaction published.  That
\* an item's weight survives recomputation is WeightEpochs' subject: here every
\* modelled item of the accused about itself carries a wrong one.
ValidDataIntegrityReport(n, r) ==
    /\ r.height \in 1 .. tip[n]
    /\ LET item == main[r.height].item
       IN  /\ r.accused \in item.by
           /\ IF r.kind = "selfwrite" THEN item.about \cap item.by = {}
              ELSE item.about = {r.accused}

ValidReport(n, r, psi) ==
    CASE r.kind = "equiv" -> ValidEquivocation(n, r)
      [] r.kind = "delay" -> ValidDelay(n, r, psi)
      [] OTHER -> ValidDataIntegrityReport(n, r)

-----------------------------------------------------------------------------
(* The accumulators and the correction. *)

Kept(n, v, e, psi) ==
    {x \in ReadAllReports(n) :
        /\ x.r.accused = v
        /\ HeightToEpoch(x.r.height) = e
        /\ ValidReport(n, x.r, psi)}

PointsOf(X) == SumFunctionOnSet([x \in X |-> Points[x.r.kind]], X)

Clean == [v \in Validator |-> 0]

\* One pass over the epochs: those of epoch e are judged by Psi^(e-1).
GetAccumulators(n, epoch) ==
    LET M[e \in 0 .. epoch] ==
          IF e = 0 THEN Clean
          ELSE LET prev == M[e - 1]
               IN  [v \in Validator |->
                      Fold(prev[v],
                           PointsOf(Kept(n, v, e, CorrectionFactor(prev[v], e - 1))),
                           e)]
    IN  IF ReadAllReports(n) = {} THEN Clean ELSE M[epoch]

PsiPrev(n, v, e) == CorrectionFactor(GetAccumulators(n, e - 1)[v], e - 1)

ApplyToWeights(n, weights, e) ==
    LET M == GetAccumulators(n, e)
    IN  [v \in Validator |-> EffectiveWeight(weights[v], CorrectionFactor(M[v], e))]

WPoAApplyMalusAtOnce(n, weights, h) == ApplyToWeights(n, weights, HeightToEpoch(h))
WPoAApplyMalus(n, weights, h) ==
    IF HeightToEpoch(h) < 2 THEN weights
    ELSE ApplyToWeights(n, weights, HeightToEpoch(h) - 1)

\* The weights by which n scores itself and others at height h.
RoundWeights(n, h) == WPoAApplyMalus(n, WeightsAsOf(h - 1), h)

\* The places of the reports n counts for the round of height h.
Counted(n, h) ==
    {x.at : x \in UNION {Kept(n, v, e, PsiPrev(n, v, e)) :
                            v \in Validator, e \in 1 .. HeightToEpoch(h) - 1}}

-----------------------------------------------------------------------------
(* Blocks. *)

\* WPoASortitionVerifyProposer, with the correction left out.
VerifyProposerRaw(n, b) ==
    b.offset >= MiningDelay(WeightsAsOf(b.height - 1), b.by, b.height)
VerifyProposer(n, b) ==
    LET eff == RoundWeights(n, b.height)
    IN  eff[b.by] # 0 /\ b.offset >= MiningDelay(eff, b.by, b.height)

\* A block without contents, as side blocks are; counted is what its miner
\* counted when it set the countdown.
Plain(v, h, twin, offset) ==
    [by |-> v, height |-> h, twin |-> twin, offset |-> offset, item |-> NoItem,
     reports |-> << >>, weights |-> WeightsAsOf(h - 1), counted |-> Counted(v, h)]

\* AcceptBlockHeader refuses a child of a failed block, so a node whose next
\* block of main failed follows main no further.
Follows(n) == \A b \in failed[n] : b \notin {main[h] : h \in 1 .. Len(main)}

ProposedAt(v, h) ==
    \E b \in sides \cup {main[i] : i \in 1 .. Len(main)} : b.by = v /\ b.height = h

\* The record a block may carry: none, or one its faulty miner forged about
\* another or falsified about itself.
Items(v) ==
    {NoItem} \cup (IF v \in Faulty /\ offences < MaxOffences
                   THEN {[by |-> {v}, about |-> {a}] : a \in Validator} ELSE {})

\* A miner waits its delay out and proposes once in a round.  A block of main
\* confirms all of the pooled reports or none, and the one of height Reweighting
\* the later weights.
Mine(v) ==
    LET h == tip[v] + 1
        eff == RoundWeights(v, h)
    IN  /\ h <= MaxHeight
        /\ Follows(v)
        /\ ~ProposedAt(v, h)
        /\ eff[v] # 0
        /\ LET b == Plain(v, h, 1, MiningDelay(eff, v, h))
           IN  \/ /\ tip[v] = Len(main)
                  /\ \E item \in Items(v), all \in BOOLEAN :
                        /\ main' = Append(main,
                              [b EXCEPT !.item = item,
                                        !.weights = IF h = Reweighting THEN LaterWeight ELSE @,
                                        !.reports = IF all THEN pool ELSE @])
                        /\ pool' = IF all THEN << >> ELSE pool
                        /\ offences' = IF item = NoItem THEN offences ELSE offences + 1
                  /\ tip' = [tip EXCEPT ![v] = h]
                  /\ UNCHANGED <<sides, stored>>
               \/ /\ tip[v] < Len(main)
                  /\ Cardinality(sides) < MaxSides
                  /\ sides' = sides \cup {b}
                  /\ stored' = [stored EXCEPT ![v] = @ \cup {b}]
                  /\ UNCHANGED <<main, tip, pool, offences>>
        /\ UNCHANGED <<failed, reports>>

Offend(v, b) ==
    /\ v \in Faulty
    /\ offences < MaxOffences
    /\ Cardinality(sides) < MaxSides
    /\ offences' = offences + 1
    /\ sides' = sides \cup {b}
    /\ stored' = [stored EXCEPT ![v] = @ \cup {b}]
    /\ UNCHANGED <<main, tip, failed, pool, reports>>

\* A second block for a round the validator has proposed in.
Equivocate(v) ==
    \E b \in HaveData(v) :
       /\ b.by = v /\ b.twin = 1
       /\ Offend(v, Plain(v, b.height, 2, b.offset))

\* A block stamped before its time, which its miner keeps.
Hurry(v) ==
    LET h == tip[v] + 1
        eff == RoundWeights(v, h)
    IN  /\ h <= MaxHeight
        /\ ~ProposedAt(v, h)
        /\ eff[v] # 0 /\ MiningDelay(eff, v, h) > 0
        /\ Offend(v, Plain(v, h, 1, 0))

\* AcceptBlock with the data on disk before the bar is checked.
AcceptBlockWrittenFirst(n, b) ==
    /\ IF b \in sides
       THEN /\ stored' = [stored EXCEPT ![n] = @ \cup {b}]
            /\ UNCHANGED tip
       ELSE /\ tip' = [tip EXCEPT ![n] = @ + 1]
            /\ UNCHANGED stored
    /\ failed' = IF VerifyProposer(n, b) THEN failed
                 ELSE [failed EXCEPT ![n] = @ \cup {b}]

\* AcceptBlock: the time bar comes before the data is written to disk.
AcceptBlock(n, b) ==
    IF VerifyProposer(n, b)
    THEN /\ IF b \in sides
            THEN /\ stored' = [stored EXCEPT ![n] = @ \cup {b}]
                 /\ UNCHANGED tip
            ELSE /\ tip' = [tip EXCEPT ![n] = @ + 1]
                 /\ UNCHANGED stored
         /\ UNCHANGED failed
    ELSE /\ failed' = [failed EXCEPT ![n] = @ \cup {b}]
         /\ UNCHANGED <<tip, stored>>

Connect(n) ==
    /\ tip[n] < Len(main)
    /\ Follows(n)
    /\ AcceptBlock(n, main[tip[n] + 1])
    /\ UNCHANGED <<main, sides, pool, reports, offences>>

Receive(n, b) ==
    /\ b \in sides \ (stored[n] \cup failed[n])
    /\ b.height <= tip[n] + 1
    /\ AcceptBlock(n, b)
    /\ UNCHANGED <<main, sides, pool, reports, offences>>

-----------------------------------------------------------------------------
(* Reports. *)

\* What may be alleged: two blocks of one height, one block, or an item.
Allegations ==
    LET blocks == sides \cup {main[h] : h \in 1 .. Len(main)}
        pairs == {p \in blocks \X blocks : p[1] # p[2] /\ p[1].height = p[2].height}
        items == {h \in 1 .. Len(main) : main[h].item # NoItem}
    IN  {[kind |-> "equiv", accused |-> p[1].by, height |-> p[1].height,
          blocks |-> {p[1], p[2]}] : p \in pairs}
        \cup {[kind |-> "delay", accused |-> b.by, height |-> b.height, blocks |-> {b}] :
                b \in blocks}
        \cup {[kind |-> k, accused |-> v, height |-> h, blocks |-> {}] :
                k \in {"selfwrite", "badweight"}, v \in Validator, h \in items}

Publish(r) ==
    /\ reports < MaxReports
    /\ reports' = reports + 1
    /\ pool' = Append(pool, r)
    /\ UNCHANGED <<main, sides, tip, stored, failed, offences>>

\* The RPC publishes what its node finds valid.
PublishReport(n, r) ==
    /\ ValidReport(n, r, PsiPrev(n, r.accused, HeightToEpoch(r.height)))
    /\ Publish(r)

\* The stream is open: any item may be published on it by hand.
PublishUnchecked(r) == Publish(r)

Init ==
    /\ main = << >>
    /\ sides = {}
    /\ tip = [n \in Node |-> 0]
    /\ stored = [n \in Node |-> {}]
    /\ failed = [n \in Node |-> {}]
    /\ pool = << >>
    /\ reports = 0
    /\ offences = 0

Next ==
    \/ \E v \in Validator : Mine(v) \/ Equivocate(v) \/ Hurry(v)
    \/ \E n \in Node :
          \/ Connect(n)
          \/ \E b \in sides : Receive(n, b)
          \/ \E r \in Allegations : PublishReport(n, r)
    \/ \E r \in Allegations : PublishUnchecked(r)

Spec == Init /\ [][Next]_vars

-----------------------------------------------------------------------------
(* Properties. *)

Kinds == DOMAIN Points
IsBlock(b) ==
    /\ b.by \in Validator
    /\ b.height \in 1 .. MaxHeight
    /\ b.twin \in {1, 2}
    /\ b.offset \in Nat
    /\ b.weights \in [Validator -> Nat \ {0}]
IsReport(r) == r.kind \in Kinds /\ r.accused \in Validator /\ r.height \in 1 .. MaxHeight

\* Every variable holds a value of its kind, and what a node has connected,
\* stored or refused was published.
TypeOK ==
    /\ Len(main) <= MaxHeight
    /\ \A h \in 1 .. Len(main) : IsBlock(main[h]) /\ main[h].height = h
    /\ \A b \in sides : IsBlock(b)
    /\ tip \in [Node -> 0 .. Len(main)]
    /\ stored \in [Node -> SUBSET sides]
    /\ \A n \in Node :
          /\ failed[n] \subseteq sides \cup {main[h] : h \in 1 .. Len(main)}
          /\ failed[n] \cap HaveData(n) = {}
    /\ \A i \in 1 .. Len(pool) : IsReport(pool[i])
    /\ reports \in 0 .. MaxReports
    /\ offences \in 0 .. MaxOffences

CountedReports(n) ==
    UNION {Kept(n, v, e, PsiPrev(n, v, e)) :
              v \in Validator, e \in 1 .. HeightToEpoch(Len(main))}

\* A delay report is not judged by the weights its block's bar was set by: there
\* is a newer weight, another validator's malus, or a report its miner did not
\* count.
BarMoved(n, r) ==
    \/ GetAllNodesWeights(n) # WeightsAsOf(r.height - 1)
    \/ \E v \in Validator \ {r.accused} :
          GetAccumulators(n, HeightToEpoch(r.height) - 1)[v] > 0
    \/ \E b \in r.blocks : b.counted # Counted(n, r.height)

\* A false report moves nobody's weight: a report some node counts accuses a
\* validator that did misbehave.  The exception is a delay report about a block
\* whose bar has moved since, which can convict an honest miner.
FalseReportsDiscarded ==
    \A n \in Node : \A x \in CountedReports(n) :
       x.r.accused \in Faulty \/ (x.r.kind = "delay" /\ BarMoved(n, x.r))

\* A node that refused a block never counts a report that rests on it: the
\* time bar comes before the data is written (AcceptBlock, main.cpp), and
\* ValidReport wants the data (LoadAccusedBlock).  A block stamped too early is
\* thus punished only by nodes that let it through.
RefusedBlocksGoUncounted ==
    \A n \in Node : \A x \in CountedReports(n) : x.r.blocks \cap failed[n] = {}

\* An honest block of a validator without malus is refused only by a node that
\* lacks evidence its miner had counted, or has not yet read it: more reports
\* never make the bar of such a validator stricter.
RefusedOnlyForMissingEvidence ==
    [][\A n \in Node : \A b \in failed'[n] \ failed[n] :
          b.by \notin Faulty
          /\ GetAccumulators(n, HeightToEpoch(b.height) - 1)[b.by] = 0
             => ~(b.counted \subseteq Counted(n, b.height))]_vars

\* A round's weights are lowered only on account of reports about epochs before
\* it, and only for the accused: what is reported in an epoch never bears on that
\* epoch's own bars, by which such reports are judged.
CorrectionComesLater ==
    \A n \in Node : \A h \in 1 .. tip[n] + 1 : \A v \in Validator :
       LET w == RoundWeights(n, h)[v]
       IN  w = WeightsAsOf(h - 1)[v]
           \/ /\ w < WeightsAsOf(h - 1)[v]
              /\ \E x \in ReadAllReports(n) :
                    x.r.accused = v /\ HeightToEpoch(x.r.height) < HeightToEpoch(h)

\* No exclusion is permanent: a validator whose weight is corrected to nothing
\* is eligible again after EpochsToClear clean epochs, and not sooner.
ExclusionEnds ==
    \A n \in Node, v \in Validator :
       LET e == HeightToEpoch(Len(main))
           M(k) == GetAccumulators(n, e + k)[v]
           clear == EpochsToClear(M(0), e)
       IN  \A k \in 0 .. clear :
              (EffectiveWeight(1, CorrectionFactor(M(k), e + k)) > 0) <=> k = clear
=============================================================================
