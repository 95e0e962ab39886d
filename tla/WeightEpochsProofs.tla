------------------------- MODULE WeightEpochsProofs -------------------------
(***************************************************************************)
(* The weight engines, for any nodes, epochs, transactions and faults.     *)
(*                                                                         *)
(* EpochsInv is inductive.  Its parts: the chain is a ledger (LedgerInv);  *)
(* each engine works on a buried epoch and holds just records (EngineInv); *)
(* every record mined or waiting is just, that is, it has the weight its   *)
(* node's parameters give for the epoch's inputs (RecordsInv); none is     *)
(* mined twice (OnceInv); while no registration of a node has raced        *)
(* another, the weight it registered last is in flight or in the registry  *)
(* (StandInv); and the verdicts are just.                                  *)
(*                                                                         *)
(* What makes a record stay just is that a step of the chain, a new block  *)
(* or a reorganisation, keeps the buried part (ChainStep), and that the    *)
(* inputs and facts of a buried epoch depend on that part alone (Agree).   *)
(*                                                                         *)
(* Three facts about the numbers of the pipeline are hypotheses here       *)
(* (PipelineFacts).  WeightPipelineProofs proves them, and with them the   *)
(* theorems on the states.                                                 *)
(***************************************************************************)
EXTENDS WeightEpochs, TLAPS

USE Zenon

(* Products and quotients. *)

\* A product of natural numbers grows with its factors.
LEMMA ProductsGrow ==
    ASSUME NEW a \in Nat, NEW b \in Nat, NEW c \in Nat, a <= b
    PROVE  /\ a * c \in Nat /\ b * c \in Nat /\ c * a \in Nat /\ c * b \in Nat
           /\ a * c <= b * c /\ c * a <= c * b
  BY SMT

\* The quotient is the number of times the divisor fits.
LEMMA QuotientBounds ==
    ASSUME NEW a \in Nat, NEW c \in Nat, c > 0
    PROVE  /\ a \div c \in Nat
           /\ (a \div c) * c \in Nat
           /\ (a \div c) * c <= a
           /\ a < (a \div c) * c + c
  BY SMT

\* A quotient grows with what is divided.
LEMMA QuotientsGrow ==
    ASSUME NEW a \in Nat, NEW b \in Nat, NEW c \in Nat, c > 0, a <= b
    PROVE  a \div c <= b \div c
  BY QuotientBounds, ProductsGrow, SMT

(***************************************************************************)
(* Epochs and heights.                                                     *)
(***************************************************************************)

\* The quotient by the length of an epoch is the largest number of whole
\* epochs that fit.
LEMMA WholeEpochs ==
    ASSUME NEW x \in Nat
    PROVE  /\ x \div EpochLength \in Nat
           /\ (x \div EpochLength) * EpochLength <= x
           /\ x < (x \div EpochLength) * EpochLength + EpochLength
  BY PipelineAssumption, SMT

\* Products with the length of an epoch keep their order.
LEMMA MoreEpochsLast ==
    ASSUME NEW a \in Nat, NEW b \in Nat, a <= b
    PROVE  a * EpochLength <= b * EpochLength
  BY PipelineAssumption, SMT

\* The two ways the code decides that an epoch may be computed agree at the
\* boundary: the guard of ComputeEpochFacts lets an epoch through just when
\* LastBuriedEpoch has reached it (weight_reader.cpp, weight_engine.h).
THEOREM BurialTestsAgree ==
    ASSUME NEW tip \in Nat, NEW e \in Nat
    PROVE  Buried(tip, e) <=> e \in 1 .. LastBuriedEpoch(tip)
  BY PipelineAssumption, MoreEpochsLast, WholeEpochs, SMT DEF Buried, LastBuriedEpoch,
                     LastHeight

\* What the facts of an epoch need to know of a chain.
IsChain(c) ==
    /\ Len(c) \in Nat
    /\ \A h \in 1 .. Len(c) : Len(c[h]) \in Nat
    /\ \A p \in Places(c, 1, Len(c)) : IsTransaction(At(c, p))

\* A place is a height and an index in the block there.
LEMMA PlaceFacts ==
    ASSUME NEW c, NEW a, NEW b
    PROVE  \A p : p \in Places(c, a, b)
                    <=> \E h \in a .. b : \E i \in 1 .. Len(c[h]) : p = <<h, i>>
  BY SMT DEF Places

\* The heights of an epoch that is complete.
LEMMA EpochPlacesFacts ==
    ASSUME NEW c, NEW e \in Nat, e >= 1
    PROVE  /\ FirstHeight(e) + 1 \in Nat /\ FirstHeight(e) + 1 >= 1
           /\ LastHeight(e) + 1 = e * EpochLength /\ e * EpochLength \in Nat
           /\ \A n \in Nat : LastHeight(e) + 1 <= n
                 => EpochPlaces(c, e) \subseteq Places(c, 1, n)
  BY PipelineAssumption, SMT DEF FirstHeight, LastHeight, Places, EpochPlaces

\* What the pipeline needs to know of the inputs it reads.
IsInput(in) ==
    /\ IsFiniteSet(DOMAIN in.member)
    /\ \A a \in DOMAIN in.esg : in.esg[a].score \in Nat

\* Every weight the pipeline computes fits its field and is not 0 ...
WeightsFit ==
    \A c, in, k : \A e \in Nat :
        IsChain(c) /\ IsInput(in) /\ e >= 1 /\ LastHeight(e) + 1 <= Len(c)
            => WeightForEpoch(c, in, e, k) \in 1 .. UMax

\* ... of some places of a chain one is the newest ...
NewestIsThere ==
    \A c, P :
        IsChain(c) /\ P \subseteq Places(c, 1, Len(c)) /\ P # {}
            => \E p \in P : \A q \in P : q # p => Later(p, q)

\* ... and what ReadInputs makes of a chain is an input of the pipeline.
InputsAreRead == \A c : IsChain(c) => IsInput(ReadInputs(c))

\* These three facts rest on sums, finite sets and greatest elements.  They
\* are hypotheses of the lemmas of this module that need them, and
\* WeightPipelineProofs proves them.
PipelineFacts == WeightsFit /\ NewestIsThere /\ InputsAreRead

\* An engine with other parameters comes to another weight of the same range.
LEMMA EnginesDiffer ==
    ASSUME NEW w \in 1 .. UMax, NEW n
    PROVE  /\ ByEngineOf(n, w) \in 1 .. UMax
           /\ n \notin Skewed => ByEngineOf(n, w) = w
           /\ n \in Skewed => ByEngineOf(n, w) # w
  BY PipelineAssumption, SMT DEF ByEngineOf

\* The parser recovers such a weight.
LEMMA ParsedInRange ==
    ASSUME NEW w \in 1 .. UMax
    PROVE  ParsedWeight(w) = w
  BY PipelineAssumption, SMT DEF ParsedWeight

\* Two chains with the same blocks up to height h.
Agree(c, d, h) == \A i \in 1 .. h : c[i] = d[i]

\* Less of what agrees agrees.
LEMMA AgreeBelow ==
    ASSUME NEW c, NEW d, NEW h \in Int, Agree(c, d, h), NEW g \in Int, g <= h
    PROVE  Agree(c, d, g)
  BY SMT DEF Agree

\* The facts of an epoch are a function of its blocks.
LEMMA SameFacts ==
    ASSUME NEW c, NEW d, NEW e \in Nat, e >= 1, Agree(c, d, e * EpochLength), NEW a
    PROVE  /\ Tau(c, e, a) = Tau(d, e, a)
           /\ Restituted(c, e, a) = Restituted(d, e, a)
           /\ Credits(c, e, a) = Credits(d, e, a)
           /\ Debits(c, e, a) = Debits(d, e, a)
<1>. DEFINE lo == FirstHeight(e) + 1
            hi == LastHeight(e) + 1
            P == EpochPlaces(c, e)
<1>. \A h \in lo .. hi : c[h] = d[h]
  BY EpochPlacesFacts, SMT DEF Agree
<1>. P = EpochPlaces(d, e)
  BY DEF Places, EpochPlaces, lo, hi
<1>. ASSUME NEW p \in P PROVE At(c, p) = At(d, p)
  BY PlaceFacts, SMT DEF EpochPlaces, At
<1>. HIDE DEF P
<1>4. Tau(c, e, a) = Tau(d, e, a)
  BY SMT DEF Tau, P
<1>5. Restituted(c, e, a) = Restituted(d, e, a)
  BY DEF Restituted, P
<1>6. Credits(c, e, a) = Credits(d, e, a)
  BY DEF Credits, P
<1>7. Debits(c, e, a) = Debits(d, e, a)
  BY DEF Debits, P
<1>. QED  BY <1>4, <1>5, <1>6, <1>7

\* Epochs before e lie within the blocks of the first e.
LEMMA AgreeEarlier ==
    ASSUME NEW c, NEW d, NEW e \in Nat, Agree(c, d, e * EpochLength),
           NEW i \in Nat, i <= e
    PROVE  Agree(c, d, i * EpochLength)
  BY MoreEpochsLast, PipelineAssumption, AgreeBelow, SMT

\* So is the saldo, a function of the blocks of the epochs so far ...
LEMMA SameSaldo ==
    ASSUME NEW c, NEW d, NEW e \in Nat, Agree(c, d, e * EpochLength), NEW k
    PROVE  Saldo(c, e, k) = Saldo(d, e, k)
  BY AgreeEarlier, SameFacts, SMT DEF Saldo

\* ... and the weight, with the same inputs.
LEMMA SameWeight ==
    ASSUME NEW c, NEW d, NEW e \in Nat, e >= 1, Agree(c, d, e * EpochLength), NEW in, NEW k
    PROVE  WeightForEpoch(c, in, e, k) = WeightForEpoch(d, in, e, k)
  BY SameFacts, AgreeEarlier, SameSaldo, SMT DEF ScaledRaw, Rate, WeightForEpoch

\* What Newest reads about an address is an item at one of its places, and
\* none is later.
LEMMA NewestFacts ==
    ASSUME NewestIsThere, NEW c, IsChain(c), NEW P, P \subseteq Places(c, 1, Len(c)),
           NEW a \in DOMAIN Newest(c, P)
    PROVE  \E p \in P : /\ At(c, p).item.node = a
                        /\ Newest(c, P)[a] = At(c, p).item
                        /\ \A q \in P : At(c, q).item.node = a /\ q # p => Later(p, q)
<1>. DEFINE about == {p \in P : At(c, p).item.node = a}
            Last(p) == p \in about /\ \A q \in about : q # p => Later(p, q)
            top == CHOOSE p \in about : \A q \in about : q # p => Later(p, q)
<1>. DOMAIN Newest(c, P) = {At(c, p).item.node : p \in P}
  BY DEF Newest
<1>2. Newest(c, P)[a] = At(c, top).item
  BY DEF Newest
<1>3. Last(top)
  BY DEF NewestIsThere
<1>. HIDE DEF top
<1>. QED  BY <1>2, <1>3

\* The chain is a sequence of whatever its blocks are.
ChainInv == chain \in Seq({chain[i] : i \in DOMAIN chain})

\* The epochs buried under a chain of len blocks: their blocks lie at least
\* Margin blocks below its end, and a longer chain buries no fewer.
LEMMA BuriedPart ==
    ASSUME NEW len \in Nat, len >= 1
    PROVE  LET e == LastBuriedEpoch(len - 1)
           IN  /\ e \in Nat /\ e * EpochLength \in Nat
               /\ e * EpochLength <= len
               /\ e >= 1 => e * EpochLength <= len - Margin
               /\ \A more \in Nat : more >= len => e <= LastBuriedEpoch(more - 1)
<1>. USE PipelineAssumption
<1>. DEFINE e == LastBuriedEpoch(len - 1)
<1>. ASSUME NEW n \in Nat, n - 1 >= Margin
      PROVE  /\ LastBuriedEpoch(n - 1) = (n - Margin) \div EpochLength
             /\ n - Margin \in Nat
  BY SMT DEF LastBuriedEpoch
<1>. ASSUME NEW n \in Nat, ~(n - 1 >= Margin)
      PROVE  LastBuriedEpoch(n - 1) = 0
  BY SMT DEF LastBuriedEpoch
<1>. CASE len - 1 >= Margin
  BY QuotientBounds, QuotientsGrow, SMT DEF e
<1>. CASE ~(len - 1 >= Margin)
  BY QuotientBounds, SMT
<1>. QED  OBVIOUS

\* A step of the chain: d is c up to the block at cut, which is at most
\* Margin blocks below the end, then empty blocks, then block b.
ChainStep(c, d, cut, b) ==
    /\ Len(c) \in Nat /\ Len(d) = Len(c) + 1
    /\ cut \in 1 .. Len(c)
    /\ Len(c) - Margin <= cut
    /\ Agree(c, d, cut)
    /\ \A h \in cut + 1 .. Len(c) : d[h] = << >>
    /\ d[Len(c) + 1] = b

\* The transactions after a step.
LEMMA StepPlaces ==
    ASSUME NEW c, NEW d, NEW cut, NEW b, ChainStep(c, d, cut, b)
    PROVE  /\ Places(c, 1, cut) \subseteq Places(c, 1, Len(c))
           /\ Places(c, 1, cut) \subseteq Places(d, 1, Len(d))
           /\ \A p \in Places(c, 1, cut) : At(d, p) = At(c, p)
           /\ \A p \in Places(d, 1, Len(d)) :
                 \/ p \in Places(c, 1, cut)
                 \/ \E i \in 1 .. Len(b) : p = <<Len(c) + 1, i>>
           /\ \A i \in 1 .. Len(b) : /\ <<Len(c) + 1, i>> \in Places(d, 1, Len(d))
                                     /\ At(d, <<Len(c) + 1, i>>) = b[i]
<1>. /\ Len(c) \in Nat /\ Len(d) = Len(c) + 1 /\ cut \in Nat /\ cut >= 1 /\ cut <= Len(c)
      /\ \A h \in 1 .. cut : c[h] = d[h]
  BY SMT DEF ChainStep, Agree
<1>1. 1 .. cut \subseteq 1 .. Len(c) /\ 1 .. cut \subseteq 1 .. Len(d)
  BY SMT
<1>2. Places(c, 1, cut) \subseteq Places(c, 1, Len(c))
  BY <1>1 DEF Places
<1>3. ASSUME NEW p \in Places(c, 1, cut)
      PROVE  p \in Places(d, 1, Len(d)) /\ At(d, p) = At(c, p)
  <2>1. PICK h \in 1 .. cut : \E i \in 1 .. Len(c[h]) : p = <<h, i>>
    BY PlaceFacts, SMT
  <2>2. PICK i \in 1 .. Len(c[h]) : p = <<h, i>>
    BY <2>1
  <2>3. c[h] = d[h] /\ h \in 1 .. Len(d)
    BY <1>1
  <2>4. \E j \in 1 .. Len(d[h]) : p = <<h, j>>
    BY <2>2, <2>3
  <2>5. p \in Places(d, 1, Len(d))
    BY <2>3, <2>4, PlaceFacts
  <2>. QED  BY <2>2, <2>3, <2>5 DEF At
<1>4. ASSUME NEW p \in Places(d, 1, Len(d))
      PROVE  \/ p \in Places(c, 1, cut)
             \/ \E i \in 1 .. Len(b) : p = <<Len(c) + 1, i>>
  <2>1. PICK h \in 1 .. Len(d) : \E i \in 1 .. Len(d[h]) : p = <<h, i>>
    BY PlaceFacts, SMT
  <2>2. CASE h <= cut
    <3>1. h \in 1 .. cut /\ c[h] = d[h]
      BY <2>2, SMT
    <3>2. \E i \in 1 .. Len(c[h]) : p = <<h, i>>
      BY <2>1, <3>1
    <3>. QED  BY <3>1, <3>2, PlaceFacts
  <2>3. CASE h > cut /\ h <= Len(c)
    BY <2>1, <2>3, SMT DEF ChainStep
  <2>4. CASE h = Len(c) + 1
    BY <2>1, <2>4 DEF ChainStep
  <2>. QED  BY <2>2, <2>3, <2>4, SMT
<1>5. ASSUME NEW i \in 1 .. Len(b)
      PROVE  /\ <<Len(c) + 1, i>> \in Places(d, 1, Len(d))
             /\ At(d, <<Len(c) + 1, i>>) = b[i]
  <2>1. d[Len(c) + 1] = b /\ Len(c) + 1 \in 1 .. Len(d)
    BY SMT DEF ChainStep
  <2>2. \E j \in 1 .. Len(d[Len(c) + 1]) : <<Len(c) + 1, i>> = <<Len(c) + 1, j>>
    BY <2>1
  <2>3. <<Len(c) + 1, i>> \in Places(d, 1, Len(d))
    BY <2>1, <2>2, PlaceFacts
  <2>. QED  BY <2>1, <2>3 DEF At
<1>. QED  BY <1>2, <1>3, <1>4, <1>5

\* A step leaves a chain behind ...
LEMMA StepMakesChain ==
    ASSUME NEW c, NEW d, NEW cut, NEW b, ChainStep(c, d, cut, b), IsChain(c),
           Len(b) \in Nat, \A i \in 1 .. Len(b) : IsTransaction(b[i])
    PROVE  IsChain(d)
<1>1. Len(d) \in Nat
  BY SMT DEF ChainStep
<1>2. ASSUME NEW h \in 1 .. Len(d) PROVE Len(d[h]) \in Nat
  BY SMT DEF ChainStep, Agree, IsChain
<1>3. ASSUME NEW p \in Places(d, 1, Len(d)) PROVE IsTransaction(At(d, p))
  <2>. CASE p \in Places(c, 1, cut)
    BY StepPlaces, SMT DEF IsChain
  <2>. ASSUME NEW i \in 1 .. Len(b), p = <<Len(c) + 1, i>>
        PROVE  IsTransaction(At(d, p))
    BY StepPlaces, SMT
  <2>. QED  BY StepPlaces, SMT
<1>. QED  BY <1>1, <1>2, <1>3 DEF IsChain

\* ... and a ledger, if its block moves no money.
LEMMA StepMakesLedger ==
    ASSUME NEW c, NEW d, NEW cut, NEW b, ChainStep(c, d, cut, b), IsChain(c), IsLedger(c),
           \A i \in 1 .. Len(b) : b[i].outs = {} /\ Money(b[i].ins) = {}
    PROVE  IsLedger(d)
<1>. DEFINE P == Places(d, 1, Len(d))
            Q == Places(c, 1, cut)
            R == Places(c, 1, Len(c))
<1>1. ASSUME NEW p \in P, p \notin Q PROVE At(d, p).outs = {} /\ Money(At(d, p).ins) = {}
  <2>1. PICK i \in 1 .. Len(b) : p = <<Len(c) + 1, i>>
    BY <1>1, StepPlaces, SMT
  <2>2. At(d, p) = b[i]
    BY <2>1, StepPlaces, SMT
  <2>. QED  BY <2>2
<1>2. Q \subseteq R /\ Q \subseteq P /\ \A p \in Q : At(d, p) = At(c, p)
  BY StepPlaces, SMT
<1>3. ASSUME NEW p \in Q, NEW q \in R, ~Later(q, p) PROVE q \in Q
  BY <1>3, PlaceFacts, SMT DEF ChainStep, Later
<1>4. /\ \A p \in R : \A coin \in Money(At(c, p).ins) :
            \E q \in R : ~Later(q, p) /\ coin \in At(c, q).outs
      /\ \A p, q \in R : p # q =>
            /\ At(c, p).outs \cap At(c, q).outs = {}
            /\ Money(At(c, p).ins) \cap Money(At(c, q).ins) = {}
  BY DEF IsLedger
<1>. HIDE DEF P, Q, R
<1>5. ASSUME NEW p \in P, NEW coin \in Money(At(d, p).ins)
      PROVE  \E q \in P : ~Later(q, p) /\ coin \in At(d, q).outs
  <2>1. p \in Q
    BY <1>1, <1>5
  <2>2. coin \in Money(At(c, p).ins) /\ p \in R
    BY <1>2, <1>5, <2>1
  <2>3. PICK q \in R : ~Later(q, p) /\ coin \in At(c, q).outs
    BY <1>4, <2>2
  <2>4. q \in Q
    BY <1>3, <2>1, <2>3
  <2>. QED  BY <1>2, <2>3, <2>4
<1>6. ASSUME NEW p \in P, NEW q \in P, p # q
      PROVE  /\ At(d, p).outs \cap At(d, q).outs = {}
             /\ Money(At(d, p).ins) \cap Money(At(d, q).ins) = {}
  <2>1. CASE p \in Q /\ q \in Q
    BY <1>2, <1>4, <1>6, <2>1
  <2>2. CASE p \notin Q \/ q \notin Q
    BY <1>1, <2>2
  <2>. QED  BY <2>1, <2>2
<1>. QED  BY <1>5, <1>6 DEF IsLedger, P

\* The blocks of buried epochs stay.
LEMMA StepKeepsTheBuried ==
    ASSUME NEW c, NEW d, NEW cut, NEW b, ChainStep(c, d, cut, b),
           NEW e \in Nat, e <= LastBuriedEpoch(Len(c) - 1)
    PROVE  /\ Agree(c, d, e * EpochLength)
           /\ e <= LastBuriedEpoch(Len(d) - 1)
           /\ e * EpochLength <= Len(c) /\ e * EpochLength <= Len(d)
<1>. DEFINE top == LastBuriedEpoch(Len(c) - 1)
<1>0. /\ Len(c) \in Nat /\ Len(c) >= 1 /\ Len(d) = Len(c) + 1 /\ cut \in Int /\ cut >= 1
      /\ Len(c) - Margin <= cut /\ Agree(c, d, cut)
  BY SMT DEF ChainStep
<1>1. /\ top \in Nat /\ top * EpochLength \in Nat
      /\ top * EpochLength <= Len(c)
      /\ top >= 1 => top * EpochLength <= Len(c) - Margin
      /\ \A more \in Nat : more >= Len(c) => top <= LastBuriedEpoch(more - 1)
  BY <1>0, BuriedPart
<1>2. LastBuriedEpoch(Len(d) - 1) >= top /\ LastBuriedEpoch(Len(d) - 1) \in Nat
  BY <1>0, <1>1, BuriedPart, SMT
<1>. HIDE DEF top
<1>3. e <= top
  BY DEF top
<1>4. e * EpochLength <= top * EpochLength /\ e * EpochLength \in Nat
  BY <1>1, <1>3, MoreEpochsLast, PipelineAssumption, SMT
<1>5. e * EpochLength <= cut
  <2>1. CASE top >= 1
    <3>. DEFINE x == e * EpochLength
                y == top * EpochLength
    <3>1. x \in Nat /\ y \in Nat /\ x <= y /\ y <= Len(c) - Margin /\ Margin \in Nat
      BY <1>1, <1>4, <2>1, PipelineAssumption
    <3>. HIDE DEF x, y
    <3>2. x <= cut
      BY <1>0, <3>1, SMT
    <3>. QED  BY <3>2 DEF x
  <2>2. CASE top = 0
    BY <1>0, <1>4, <2>2, PipelineAssumption, SMT
  <2>. QED  BY <1>1, <2>1, <2>2, SMT
<1>6. Agree(c, d, e * EpochLength)
  BY <1>0, <1>4, <1>5, AgreeBelow, SMT
<1>. QED  BY <1>0, <1>1, <1>2, <1>3, <1>4, <1>6, SMT

\* What a record that names its inputs says on chain c: the weight its
\* node's engine computes for the epoch, which is buried.
JustRecord(c, r) ==
    /\ r.epoch \in 1 .. LastBuriedEpoch(Len(c) - 1)
    /\ IsInput(r.basis)
    /\ r.node \in Heads(r.basis)
    /\ r.weight = ByEngineOf(r.node, WeightForEpoch(c, r.basis, r.epoch, r.node))

\* The weight of a buried epoch is computed from blocks that are there.
LEMMA BuriedWeight ==
    ASSUME PipelineFacts, NEW c, IsChain(c), Len(c) >= 1, NEW in, IsInput(in),
           NEW e \in 1 .. LastBuriedEpoch(Len(c) - 1), NEW k
    PROVE  WeightForEpoch(c, in, e, k) \in 1 .. UMax
<1>. DEFINE top == LastBuriedEpoch(Len(c) - 1)
<1>1. Len(c) \in Nat
  BY DEF IsChain
<1>. top \in Nat /\ top * EpochLength \in Nat /\ top * EpochLength <= Len(c)
  BY <1>1, BuriedPart
<1>. e \in Nat /\ e >= 1 /\ e <= top
  BY SMT
<1>. HIDE DEF top
<1>4. LastHeight(e) + 1 = e * EpochLength /\ e * EpochLength \in Nat
  BY EpochPlacesFacts
<1>5. e * EpochLength <= top * EpochLength
  BY MoreEpochsLast
<1>. DEFINE x == e * EpochLength
            y == top * EpochLength
<1>6. x \in Nat /\ y \in Nat /\ x <= y /\ y <= Len(c)
  BY <1>4, <1>5
<1>. HIDE DEF x, y
<1>7. x <= Len(c)
  BY <1>1, <1>6, SMT
<1>8. LastHeight(e) + 1 <= Len(c)
  BY <1>4, <1>7 DEF x
<1>9. WeightsFit
  BY DEF PipelineFacts
<1>. QED  BY <1>8, <1>9 DEF WeightsFit

\* Its weight fits the field.
LEMMA JustWeight ==
    ASSUME PipelineFacts, NEW c, IsChain(c), Len(c) >= 1, NEW r, JustRecord(c, r)
    PROVE  r.weight \in 1 .. UMax /\ ParsedWeight(r.weight) = r.weight
  BY BuriedWeight, EnginesDiffer, ParsedInRange DEF JustRecord

\* A just record stays just, whatever happens to the chain.
LEMMA JustRecordStays ==
    ASSUME NEW c, NEW d, NEW cut, NEW b, ChainStep(c, d, cut, b), NEW r, JustRecord(c, r)
    PROVE  JustRecord(d, r)
<1>1. LastBuriedEpoch(Len(c) - 1) \in Nat /\ LastBuriedEpoch(Len(d) - 1) \in Nat
  BY BuriedPart, SMT DEF ChainStep
<1>. r.epoch \in Nat /\ r.epoch >= 1 /\ r.epoch <= LastBuriedEpoch(Len(c) - 1)
  BY <1>1, SMT DEF JustRecord
<1>3. Agree(c, d, r.epoch * EpochLength) /\ r.epoch <= LastBuriedEpoch(Len(d) - 1)
  BY StepKeepsTheBuried
<1>4. WeightForEpoch(c, r.basis, r.epoch, r.node) = WeightForEpoch(d, r.basis, r.epoch, r.node)
  BY <1>3, SameWeight, SMT
<1>5. r.epoch \in 1 .. LastBuriedEpoch(Len(d) - 1)
  BY <1>1, <1>3, SMT
<1>. QED  BY <1>4, <1>5 DEF JustRecord

\* The registry and the weight of a node as read from chain c.
Registry(c) ==
    Newest(c, {p \in Items(c, "weights") :
                 /\ SelfAttested(At(c, p))
                 /\ ParsedWeight(At(c, p).item.weight) > 0})

WeightOn(c, n) ==
    IF n \in DOMAIN Registry(c) THEN ParsedWeight(Registry(c)[n].weight) ELSE 0

\* The places of node n's records.
OwnPlaces(c, n) ==
    {p \in Places(c, 1, Len(c)) : /\ At(c, p).item.stream = "weights"
                                  /\ At(c, p).item.node = n}

\* All records of the chain are their node's and parse.
IsRegistry(c) ==
    \A p \in Places(c, 1, Len(c)) : At(c, p).item.stream = "weights" =>
        /\ SelfAttested(At(c, p))
        /\ At(c, p).item.weight \in 1 .. UMax

\* Of two places one is not later than the other.
LEMMA OneIsLater ==
    ASSUME NEW c, NEW n, NEW p \in OwnPlaces(c, n), NEW q \in OwnPlaces(c, n), Later(p, q)
    PROVE  ~Later(q, p)
  BY PlaceFacts, SMT DEF OwnPlaces, Later

\* The registry holds the newest record of every node that has one.
LEMMA RegistryFacts ==
    ASSUME PipelineFacts, NEW c, IsChain(c), IsRegistry(c), NEW n
    PROVE  /\ n \in DOMAIN Registry(c) <=> OwnPlaces(c, n) # {}
           /\ n \in DOMAIN Registry(c) =>
                 \E p \in OwnPlaces(c, n) :
                    /\ Registry(c)[n] = At(c, p).item
                    /\ \A q \in OwnPlaces(c, n) : q # p => Later(p, q)
<1>. DEFINE P == {p \in Items(c, "weights") :
                    /\ SelfAttested(At(c, p))
                    /\ ParsedWeight(At(c, p).item.weight) > 0}
<1>1. P = {p \in Places(c, 1, Len(c)) : At(c, p).item.stream = "weights"}
  <2>1. ASSUME NEW p \in Places(c, 1, Len(c)), At(c, p).item.stream = "weights"
        PROVE  SelfAttested(At(c, p)) /\ ParsedWeight(At(c, p).item.weight) > 0
    <3>1. At(c, p).item.weight \in 1 .. UMax /\ SelfAttested(At(c, p))
      BY <2>1 DEF IsRegistry
    <3>2. ParsedWeight(At(c, p).item.weight) = At(c, p).item.weight
      BY <3>1, ParsedInRange
    <3>. QED  BY <3>1, <3>2, PipelineAssumption, SMT
  <2>. QED  BY <2>1 DEF Items
<1>2. OwnPlaces(c, n) = {p \in P : At(c, p).item.node = n}
  BY <1>1 DEF OwnPlaces
<1>3. P \subseteq Places(c, 1, Len(c)) /\ Registry(c) = Newest(c, P)
  BY DEF Items, Registry
<1>. HIDE DEF P
<1>5. DOMAIN Newest(c, P) = {At(c, p).item.node : p \in P}
  BY DEF Newest
<1>6. n \in DOMAIN Registry(c) <=> OwnPlaces(c, n) # {}
  BY <1>2, <1>3, <1>5
<1>7. ASSUME n \in DOMAIN Newest(c, P)
      PROVE  \E p \in P : /\ At(c, p).item.node = n
                          /\ Newest(c, P)[n] = At(c, p).item
                          /\ \A q \in P : At(c, q).item.node = n /\ q # p => Later(p, q)
  BY <1>3, <1>7, NewestFacts, SMT DEF PipelineFacts
<1>. QED  BY <1>2, <1>3, <1>6, <1>7

\* The weight of a node is that of its newest record.
LEMMA WeightFacts ==
    ASSUME PipelineFacts, NEW c, IsChain(c), IsRegistry(c), NEW n
    PROVE  /\ OwnPlaces(c, n) = {} => WeightOn(c, n) = 0
           /\ \A p \in OwnPlaces(c, n) :
                 (\A q \in OwnPlaces(c, n) : q # p => Later(p, q))
                    => WeightOn(c, n) = At(c, p).item.weight
<1>1. OwnPlaces(c, n) = {} => WeightOn(c, n) = 0
  BY RegistryFacts DEF WeightOn
<1>2. ASSUME NEW p \in OwnPlaces(c, n), \A q \in OwnPlaces(c, n) : q # p => Later(p, q)
      PROVE  WeightOn(c, n) = At(c, p).item.weight
  <2>1. n \in DOMAIN Registry(c)
    BY RegistryFacts
  <2>2. PICK top \in OwnPlaces(c, n) :
           /\ Registry(c)[n] = At(c, top).item
           /\ \A q \in OwnPlaces(c, n) : q # top => Later(top, q)
    BY <2>1, RegistryFacts
  <2>3. top = p
    BY <1>2, <2>2, OneIsLater
  <2>4. At(c, p).item.weight \in 1 .. UMax
    BY DEF OwnPlaces, IsRegistry
  <2>5. ParsedWeight(At(c, p).item.weight) = At(c, p).item.weight
    BY <2>4, ParsedInRange
  <2>. QED  BY <2>1, <2>2, <2>3, <2>5 DEF WeightOn
<1>. QED  BY <1>1, <1>2

\* A chain with the same records of a node has the same weight for it.
LEMMA SameRecordsSameWeight ==
    ASSUME PipelineFacts, NEW c, IsChain(c), IsRegistry(c), NEW d, IsChain(d), IsRegistry(d), NEW n,
           OwnPlaces(c, n) = OwnPlaces(d, n),
           \A p \in OwnPlaces(c, n) : At(c, p) = At(d, p)
    PROVE  WeightOn(c, n) = WeightOn(d, n)
<1>1. CASE OwnPlaces(c, n) = {}
  BY <1>1, WeightFacts
<1>2. CASE OwnPlaces(c, n) # {}
  <2>1. OwnPlaces(c, n) \subseteq Places(c, 1, Len(c))
    BY DEF OwnPlaces
  <2>3. PICK p \in OwnPlaces(c, n) : \A q \in OwnPlaces(c, n) : q # p => Later(p, q)
    BY <1>2, <2>1 DEF PipelineFacts, NewestIsThere
  <2>4. WeightOn(c, n) = At(c, p).item.weight
    BY <2>3, WeightFacts
  <2>5. WeightOn(d, n) = At(d, p).item.weight
    BY <2>3, WeightFacts
  <2>. QED  BY <2>4, <2>5
<1>. QED  BY <1>1, <1>2

\* Mining appends one block, empty or with a transaction of the pool.
LEMMA MineIsAStep ==
    ASSUME ChainInv, Len(chain) >= 1, MineBlock
    PROVE  /\ ChainInv' /\ Len(chain) - 1 < MaxHeight
           /\ \/ ChainStep(chain, chain', Len(chain), << >>) /\ pool' = pool
              \/ \E tx \in pool : /\ ChainStep(chain, chain', Len(chain), <<tx>>)
                                  /\ pool' = pool \ {tx}
<1>0. Len(chain) \in Nat /\ Margin \in Nat /\ Len(chain) - 1 < MaxHeight
  BY PipelineAssumption, SMT DEF ChainInv, MineBlock, Height
<1>1. ASSUME NEW b, chain' = Append(chain, b)
      PROVE  ChainInv' /\ ChainStep(chain, chain', Len(chain), b)
  <2>. DEFINE S == {chain[i] : i \in DOMAIN chain} \cup {b}
  <2>1. chain \in Seq(S) /\ b \in S
    BY SMT DEF ChainInv
  <2>. HIDE DEF S
  <2>2. /\ chain' \in Seq(S)
        /\ Len(chain') = Len(chain) + 1
        /\ \A i \in 1 .. Len(chain) : chain'[i] = chain[i]
        /\ chain'[Len(chain) + 1] = b
    BY <1>1, <2>1, SMT
  <2>3. ChainInv'
    BY <2>2, SMT DEF ChainInv
  <2>4. \A h \in Len(chain) + 1 .. Len(chain) : chain'[h] = << >>
    BY <1>0, SMT
  <2>. QED  BY <1>0, <2>2, <2>3, <2>4, SMT DEF ChainStep, Agree
<1>2. CASE chain' = Append(chain, << >>) /\ pool' = pool
  BY <1>0, <1>1, <1>2
<1>3. CASE \E tx \in pool : chain' = Append(chain, <<tx>>) /\ pool' = pool \ {tx}
  BY <1>0, <1>1, <1>3
<1>. QED  BY <1>2, <1>3 DEF MineBlock

\* The transactions of the first n blocks.
MinedUpTo(c, n) == {At(c, p) : p \in Places(c, 1, n)}

\* A reorganisation keeps the chain up to some block and returns the
\* transactions that were only in later ones.
ReorgAt(cut) ==
    LET back == Mined(chain) \ MinedUpTo(chain, cut)
    IN  /\ ChainStep(chain, chain', cut, << >>)
        /\ pool' = pool \cup back
        /\ \A tx \in back : tx.item # NoItem
        /\ raced' = [n \in Node |->
              \/ raced[n]
              \/ \E t, u \in RecordsOf(n, pool \cup back) : t # u]

\* A prefix of a sequence.
LEMMA PrefixFacts ==
    ASSUME NEW S, NEW s \in Seq(S), NEW n \in Nat, n >= 1, n <= Len(s)
    PROVE  /\ SubSeq(s, 1, n) \in Seq(S) /\ Len(SubSeq(s, 1, n)) = n
           /\ \A i \in 1 .. n : SubSeq(s, 1, n)[i] = s[i]
  BY SMT

\* A branch of d + 1 empty blocks.
LEMMA EmptyBlocksFollow ==
    ASSUME NEW S, << >> \in S, NEW s \in Seq(S), NEW d \in Nat,
           NEW t, t = [i \in 1 .. d + 1 |-> << >>]
    PROVE  /\ s \o t \in Seq(S)
           /\ Len(s \o t) = Len(s) + d + 1
           /\ \A h \in 1 .. Len(s) : (s \o t)[h] = s[h]
           /\ \A h \in Len(s) + 1 .. Len(s) + d + 1 : (s \o t)[h] = << >>
<1>. t \in Seq(S) /\ Len(t) = d + 1 /\ \A i \in 1 .. d + 1 : t[i] = << >>
  BY SMT
<1>. /\ (s \o t) \in Seq(S) /\ Len(s \o t) = Len(s) + Len(t)
      /\ \A i \in 1 .. Len(s) : (s \o t)[i] = s[i]
  BY SMT
<1>3. ASSUME NEW h \in Len(s) + 1 .. Len(s) + d + 1 PROVE (s \o t)[h] = << >>
  <2>. h - Len(s) \in 1 .. Len(t) /\ Len(s) \in Nat /\ h \in Nat
    BY SMT
  <2>2. (s \o t)[h] = t[h - Len(s)]
    BY SMT
  <2>. QED  BY <2>2
<1>4. Len(s \o t) = Len(s) + d + 1
  BY SMT
<1>. QED  BY <1>3, <1>4

\* A reorganisation is a step too: it keeps the chain up to its cut, and the
\* transactions it takes back were mined.
LEMMA ReorgIsAStep ==
    ASSUME ChainInv, Len(chain) >= 1, Reorg
    PROVE  ChainInv' /\ Len(chain) - 1 < MaxHeight /\ \E cut : ReorgAt(cut)
<1>. USE PipelineAssumption
<1>0. Len(chain) \in Nat /\ Len(chain) - 1 < MaxHeight
  BY SMT DEF ChainInv, Reorg, Height
<1>. DEFINE Kept(d) == SubSeq(chain, 1, Len(chain) - d)
            Back(d) == Mined(chain) \ Mined(Kept(d))
            New(d) == [i \in 1 .. d + 1 |-> << >>]
<1>1. PICK d \in 1 .. Margin :
         /\ d <= Len(chain) - 1
         /\ \A tx \in Back(d) : tx.item # NoItem
         /\ chain' = Kept(d) \o New(d)
         /\ pool' = pool \cup Back(d)
         /\ raced' = [n \in Node |->
               \/ raced[n]
               \/ \E t, u \in RecordsOf(n, pool \cup Back(d)) : t # u]
  BY DEF Reorg, Height
<1>. DEFINE cut == Len(chain) - d
            kept == Kept(d)
            new == New(d)
            S == {chain[i] : i \in DOMAIN chain} \cup {<< >>}
<1>2. cut \in Nat /\ cut >= 1 /\ cut <= Len(chain) /\ Len(chain) - Margin <= cut
        /\ d \in Nat /\ Len(chain) = cut + d
  BY <1>0, <1>1, SMT
<1>3. chain \in Seq(S) /\ << >> \in S
  BY SMT DEF ChainInv
<1>4. chain' = kept \o new
  BY <1>1
<1>5. kept = SubSeq(chain, 1, cut) /\ new = [i \in 1 .. d + 1 |-> << >>]
  OBVIOUS
<1>. HIDE DEF S, kept, new, cut
<1>6. kept \in Seq(S) /\ Len(kept) = cut /\ \A h \in 1 .. cut : kept[h] = chain[h]
  BY <1>2, <1>3, <1>5, PrefixFacts, SMT
<1>7. /\ chain' \in Seq(S)
      /\ Len(chain') = cut + d + 1
      /\ \A h \in 1 .. cut : chain'[h] = chain[h]
      /\ \A h \in cut + 1 .. cut + d + 1 : chain'[h] = << >>
  BY <1>2, <1>3, <1>4, <1>5, <1>6, EmptyBlocksFollow, SMT
<1>8. ChainInv'
  BY <1>7, SMT DEF ChainInv
<1>9. ChainStep(chain, chain', cut, << >>)
  BY <1>0, <1>2, <1>7, SMT DEF ChainStep, Agree
<1>10. Mined(kept) = MinedUpTo(chain, cut)
  <2>1. Places(kept, 1, cut) = Places(chain, 1, cut)
    <3>1. \A h \in 1 .. cut : {h} \X (1 .. Len(kept[h])) = {h} \X (1 .. Len(chain[h]))
      BY <1>6
    <3>. QED  BY <3>1 DEF Places
  <2>2. ASSUME NEW p \in Places(chain, 1, cut) PROVE At(kept, p) = At(chain, p)
    <3>1. PICK h \in 1 .. cut : \E i \in 1 .. Len(chain[h]) : p = <<h, i>>
      BY PlaceFacts, SMT
    <3>. QED  BY <1>6, <3>1, SMT DEF At
  <2>. QED  BY <1>6, <2>1, <2>2 DEF Mined, MinedUpTo
<1>11. ReorgAt(cut)
  <2>1. Back(d) = Mined(chain) \ MinedUpTo(chain, cut)
    BY <1>10 DEF kept
  <2>. HIDE DEF Back
  <2>. QED  BY <1>1, <1>9, <2>1 DEF ReorgAt
<1>. QED  BY <1>0, <1>8, <1>11

\* A publication is a transaction that moves no money.
LEMMA PublicationFacts ==
    ASSUME NEW n, NEW id, NEW item, item.stream # "none",
           item.stream = "esg" => item.score \in Nat
    PROVE  LET tx == Publication(n, id, item)
           IN  /\ IsTransaction(tx)
               /\ tx.item = item /\ tx.item # NoItem /\ tx.txid = id
               /\ Signers(tx) = {n}
<1>. DEFINE fuel == [id |-> "fuel", owner |-> n, value |-> 0]
            tx == Publication(n, id, item)
<1>. tx.ins = {fuel} /\ tx.outs = {} /\ tx.item = item /\ tx.txid = id
  BY DEF Publication
<1>. fuel.owner = n /\ fuel.value = 0
  OBVIOUS
<1>. HIDE DEF fuel, tx
<1>3. IsFiniteSet({fuel}) /\ IsFiniteSet({})
  <2>1. <<fuel>> \in Seq({fuel}) /\ << >> \in Seq({})
    BY SMT
  <2>2. \A s \in {fuel} : \E k \in 1 .. Len(<<fuel>>) : <<fuel>>[k] = s
    BY SMT
  <2>3. \A s \in {} : \E k \in 1 .. Len(<< >>) : << >>[k] = s
    OBVIOUS
  <2>. QED  BY <2>1, <2>2, <2>3 DEF IsFiniteSet
<1>4. Money({fuel}) = {}
  BY DEF Money
<1>5. \A coin \in {fuel} \cup {} : coin.value \in Nat
  BY SMT
<1>6. Signers(tx) = {n}
  BY DEF Signers
<1>7. tx.item # NoItem
  BY SMT DEF NoItem
<1>8. IsTransaction(tx)
  BY <1>3, <1>4, <1>5 DEF IsTransaction
<1>. QED  BY <1>6, <1>7, <1>8 DEF tx

\* The chain is a ledger that transactions of the pool do not disturb.
LedgerInv ==
    /\ ChainInv
    /\ Len(chain) \in 1 .. MaxHeight + 1
    /\ IsChain(chain)
    /\ IsLedger(chain)
    /\ \A tx \in pool : IsTransaction(tx) /\ tx.item # NoItem
    /\ toPublish \subseteq InputItems

\* What most proofs take from it.
LEMMA LedgerFacts ==
    ASSUME LedgerInv
    PROVE  /\ ChainInv /\ IsChain(chain)
           /\ Len(chain) \in Nat /\ Len(chain) >= 1 /\ DOMAIN chain = 1 .. Len(chain)
           /\ Height \in Nat
  BY EpochsAssumption, SMT DEF LedgerInv, ChainInv, Height

\* The set-up leaves a ledger behind.
LEMMA LedgerInit == Init => LedgerInv
<1>. ASSUME Init PROVE LedgerInv
  <2>. chain \in InitialChains /\ pool = {} /\ toPublish = InputItems
    BY DEF Init
  <2>. ChainInv /\ Len(chain) \in 1 .. MaxHeight + 1 /\ IsLedger(chain)
    BY SetupAssumption DEF ChainInv
  <2>3. /\ \A h \in 1 .. Len(chain) : Len(chain[h]) \in Nat
        /\ \A p \in Places(chain, 1, Len(chain)) : IsTransaction(At(chain, p))
    BY SetupAssumption
  <2>4. IsChain(chain)
    BY <2>3, EpochsAssumption, SMT DEF IsChain
  <2>. QED  BY <2>4 DEF LedgerInv
<1>. QED  OBVIOUS

\* A step whose block has transactions of the pool keeps the chain a ledger.
LEMMA StepKeepsLedger ==
    ASSUME LedgerInv, Len(chain) - 1 < MaxHeight, NEW cut, NEW b,
           ChainStep(chain, chain', cut, b), Len(b) \in Nat, \A i \in 1 .. Len(b) : b[i] \in pool
    PROVE  Len(chain') \in 1 .. MaxHeight + 1 /\ IsChain(chain') /\ IsLedger(chain')
<1>1. \A i \in 1 .. Len(b) : IsTransaction(b[i]) /\ b[i].item # NoItem
  BY DEF LedgerInv
<1>2. \A i \in 1 .. Len(b) : b[i].outs = {} /\ Money(b[i].ins) = {}
  BY <1>1 DEF IsTransaction
<1>3. IsChain(chain) /\ IsLedger(chain)
  BY DEF LedgerInv
<1>4. IsChain(chain') /\ IsLedger(chain')
  BY <1>1, <1>2, <1>3, StepMakesChain, StepMakesLedger
<1>5. Len(chain') \in 1 .. MaxHeight + 1
  BY EpochsAssumption, SMT DEF LedgerInv, ChainStep
<1>. QED  BY <1>4, <1>5

\* Every step keeps the chain a ledger.
LEMMA LedgerStep ==
    ASSUME LedgerInv, [Next]_vars
    PROVE  LedgerInv'
<1>. ChainInv /\ Len(chain) >= 1 /\ Len(chain) \in Nat
  BY LedgerFacts
<1>. CASE MineBlock
  <2>0. UNCHANGED toPublish
    BY DEF MineBlock
  <2>1. CASE ChainStep(chain, chain', Len(chain), << >>) /\ pool' = pool
    <3>1. Len(<< >>) \in Nat /\ \A i \in 1 .. Len(<< >>) : << >>[i] \in pool
      BY SMT
    <3>2. Len(chain') \in 1 .. MaxHeight + 1 /\ IsChain(chain') /\ IsLedger(chain')
      BY <2>1, <3>1, MineIsAStep, StepKeepsLedger
    <3>. QED  BY <2>0, <2>1, <3>2, MineIsAStep DEF LedgerInv
  <2>2. ASSUME NEW tx \in pool, ChainStep(chain, chain', Len(chain), <<tx>>),
               pool' = pool \ {tx}
        PROVE  LedgerInv'
    <3>1. Len(<<tx>>) \in Nat /\ \A i \in 1 .. Len(<<tx>>) : <<tx>>[i] \in pool
      BY SMT
    <3>2. Len(chain') \in 1 .. MaxHeight + 1 /\ IsChain(chain') /\ IsLedger(chain')
      BY <2>2, <3>1, MineIsAStep, StepKeepsLedger
    <3>. QED  BY <2>0, <2>2, <3>2, MineIsAStep DEF LedgerInv
  <2>. QED  BY <2>1, <2>2, MineIsAStep
<1>. CASE Reorg
  <2>0. UNCHANGED toPublish
    BY DEF Reorg
  <2>1. PICK cut : ReorgAt(cut)
    BY ReorgIsAStep
  <2>2. Len(<< >>) \in Nat /\ \A i \in 1 .. Len(<< >>) : << >>[i] \in pool
    BY SMT
  <2>3. Len(chain') \in 1 .. MaxHeight + 1 /\ IsChain(chain') /\ IsLedger(chain')
    BY <2>1, <2>2, ReorgIsAStep, StepKeepsLedger DEF ReorgAt
  <2>4. \A tx \in Mined(chain) : IsTransaction(tx)
    BY DEF LedgerInv, IsChain, Mined
  <2>5. \A tx \in pool' : IsTransaction(tx) /\ tx.item # NoItem
    BY <2>1, <2>4 DEF ReorgAt, LedgerInv
  <2>. QED  BY <2>0, <2>3, <2>5, ReorgIsAStep DEF LedgerInv
<1>. ASSUME UNCHANGED chain, toPublish' \subseteq toPublish,
             \A tx \in pool' : tx \in pool \/ (IsTransaction(tx) /\ tx.item # NoItem)
      PROVE  LedgerInv'
  BY DEF LedgerInv, ChainInv
<1>4. CASE PublishInput
  <2>1. PICK p \in toPublish :
           /\ pool' = pool \cup {Publication(p.by, 0, p.item)}
           /\ toPublish' = toPublish \ {p}
    BY <1>4 DEF PublishInput
  <2>2. p \in InputItems
    BY DEF LedgerInv
  <2>3. p.item.stream # "none" /\ (p.item.stream = "esg" => p.item.score \in Nat)
    BY <2>2, InputsAssumption
  <2>4. IsTransaction(Publication(p.by, 0, p.item)) /\ Publication(p.by, 0, p.item).item # NoItem
    BY <2>3, PublicationFacts, SMT
  <2>5. UNCHANGED chain
    BY <1>4 DEF PublishInput
  <2>. QED  BY <2>1, <2>4, <2>5
<1>5. ASSUME NEW n \in Node, RegisterLocalWeight(n) PROVE LedgerInv'
  <2>1. UNCHANGED <<chain, toPublish>> /\ pool' = pool \cup Registration(n)
    BY <1>5 DEF RegisterLocalWeight
  <2>. DEFINE item == [stream |-> "weights", node |-> n, weight |-> own[n].weight,
                       epoch |-> epoch[n], basis |-> own[n].basis]
  <2>2. item.stream = "weights"
    OBVIOUS
  <2>3. Registration(n) \subseteq {Publication(n, issued[n] + 1, item)}
    BY DEF Registration
  <2>. HIDE DEF item
  <2>4. IsTransaction(Publication(n, issued[n] + 1, item))
          /\ Publication(n, issued[n] + 1, item).item # NoItem
    BY <2>2, PublicationFacts, SMT
  <2>. QED  BY <2>1, <2>3, <2>4
<1>6. ASSUME NEW n \in Node,
             \/ Wake(n) \/ Collect(n) \/ VerifyAndCacheEpoch(n)
             \/ ComputeLocalWeightForEpoch(n) \/ RegisterFails(n) \/ Restart(n)
      PROVE  LedgerInv'
  BY <1>6 DEF Wake, Collect, VerifyAndCacheEpoch, ComputeLocalWeightForEpoch, RegisterFails,
              Restart
<1>7. CASE UNCHANGED vars
  BY <1>7 DEF vars
<1>. QED  BY <1>4, <1>5, <1>6, <1>7 DEF Next, Engine

\* The newest buried epoch.
Top == LastBuriedEpoch(Height)

\* The record node n is about to register.
RecordOf(n) ==
    [stream |-> "weights", node |-> n, weight |-> own[n].weight,
     epoch |-> epoch[n], basis |-> own[n].basis]

\* The engine of node n: what it works on is buried, what it is about to
\* register and what it has collected are just records.
ThreadOK(n) ==
    /\ pc[n] \in {"sleep", "collect", "verify", "compute", "register"}
    /\ epoch[n] \in 0 .. Top
    /\ lastPub[n] \in 0 .. Top
    /\ lastVer[n] \in 0 .. Top
    /\ pc[n] # "sleep" => epoch[n] >= 1
    /\ pc[n] = "register" => JustRecord(chain, RecordOf(n))

SeenOK(n) ==
    \A a \in DOMAIN seen[n] : seen[n][a].node = a /\ JustRecord(chain, seen[n][a])

BookOK(n) == settled[n] \in 0 .. UMax /\ raced[n] \in BOOLEAN /\ issued[n] \in Nat

OnNodes(f) == f = [n \in Node |-> f[n]]

MapsOK ==
    /\ OnNodes(pc) /\ OnNodes(epoch) /\ OnNodes(seen) /\ OnNodes(own)
    /\ OnNodes(lastPub) /\ OnNodes(lastVer) /\ OnNodes(verdicts)
    /\ OnNodes(settled) /\ OnNodes(raced) /\ OnNodes(issued)

EngineInv ==
    /\ MapsOK
    /\ faults \in 0 .. MaxFaults
    /\ \A n \in Node : ThreadOK(n) /\ SeenOK(n) /\ BookOK(n)

\* The engines start asleep.
LEMMA EngineInit == Init /\ LedgerInv => EngineInv
<1>. SUFFICES ASSUME Init, LedgerInv PROVE EngineInv
  OBVIOUS
<1>1. Top \in Nat
  BY LedgerFacts, BuriedPart DEF Top, Height
<1>2. MapsOK
  BY DEF Init, MapsOK, OnNodes
<1>3. faults \in 0 .. MaxFaults
  BY EpochsAssumption, SMT DEF Init
<1>4. ASSUME NEW n \in Node PROVE ThreadOK(n) /\ SeenOK(n) /\ BookOK(n)
  <2>. pc[n] = "sleep" /\ epoch[n] = 0 /\ lastPub[n] = 0 /\ lastVer[n] = 0
          /\ seen[n] = << >> /\ settled[n] = 0 /\ raced[n] = FALSE /\ issued[n] = 0
    BY DEF Init
  <2>2. DOMAIN << >> = {}
    BY SMT
  <2>3. ThreadOK(n)
    BY <1>1, SMT DEF ThreadOK
  <2>4. SeenOK(n)
    BY <2>2 DEF SeenOK
  <2>5. BookOK(n)
    <3>1. settled[n] \in 0 .. UMax /\ issued[n] \in Nat
      BY PipelineAssumption, SMT
    <3>2. raced[n] \in BOOLEAN
      OBVIOUS
    <3>. QED  BY <3>1, <3>2 DEF BookOK
  <2>. QED  BY <2>3, <2>4, <2>5
<1>. QED  BY <1>2, <1>3, <1>4 DEF EngineInv

\* Whatever the chain does, what was just stays so.
LEMMA ChainMovesOn ==
    ASSUME LedgerInv, NEW cut, NEW b, ChainStep(chain, chain', cut, b)
    PROVE  /\ Top \in Nat /\ Top' \in Nat /\ Top <= Top'
           /\ \A r : JustRecord(chain, r) => JustRecord(chain', r)
<1>1. Len(chain) \in Nat /\ Len(chain) >= 1 /\ Len(chain') \in Nat /\ Len(chain') >= Len(chain)
        /\ Len(chain') >= 1
  BY SMT DEF ChainStep
<1>2. Top \in Nat /\ Top' \in Nat /\ Top <= Top'
  BY <1>1, BuriedPart DEF Top, Height
<1>. QED  BY <1>2, JustRecordStays

\* A step of the chain leaves the engines as they are, and what they have
\* stays buried and just.
LEMMA EngineOnNewChain ==
    ASSUME LedgerInv, EngineInv, NEW cut, NEW b, ChainStep(chain, chain', cut, b),
           UNCHANGED <<thread, settled, issued>>, faults' \in 0 .. MaxFaults,
           OnNodes(raced'), \A n \in Node : raced'[n] \in BOOLEAN
    PROVE  EngineInv'
<1>. UNCHANGED <<pc, epoch, seen, own, lastPub, lastVer, verdicts, settled, issued>>
  BY DEF thread
<1>1. MapsOK'
  BY DEF EngineInv, MapsOK, OnNodes
<1>2. Top \in Nat /\ Top' \in Nat /\ Top <= Top'
  BY ChainMovesOn
<1>3. ASSUME NEW n \in Node PROVE ThreadOK(n)' /\ SeenOK(n)' /\ BookOK(n)'
  <2>. ThreadOK(n) /\ SeenOK(n) /\ BookOK(n)
    BY DEF EngineInv
  <2>2. RecordOf(n)' = RecordOf(n)
    BY DEF RecordOf
  <2>3. SeenOK(n)'
    BY ChainMovesOn DEF SeenOK
  <2>4. pc'[n] = "register" => JustRecord(chain', RecordOf(n)')
    BY <2>2, ChainMovesOn DEF ThreadOK
  <2>5. ThreadOK(n)'
    BY <1>2, <2>4, SMT DEF ThreadOK
  <2>6. BookOK(n)'
    BY DEF BookOK
  <2>. QED  BY <2>3, <2>5, <2>6
<1>. QED  BY <1>1, <1>3 DEF EngineInv

\* A step of one node leaves the others alone.
SameFor(m) ==
    /\ pc'[m] = pc[m] /\ epoch'[m] = epoch[m] /\ seen'[m] = seen[m] /\ own'[m] = own[m]
    /\ lastPub'[m] = lastPub[m] /\ lastVer'[m] = lastVer[m]
    /\ settled'[m] = settled[m] /\ raced'[m] = raced[m] /\ issued'[m] = issued[m]

\* For a step of one engine it is enough to look at that engine.
LEMMA OneNodeSteps ==
    ASSUME EngineInv, UNCHANGED chain, MapsOK', faults' \in 0 .. MaxFaults,
           NEW n \in Node, \A m \in Node \ {n} : SameFor(m),
           ThreadOK(n)', SeenOK(n)', BookOK(n)'
    PROVE  EngineInv'
<1>1. ASSUME NEW m \in Node, m # n PROVE ThreadOK(m)' /\ SeenOK(m)' /\ BookOK(m)'
  <2>1. SameFor(m) /\ ThreadOK(m) /\ SeenOK(m) /\ BookOK(m)
    BY <1>1 DEF EngineInv
  <2>2. RecordOf(m)' = RecordOf(m) /\ Top' = Top
    BY <2>1 DEF RecordOf, SameFor, Top, Height
  <2>3. ThreadOK(m)'
    BY <2>1, <2>2 DEF ThreadOK, SameFor
  <2>4. SeenOK(m)' /\ BookOK(m)'
    BY <2>1 DEF SeenOK, BookOK, SameFor
  <2>. QED  BY <2>3, <2>4
<1>. QED  BY <1>1 DEF EngineInv

\* What the actions of node n's engine find.
LEMMA NodeFacts ==
    ASSUME LedgerInv, EngineInv, NEW n \in Node
    PROVE  /\ ThreadOK(n) /\ SeenOK(n) /\ BookOK(n) /\ MapsOK
           /\ Top \in Nat /\ Len(chain) \in Nat /\ Len(chain) >= 1 /\ Height \in Nat
           /\ faults \in 0 .. MaxFaults
<1>. Len(chain) \in Nat /\ Len(chain) >= 1 /\ Height \in Nat
  BY LedgerFacts
<1>2. Top \in Nat
  BY BuriedPart DEF Top, Height
<1>. QED  BY <1>2 DEF EngineInv

\* An engine wakes for the newest buried epoch.
LEMMA WakeKeepsEngine ==
    ASSUME LedgerInv, EngineInv, NEW n \in Node, Wake(n)
    PROVE  EngineInv'
<1>. USE NodeFacts
<1>. UNCHANGED <<chain, seen, own, lastPub, lastVer, verdicts, settled, raced, issued, faults>>
  BY DEF Wake
<1>. /\ epoch' = [epoch EXCEPT ![n] = Top] /\ Top >= 1
      /\ \E s \in {"collect", "compute"} : pc' = [pc EXCEPT ![n] = s]
  BY DEF Wake, Top
<1>2. MapsOK'
  BY DEF MapsOK, OnNodes
<1>3. \A m \in Node \ {n} : SameFor(m)
  BY DEF MapsOK, OnNodes, SameFor
<1>4. epoch'[n] = Top /\ pc'[n] \in {"collect", "compute"} /\ Top' = Top
  BY DEF MapsOK, OnNodes, Top, Height
<1>5. ThreadOK(n)'
  BY <1>4, SMT DEF ThreadOK
<1>6. SeenOK(n)' /\ BookOK(n)'
  BY DEF SeenOK, BookOK
<1>. QED  BY <1>2, <1>3, <1>5, <1>6, OneNodeSteps

\* The records of the chain and of the pool: just ones of nodes that signed
\* them, numbered by the node.
RecordsInv ==
    \A tx \in pool \cup Mined(chain) : tx.item.stream = "weights" =>
        /\ JustRecord(chain, tx.item)
        /\ tx.item.node \in Node
        /\ tx.item.node \in Signers(tx)
        /\ tx.txid \in 1 .. issued[tx.item.node]

\* With such records a chain is a registry.
LEMMA ChainIsRegistry ==
    ASSUME PipelineFacts, NEW c, IsChain(c), Len(c) >= 1,
           \A tx \in Mined(c) : tx.item.stream = "weights" =>
              JustRecord(c, tx.item) /\ tx.item.node \in Signers(tx)
    PROVE  IsRegistry(c)
<1>1. ASSUME NEW p \in Places(c, 1, Len(c)), At(c, p).item.stream = "weights"
      PROVE  SelfAttested(At(c, p)) /\ At(c, p).item.weight \in 1 .. UMax
  <2>1. At(c, p) \in Mined(c)
    BY DEF Mined
  <2>2. JustRecord(c, At(c, p).item) /\ At(c, p).item.node \in Signers(At(c, p))
    BY <1>1, <2>1
  <2>3. At(c, p).item.weight \in 1 .. UMax
    BY <2>2, JustWeight
  <2>. QED  BY <2>2, <2>3 DEF SelfAttested
<1>. QED  BY <1>1 DEF IsRegistry

\* Reading the registry finds just records.
LEMMA RegistryIsJust ==
    ASSUME PipelineFacts, LedgerInv, RecordsInv, NEW a \in DOMAIN GetAllNodesWeightsWithEpoch
    PROVE  /\ GetAllNodesWeightsWithEpoch[a].node = a
           /\ JustRecord(chain, GetAllNodesWeightsWithEpoch[a])
<1>0. IsChain(chain) /\ IsRegistry(chain)
  <2>1. IsChain(chain) /\ Len(chain) >= 1
    BY LedgerFacts
  <2>2. \A tx \in Mined(chain) : tx.item.stream = "weights" =>
           JustRecord(chain, tx.item) /\ tx.item.node \in Signers(tx)
    BY DEF RecordsInv
  <2>. QED  BY <2>1, <2>2, ChainIsRegistry
<1>1. GetAllNodesWeightsWithEpoch = Registry(chain)
  BY DEF GetAllNodesWeightsWithEpoch, Registry
<1>2. a \in DOMAIN Registry(chain)
  BY <1>1
<1>3. PICK p \in OwnPlaces(chain, a) : Registry(chain)[a] = At(chain, p).item
  BY <1>0, <1>2, RegistryFacts
<1>4. At(chain, p) \in Mined(chain) /\ At(chain, p).item.stream = "weights"
        /\ At(chain, p).item.node = a
  BY DEF OwnPlaces, Mined
<1>5. JustRecord(chain, At(chain, p).item)
  BY <1>4 DEF RecordsInv
<1>. QED  BY <1>1, <1>3, <1>4, <1>5

\* An engine collects the records of the epoch.
LEMMA CollectKeepsEngine ==
    ASSUME PipelineFacts, LedgerInv, EngineInv, RecordsInv, NEW n \in Node, Collect(n)
    PROVE  EngineInv'
<1>. USE NodeFacts
<1>. UNCHANGED <<chain, epoch, own, lastPub, lastVer, verdicts, settled, raced, issued, faults>>
  BY DEF Collect
<1>. /\ pc[n] = "collect"
      /\ seen' = [seen EXCEPT ![n] = GetAllNodesWeightsWithEpoch]
      /\ pc' = [pc EXCEPT ![n] = "verify"]
  BY DEF Collect
<1>2. MapsOK'
  BY DEF MapsOK, OnNodes
<1>3. \A m \in Node \ {n} : SameFor(m)
  BY DEF MapsOK, OnNodes, SameFor
<1>4. seen'[n] = GetAllNodesWeightsWithEpoch /\ pc'[n] = "verify" /\ Top' = Top
  BY DEF MapsOK, OnNodes, Top, Height
<1>5. ThreadOK(n)'
  BY <1>4 DEF ThreadOK
<1>6. SeenOK(n)'
  BY <1>4, RegistryIsJust DEF SeenOK
<1>7. BookOK(n)'
  BY DEF BookOK
<1>. QED  BY <1>2, <1>3, <1>5, <1>6, <1>7, OneNodeSteps

\* A pass that ends.
LEMMA PassEnds ==
    ASSUME LedgerInv, EngineInv, NEW n \in Node, Continue(n), UNCHANGED chain,
           MapsOK', faults' \in 0 .. MaxFaults, \A m \in Node \ {n} : SameFor(m),
           lastPub'[n] \in 0 .. Top, lastVer'[n] \in 0 .. Top, SeenOK(n)', BookOK(n)'
    PROVE  EngineInv'
<1>. USE NodeFacts
<1>1. pc'[n] = "sleep" /\ epoch'[n] = 0 /\ Top' = Top
  BY DEF Continue, MapsOK, OnNodes, Top, Height
<1>2. ThreadOK(n)'
  BY <1>1, SMT DEF ThreadOK
<1>. QED  BY <1>2, OneNodeSteps

\* An engine verifies what it collected.
LEMMA VerifyKeepsEngine ==
    ASSUME LedgerInv, EngineInv, NEW n \in Node, VerifyAndCacheEpoch(n)
    PROVE  EngineInv'
<1>. USE NodeFacts
<1>. UNCHANGED <<chain, own, lastPub, settled, raced, issued, faults>>
  BY DEF VerifyAndCacheEpoch
<1>. /\ pc[n] = "verify" /\ Buried(Height, epoch[n] - 1)
      /\ lastVer' = [lastVer EXCEPT ![n] = epoch[n] - 1]
      /\ seen' = [seen EXCEPT ![n] = << >>]
  BY DEF VerifyAndCacheEpoch
<1>2. \E v : verdicts' = [verdicts EXCEPT ![n] = v]
  BY DEF VerifyAndCacheEpoch
<1>3. lastVer'[n] \in 0 .. Top
  <2>1. epoch[n] - 1 \in Nat /\ epoch[n] \in 1 .. Top
    BY SMT DEF ThreadOK
  <2>2. lastVer'[n] = epoch[n] - 1
    BY DEF MapsOK, OnNodes
  <2>. QED  BY <2>1, <2>2, SMT
<1>4. SeenOK(n)' /\ BookOK(n)'
  <2>1. seen'[n] = << >> /\ DOMAIN << >> = {}
    BY SMT DEF MapsOK, OnNodes
  <2>2. SeenOK(n)'
    BY <2>1 DEF SeenOK
  <2>. QED  BY <2>2 DEF BookOK
<1>. CASE pc' = [pc EXCEPT ![n] = "compute"] /\ UNCHANGED epoch
  <2>1. MapsOK'
    BY <1>2 DEF MapsOK, OnNodes
  <2>2. \A m \in Node \ {n} : SameFor(m)
    BY DEF MapsOK, OnNodes, SameFor
  <2>3. pc'[n] = "compute" /\ Top' = Top
    BY DEF MapsOK, OnNodes, Top, Height
  <2>4. ThreadOK(n)'
    BY <1>3, <2>3 DEF ThreadOK
  <2>. QED  BY <1>4, <2>1, <2>2, <2>4, OneNodeSteps
<1>. CASE Continue(n)
  <2>1. MapsOK'
    BY <1>2 DEF MapsOK, OnNodes, Continue
  <2>2. \A m \in Node \ {n} : SameFor(m)
    BY DEF MapsOK, OnNodes, SameFor, Continue
  <2>3. lastPub'[n] \in 0 .. Top
    BY DEF ThreadOK
  <2>. QED  BY <1>3, <1>4, <2>1, <2>2, <2>3, PassEnds
<1>. QED  BY DEF VerifyAndCacheEpoch

\* An engine computes its weight: the record it would register is just.
LEMMA ComputeKeepsEngine ==
    ASSUME PipelineFacts, LedgerInv, EngineInv, NEW n \in Node, ComputeLocalWeightForEpoch(n)
    PROVE  EngineInv'
<1>. USE NodeFacts
<1>. DEFINE in == ReadInputs(chain)
            w == ByEngineOf(n, WeightForEpoch(chain, in, epoch[n], n))
<1>0. UNCHANGED <<chain, seen, lastPub, lastVer, verdicts, settled, raced, issued, faults>>
        /\ pc[n] = "compute"
  BY DEF ComputeLocalWeightForEpoch
<1>1. SeenOK(n)' /\ BookOK(n)'
  BY <1>0 DEF SeenOK, BookOK
<1>2. CASE /\ n \in Heads(in)
           /\ own' = [own EXCEPT ![n] = [weight |-> Computed(n, in, epoch[n])[n], basis |-> in]]
           /\ pc' = [pc EXCEPT ![n] = "register"]
           /\ UNCHANGED epoch
  <2>1. MapsOK'
    BY <1>0, <1>2 DEF MapsOK, OnNodes
  <2>2. \A m \in Node \ {n} : SameFor(m)
    BY <1>0, <1>2 DEF MapsOK, OnNodes, SameFor
  <2>3. pc'[n] = "register" /\ Top' = Top /\ epoch'[n] = epoch[n]
    BY <1>0, <1>2 DEF MapsOK, OnNodes, Top, Height
  <2>4. own'[n] = [weight |-> w, basis |-> in]
    <3>1. Computed(n, in, epoch[n])[n] = w
      BY <1>2 DEF Computed
    <3>. HIDE DEF in, w
    <3>. QED  BY <1>2, <3>1 DEF MapsOK, OnNodes
  <2>5. IsInput(in)
    BY DEF LedgerInv, PipelineFacts, InputsAreRead
  <2>6. epoch[n] \in 1 .. LastBuriedEpoch(Len(chain) - 1)
    BY <1>0, SMT DEF ThreadOK, Top, Height
  <2>7. JustRecord(chain, RecordOf(n)')
    <3>1. /\ RecordOf(n)'.epoch = epoch[n] /\ RecordOf(n)'.node = n
          /\ RecordOf(n)'.basis = in /\ RecordOf(n)'.weight = w
      <4>. HIDE DEF in, w
      <4>. QED  BY <2>3, <2>4, SMT DEF RecordOf
    <3>. HIDE DEF in
    <3>. QED  BY <1>2, <2>5, <2>6, <3>1 DEF JustRecord
  <2>8. ThreadOK(n)'
    <3>. HIDE DEF in, w
    <3>1. JustRecord(chain', RecordOf(n)')
      BY <1>0, <2>7
    <3>. QED  BY <1>0, <2>3, <3>1 DEF ThreadOK
  <2>. QED  BY <1>0, <1>1, <2>1, <2>2, <2>8, OneNodeSteps
<1>3. CASE Continue(n) /\ UNCHANGED own
  <2>1. MapsOK'
    BY <1>0, <1>3 DEF MapsOK, OnNodes, Continue
  <2>2. \A m \in Node \ {n} : SameFor(m)
    BY <1>0, <1>3 DEF MapsOK, OnNodes, SameFor, Continue
  <2>3. lastPub'[n] \in 0 .. Top /\ lastVer'[n] \in 0 .. Top
    BY <1>0 DEF ThreadOK
  <2>. QED  BY <1>0, <1>1, <1>3, <2>1, <2>2, <2>3, PassEnds
<1>. QED  BY <1>2, <1>3 DEF ComputeLocalWeightForEpoch

\* The weight that is registered fits its field.
LEMMA RegisteredInRange ==
    ASSUME PipelineFacts, LedgerInv, EngineInv, NEW n \in Node, pc[n] = "register"
    PROVE  /\ JustRecord(chain, RecordOf(n))
           /\ own[n].weight \in 1 .. UMax
           /\ ParsedWeight(own[n].weight) = own[n].weight
           /\ epoch[n] \in 1 .. Top
<1>1. JustRecord(chain, RecordOf(n))
  BY NodeFacts DEF ThreadOK
<1>2. RecordOf(n).weight \in 1 .. UMax /\ ParsedWeight(RecordOf(n).weight) = RecordOf(n).weight
  BY <1>1, NodeFacts, JustWeight DEF LedgerInv
<1>3. RecordOf(n).weight = own[n].weight
  BY DEF RecordOf
<1>4. epoch[n] \in 1 .. Top
  BY NodeFacts, SMT DEF ThreadOK
<1>. QED  BY <1>1, <1>2, <1>3, <1>4

\* An engine registers its weight.
LEMMA RegisterKeepsEngine ==
    ASSUME PipelineFacts, LedgerInv, EngineInv, NEW n \in Node, RegisterLocalWeight(n)
    PROVE  EngineInv'
<1>. USE NodeFacts
<1>. UNCHANGED <<chain, seen, lastVer, verdicts, faults>> /\ Continue(n) /\ pc[n] = "register"
  BY DEF RegisterLocalWeight
<1>. /\ raced' = [raced EXCEPT ![n] = InFlight(n) # {}]
      /\ settled' = [settled EXCEPT ![n] = own[n].weight]
      /\ lastPub' = [lastPub EXCEPT ![n] = epoch[n]]
      /\ own' = [own EXCEPT ![n] = NoOwn]
  BY DEF RegisterLocalWeight
<1>. \/ issued' = issued
      \/ issued' = [issued EXCEPT ![n] = issued[n] + 1]
  BY DEF RegisterLocalWeight
<1>3. MapsOK'
  <2>1. OnNodes(issued')
    BY DEF MapsOK, OnNodes
  <2>2. OnNodes(pc') /\ OnNodes(epoch') /\ OnNodes(own') /\ OnNodes(lastPub')
    BY DEF MapsOK, OnNodes, Continue
  <2>3. OnNodes(settled') /\ OnNodes(raced')
    BY DEF MapsOK, OnNodes
  <2>4. OnNodes(seen') /\ OnNodes(lastVer') /\ OnNodes(verdicts')
    BY DEF MapsOK
  <2>. QED  BY <2>1, <2>2, <2>3, <2>4 DEF MapsOK, OnNodes
<1>4. \A m \in Node \ {n} : SameFor(m)
  <2>1. ASSUME NEW m \in Node \ {n} PROVE issued'[m] = issued[m]
    BY DEF MapsOK, OnNodes
  <2>2. ASSUME NEW m \in Node \ {n}
        PROVE  pc'[m] = pc[m] /\ epoch'[m] = epoch[m] /\ own'[m] = own[m]
                 /\ lastPub'[m] = lastPub[m]
    BY DEF MapsOK, OnNodes, Continue
  <2>3. ASSUME NEW m \in Node \ {n}
        PROVE  settled'[m] = settled[m] /\ raced'[m] = raced[m]
    BY DEF MapsOK, OnNodes
  <2>. QED  BY <2>1, <2>2, <2>3 DEF SameFor
<1>5. lastPub'[n] \in 0 .. Top /\ lastVer'[n] \in 0 .. Top
  BY DEF ThreadOK, MapsOK, OnNodes
<1>6. SeenOK(n)'
  BY DEF SeenOK
<1>7. BookOK(n)'
  <2>1. settled'[n] = own[n].weight
    BY DEF MapsOK, OnNodes
  <2>2. settled'[n] \in 0 .. UMax
    BY <2>1, RegisteredInRange, PipelineAssumption, SMT
  <2>3. issued'[n] \in Nat
    BY SMT DEF BookOK, MapsOK, OnNodes
  <2>4. raced'[n] \in BOOLEAN
    <3>1. raced'[n] = (InFlight(n) # {})
      BY DEF MapsOK, OnNodes
    <3>. QED  BY <3>1
  <2>. QED  BY <2>2, <2>3, <2>4 DEF BookOK
<1>. QED  BY <1>3, <1>4, <1>5, <1>6, <1>7, PassEnds

\* A registration that fails, and a restart.
LEMMA FailureKeepsEngine ==
    ASSUME LedgerInv, EngineInv, NEW n \in Node, RegisterFails(n) \/ Restart(n)
    PROVE  EngineInv'
<1>. USE NodeFacts
<1>. /\ UNCHANGED <<chain, settled, raced, issued>> /\ Continue(n)
      /\ faults < MaxFaults /\ faults' = faults + 1
      /\ own' = [own EXCEPT ![n] = NoOwn]
  BY DEF RegisterFails, Restart
<1>2. faults' \in 0 .. MaxFaults
  BY EpochsAssumption, SMT
<1>3. BookOK(n)'
  BY DEF BookOK
<1>4. CASE RegisterFails(n)
  <2>. UNCHANGED <<seen, lastPub, lastVer, verdicts>>
    BY <1>4 DEF RegisterFails
  <2>1. MapsOK'
    BY DEF MapsOK, OnNodes, Continue
  <2>2. \A m \in Node \ {n} : SameFor(m)
    BY DEF MapsOK, OnNodes, SameFor, Continue
  <2>3. lastPub'[n] \in 0 .. Top /\ lastVer'[n] \in 0 .. Top
    BY DEF ThreadOK
  <2>4. SeenOK(n)'
    BY DEF SeenOK
  <2>. QED  BY <1>2, <1>3, <2>1, <2>2, <2>3, <2>4, PassEnds
<1>5. CASE Restart(n)
  <2>. /\ seen' = [seen EXCEPT ![n] = << >>]
        /\ lastPub' = [lastPub EXCEPT ![n] = 0]
        /\ lastVer' = [lastVer EXCEPT ![n] = 0]
        /\ verdicts' = [verdicts EXCEPT ![n] = NoVerdicts]
    BY <1>5 DEF Restart
  <2>1. MapsOK'
    BY DEF MapsOK, OnNodes, Continue
  <2>2. \A m \in Node \ {n} : SameFor(m)
    BY DEF MapsOK, OnNodes, SameFor, Continue
  <2>3. lastPub'[n] \in 0 .. Top /\ lastVer'[n] \in 0 .. Top
    BY SMT DEF MapsOK, OnNodes
  <2>4. SeenOK(n)'
    <3>1. seen'[n] = << >> /\ DOMAIN << >> = {}
      BY SMT DEF MapsOK, OnNodes
    <3>. QED  BY <3>1 DEF SeenOK
  <2>. QED  BY <1>2, <1>3, <2>1, <2>2, <2>3, <2>4, PassEnds
<1>. QED  BY <1>4, <1>5

\* Every step keeps the engines in order.
LEMMA EngineStep ==
    ASSUME PipelineFacts, LedgerInv, EngineInv, RecordsInv, [Next]_vars
    PROVE  EngineInv'
<1>0. ChainInv /\ Len(chain) >= 1
  BY LedgerFacts
<1>1. CASE MineBlock
  <2>1. UNCHANGED <<thread, settled, raced, issued, faults>>
    BY <1>1 DEF MineBlock
  <2>2. \E b : ChainStep(chain, chain', Len(chain), b)
    BY <1>0, <1>1, MineIsAStep
  <2>3. OnNodes(raced') /\ (\A n \in Node : raced'[n] \in BOOLEAN) /\ faults' \in 0 .. MaxFaults
    BY <2>1 DEF EngineInv, MapsOK, BookOK
  <2>. QED  BY <2>1, <2>2, <2>3, EngineOnNewChain
<1>2. CASE Reorg
  <2>1. UNCHANGED <<thread, settled, issued>> /\ faults' = faults + 1 /\ faults < MaxFaults
    BY <1>2 DEF Reorg
  <2>2. PICK cut : ReorgAt(cut)
    BY <1>0, <1>2, ReorgIsAStep
  <2>3. OnNodes(raced') /\ \A n \in Node : raced'[n] \in BOOLEAN
    <3>. DEFINE back == Mined(chain) \ MinedUpTo(chain, cut)
                R(n) == raced[n] \/ \E t, u \in RecordsOf(n, pool \cup back) : t # u
    <3>1. raced' = [n \in Node |-> R(n)]
      BY <2>2 DEF ReorgAt
    <3>2. \A n \in Node : R(n) \in BOOLEAN
      OBVIOUS
    <3>. HIDE DEF R
    <3>. QED  BY <3>1, <3>2 DEF OnNodes
  <2>4. faults' \in 0 .. MaxFaults
    BY <2>1, EpochsAssumption, SMT DEF EngineInv
  <2>. QED  BY <2>1, <2>2, <2>3, <2>4, EngineOnNewChain DEF ReorgAt
<1>3. ASSUME UNCHANGED <<chain, thread, settled, raced, issued, faults>> PROVE EngineInv'
  BY <1>3, ZenonT(30)
     DEF EngineInv, MapsOK, OnNodes, ThreadOK, SeenOK, BookOK, RecordOf, Top, Height,
              thread
<1>4. CASE PublishInput
  BY <1>3, <1>4 DEF PublishInput
<1>5. ASSUME NEW n \in Node, Engine(n) \/ RegisterFails(n) \/ Restart(n) PROVE EngineInv'
  BY <1>5, WakeKeepsEngine, CollectKeepsEngine, VerifyKeepsEngine, ComputeKeepsEngine,
     RegisterKeepsEngine, FailureKeepsEngine DEF Engine
<1>6. CASE UNCHANGED vars
  BY <1>3, <1>6 DEF vars
<1>. QED  BY <1>1, <1>2, <1>4, <1>5, <1>6 DEF Next

\* The transactions after a step of the chain.
LEMMA StepMined ==
    ASSUME NEW c, NEW d, NEW cut, NEW b, ChainStep(c, d, cut, b)
    PROVE  /\ MinedUpTo(c, cut) \subseteq Mined(c)
           /\ MinedUpTo(c, cut) \subseteq Mined(d)
           /\ \A tx \in Mined(d) :
                 tx \in MinedUpTo(c, cut) \/ \E i \in 1 .. Len(b) : tx = b[i]
<1>1. MinedUpTo(c, cut) \subseteq Mined(c)
  BY StepPlaces DEF Mined, MinedUpTo
<1>2. MinedUpTo(c, cut) \subseteq Mined(d)
  BY StepPlaces, SMT DEF Mined, MinedUpTo
<1>3. ASSUME NEW p \in Places(d, 1, Len(d))
      PROVE  At(d, p) \in MinedUpTo(c, cut) \/ \E i \in 1 .. Len(b) : At(d, p) = b[i]
  <2>1. CASE p \in Places(c, 1, cut)
    BY <2>1, StepPlaces, SMT DEF MinedUpTo
  <2>2. ASSUME NEW i \in 1 .. Len(b), p = <<Len(c) + 1, i>>
        PROVE  At(d, p) = b[i]
    BY <2>2, StepPlaces, SMT
  <2>. QED  BY <2>1, <2>2, StepPlaces, SMT
<1>. QED  BY <1>1, <1>2, <1>3 DEF Mined

\* No record is mined or waiting at the start.
LEMMA RecordsInit == Init => RecordsInv
<1>. SUFFICES ASSUME Init PROVE RecordsInv
  OBVIOUS
<1>1. chain \in InitialChains /\ pool = {}
  BY DEF Init
<1>2. \A p \in Places(chain, 1, Len(chain)) : At(chain, p).item.stream # "weights"
  BY <1>1, SetupAssumption
<1>. QED  BY <1>1, <1>2 DEF RecordsInv, Mined

\* No step of the chain makes new transactions.
LEMMA RecordsOnNewChain ==
    ASSUME LedgerInv, RecordsInv, NEW cut, NEW b, ChainStep(chain, chain', cut, b),
           UNCHANGED issued, \A i \in 1 .. Len(b) : b[i] \in pool,
           pool' \subseteq pool \cup Mined(chain)
    PROVE  RecordsInv'
<1>1. ASSUME NEW tx \in pool' \cup Mined(chain)' PROVE tx \in pool \cup Mined(chain)
  <2>1. Mined(chain)' = Mined(chain')
    BY DEF Mined
  <2>. QED  BY <1>1, <2>1, StepMined, SMT
<1>2. \A r : JustRecord(chain, r) => JustRecord(chain', r)
  BY ChainMovesOn
<1>. QED  BY <1>1, <1>2 DEF RecordsInv

\* Every step keeps all records just and signed by their nodes.
LEMMA RecordsStep ==
    ASSUME PipelineFacts, LedgerInv, EngineInv, RecordsInv, [Next]_vars
    PROVE  RecordsInv'
<1>0. ChainInv /\ Len(chain) >= 1
  BY LedgerFacts
<1>1. CASE MineBlock
  <2>1. UNCHANGED issued
    BY <1>1 DEF MineBlock
  <2>2. CASE ChainStep(chain, chain', Len(chain), << >>) /\ pool' = pool
    <3>1. \A i \in 1 .. Len(<< >>) : << >>[i] \in pool
      BY SMT
    <3>. QED  BY <2>1, <2>2, <3>1, RecordsOnNewChain
  <2>3. ASSUME NEW tx \in pool, ChainStep(chain, chain', Len(chain), <<tx>>),
               pool' = pool \ {tx}
        PROVE  RecordsInv'
    <3>1. \A i \in 1 .. Len(<<tx>>) : <<tx>>[i] \in pool
      BY SMT
    <3>2. pool' \subseteq pool \cup Mined(chain)
      BY <2>3
    <3>. QED  BY <2>1, <2>3, <3>1, <3>2, RecordsOnNewChain
  <2>. QED  BY <1>0, <1>1, <2>2, <2>3, MineIsAStep
<1>2. CASE Reorg
  <2>1. UNCHANGED issued
    BY <1>2 DEF Reorg
  <2>2. PICK cut : ReorgAt(cut)
    BY <1>0, <1>2, ReorgIsAStep
  <2>3. \A i \in 1 .. Len(<< >>) : << >>[i] \in pool
    BY SMT
  <2>4. pool' \subseteq pool \cup Mined(chain) /\ ChainStep(chain, chain', cut, << >>)
    BY <2>2 DEF ReorgAt
  <2>. QED  BY <2>1, <2>3, <2>4, RecordsOnNewChain
<1>. ASSUME UNCHANGED <<chain, issued>>,
             \A tx \in pool' : tx \in pool \/ tx.item.stream # "weights"
      PROVE  RecordsInv'
  BY DEF RecordsInv, Mined
<1>4. CASE PublishInput
  <2>1. PICK p \in toPublish : pool' = pool \cup {Publication(p.by, 0, p.item)}
    BY <1>4 DEF PublishInput
  <2>2. p.item.stream \in {"esg", "membership"}
    BY InputsAssumption DEF LedgerInv
  <2>3. Publication(p.by, 0, p.item).item.stream # "weights"
    BY <2>2 DEF Publication
  <2>4. UNCHANGED <<chain, issued>>
    BY <1>4 DEF PublishInput
  <2>. QED  BY <2>1, <2>3, <2>4
<1>. ASSUME NEW n \in Node, RegisterLocalWeight(n) PROVE RecordsInv'
  <2>. DEFINE tx == Publication(n, issued[n] + 1, RecordOf(n))
  <2>1. Registration(n) = {} \/ Registration(n) = {tx}
    BY DEF Registration, RecordOf
  <2>. UNCHANGED chain /\ pool' = pool \cup Registration(n) /\ pc[n] = "register"
    BY DEF RegisterLocalWeight
  <2>3. CASE Registration(n) = {}
    <3>1. issued' = issued
      BY <2>3 DEF RegisterLocalWeight
    <3>. QED  BY <2>3, <3>1
  <2>4. CASE Registration(n) = {tx}
    <3>1. issued' = [issued EXCEPT ![n] = issued[n] + 1]
      BY <2>4 DEF RegisterLocalWeight
    <3>2. issued[n] \in Nat /\ \A m \in Node : issued[m] \in Nat
      BY DEF EngineInv, BookOK
    <3>3. /\ issued'[n] = issued[n] + 1
          /\ \A m \in Node : issued'[m] \in Nat /\ issued[m] <= issued'[m]
      BY <3>1, <3>2, SMT DEF EngineInv, MapsOK, OnNodes
    <3>4. /\ RecordOf(n).stream = "weights" /\ RecordOf(n).node = n
      BY DEF RecordOf
    <3>5. tx.item = RecordOf(n) /\ Signers(tx) = {n} /\ tx.txid = issued[n] + 1
      BY <3>4, PublicationFacts, SMT
    <3>6. JustRecord(chain, RecordOf(n))
      BY RegisteredInRange
    <3>. HIDE DEF tx
    <3>7. /\ JustRecord(chain', tx.item) /\ tx.item.node \in Node
          /\ tx.item.node \in Signers(tx)
          /\ tx.txid \in 1 .. issued'[tx.item.node]
      BY <3>2, <3>3, <3>4, <3>5, <3>6, SMT
    <3>8. ASSUME NEW t \in pool \cup Mined(chain), t.item.stream = "weights"
          PROVE  /\ JustRecord(chain', t.item) /\ t.item.node \in Node
                 /\ t.item.node \in Signers(t)
                 /\ t.txid \in 1 .. issued'[t.item.node]
      <4>1. /\ JustRecord(chain, t.item) /\ t.item.node \in Node
            /\ t.item.node \in Signers(t)
            /\ t.txid \in 1 .. issued[t.item.node]
        BY <3>8 DEF RecordsInv
      <4>. QED  BY <3>2, <3>3, <4>1, SMT
    <3>9. pool' \cup Mined(chain)' = (pool \cup Mined(chain)) \cup {tx}
      BY <2>4 DEF Mined
    <3>. QED  BY <3>7, <3>8, <3>9 DEF RecordsInv
  <2>. QED  BY <2>1, <2>3, <2>4
<1>6. ASSUME NEW n \in Node,
             \/ Wake(n) \/ Collect(n) \/ VerifyAndCacheEpoch(n)
             \/ ComputeLocalWeightForEpoch(n) \/ RegisterFails(n) \/ Restart(n)
      PROVE  RecordsInv'
  <2>1. UNCHANGED <<chain, pool, issued>>
    BY <1>6 DEF Wake, Collect, VerifyAndCacheEpoch, ComputeLocalWeightForEpoch,
                RegisterFails, Restart
  <2>. QED  BY <2>1
<1>7. CASE UNCHANGED vars
  BY <1>7 DEF vars
<1>. QED  BY <1>1, <1>2, <1>4, <1>6, <1>7 DEF Next, Engine

\* The verdict of a node that computes by the chain's parameters on a just
\* record.
LEMMA VerdictOnJustRecord ==
    ASSUME PipelineFacts, NEW c, IsChain(c), Len(c) >= 1, NEW in, IsInput(in), NEW r, JustRecord(c, r),
           NEW e \in 1 .. LastBuriedEpoch(Len(c) - 1), NEW recomputed,
           recomputed = [k \in Heads(in) |-> WeightForEpoch(c, in, e, k)]
    PROVE  LET v == Verdict(r, e, recomputed)
               invalid == v \in {"mismatch", "not_a_cluster"}
           IN  /\ invalid => r.node \in Skewed \/ r.basis # in
               /\ (r.node \in Skewed /\ r.epoch = e /\ r.basis = in) => invalid
<1>1. CASE r.epoch # e \/ r.basis # in
  BY <1>1 DEF Verdict
<1>2. CASE r.epoch = e /\ r.basis = in
  <2>. DEFINE w == WeightForEpoch(c, in, e, r.node)
  <2>1. w \in 1 .. UMax
    BY BuriedWeight
  <2>2. r.node \in Heads(in) /\ r.weight = ByEngineOf(r.node, w)
    BY <1>2 DEF JustRecord
  <2>3. r.node \in DOMAIN recomputed /\ recomputed[r.node] = w
    BY <2>2
  <2>. HIDE DEF w
  <2>4. (r.node \notin Skewed => r.weight = w) /\ (r.node \in Skewed => r.weight # w)
    BY <2>1, <2>2, EnginesDiffer
  <2>. QED  BY <1>2, <2>3, <2>4 DEF Verdict
<1>. QED  BY <1>1, <1>2

\* Every step keeps the verdicts just.
LEMMA VerdictsStep ==
    ASSUME PipelineFacts, LedgerInv, EngineInv, VerdictsAreJust, [Next]_vars
    PROVE  VerdictsAreJust'
<1>. DEFINE Just(n, book) ==
        \A a \in DOMAIN book.of :
           LET v == book.of[a]
               invalid == v.verdict \in {"mismatch", "not_a_cluster"}
           IN  /\ invalid => a \in Skewed \/ v.record.basis # v.basis
               /\ (/\ a \in Skewed
                   /\ v.record.epoch = book.epoch
                   /\ v.record.basis = v.basis) => invalid
<1>1. /\ VerdictsAreJust <=> \A n \in Node \ Skewed : Just(n, verdicts[n])
      /\ VerdictsAreJust' <=> \A n \in Node \ Skewed : Just(n, verdicts'[n])
  BY DEF VerdictsAreJust
<1>2. CASE UNCHANGED verdicts
  <2>. HIDE DEF Just
  <2>. QED  BY <1>1, <1>2
<1>3. ASSUME NEW n \in Node, NEW book, verdicts' = [verdicts EXCEPT ![n] = book],
             n \notin Skewed => Just(n, book)
      PROVE  VerdictsAreJust'
  <2>. HIDE DEF Just
  <2>1. OnNodes(verdicts)
    BY DEF EngineInv, MapsOK
  <2>2. \A m \in Node : verdicts'[m] = IF m = n THEN book ELSE verdicts[m]
    BY <1>3, <2>1 DEF OnNodes
  <2>. QED  BY <1>1, <1>3, <2>2
<1>4. ASSUME NEW n \in Node, Restart(n) PROVE VerdictsAreJust'
  <2>1. verdicts' = [verdicts EXCEPT ![n] = NoVerdicts]
    BY <1>4 DEF Restart
  <2>2. DOMAIN NoVerdicts.of = {}
    BY SMT DEF NoVerdicts
  <2>3. Just(n, NoVerdicts)
    BY <2>2
  <2>. HIDE DEF Just
  <2>. QED  BY <1>3, <2>1, <2>3
<1>5. ASSUME NEW n \in Node, VerifyAndCacheEpoch(n) PROVE VerdictsAreJust'
  <2>. DEFINE e == epoch[n] - 1
              in == ReadInputs(chain)
              recomputed == Computed(n, in, e)
              book == [epoch |-> e,
                       of |-> [a \in DOMAIN seen[n] |->
                                 [verdict |-> Verdict(seen[n][a], e, recomputed),
                                  record |-> seen[n][a],
                                  basis |-> in]]]
  <2>1. verdicts' = [verdicts EXCEPT ![n] = book] /\ Buried(Height, e) /\ pc[n] = "verify"
    BY <1>5, ZenonT(30) DEF VerifyAndCacheEpoch
  <2>2. IsChain(chain) /\ Len(chain) >= 1 /\ Height \in Nat
    BY NodeFacts DEF LedgerInv
  <2>3. e \in 1 .. LastBuriedEpoch(Len(chain) - 1)
    <3>1. e \in Nat
      BY <2>1, NodeFacts, SMT DEF ThreadOK
    <3>. HIDE DEF e
    <3>. QED  BY <2>1, <2>2, <3>1, BurialTestsAgree DEF Height
  <2>4. IsInput(in)
    BY <2>2 DEF PipelineFacts, InputsAreRead
  <2>. HIDE DEF e, in
  <2>5. ASSUME n \notin Skewed PROVE Just(n, book)
    <3>1. recomputed = [k \in Heads(in) |-> WeightForEpoch(chain, in, e, k)]
      BY <2>5 DEF Computed, ByEngineOf
    <3>. HIDE DEF recomputed
    <3>2. ASSUME NEW a \in DOMAIN seen[n]
          PROVE  LET v == Verdict(seen[n][a], e, recomputed)
                     invalid == v \in {"mismatch", "not_a_cluster"}
                 IN  /\ invalid => a \in Skewed \/ seen[n][a].basis # in
                     /\ (a \in Skewed /\ seen[n][a].epoch = e /\ seen[n][a].basis = in) => invalid
      <4>1. seen[n][a].node = a /\ JustRecord(chain, seen[n][a])
        BY NodeFacts DEF SeenOK
      <4>. QED  BY <2>2, <2>3, <2>4, <3>1, <4>1, VerdictOnJustRecord, ZenonT(30)
    <3>3. /\ DOMAIN book.of = DOMAIN seen[n] /\ book.epoch = e
          /\ \A a \in DOMAIN seen[n] : /\ book.of[a].verdict = Verdict(seen[n][a], e, recomputed)
                                       /\ book.of[a].record = seen[n][a]
                                       /\ book.of[a].basis = in
      OBVIOUS
    <3>. HIDE DEF book
    <3>. QED  BY <3>2, <3>3
  <2>. HIDE DEF Just, book
  <2>. QED  BY <1>3, <2>1, <2>5
<1>6. ASSUME NEW n \in Node,
             \/ Wake(n) \/ Collect(n) \/ ComputeLocalWeightForEpoch(n)
             \/ RegisterLocalWeight(n) \/ RegisterFails(n)
      PROVE  UNCHANGED verdicts
  BY <1>6 DEF Wake, Collect, ComputeLocalWeightForEpoch, RegisterLocalWeight, RegisterFails
<1>7. CASE MineBlock \/ Reorg \/ PublishInput \/ UNCHANGED vars
  BY <1>2, <1>7 DEF MineBlock, Reorg, PublishInput, vars, thread
<1>. QED  BY <1>2, <1>4, <1>5, <1>6, <1>7 DEF Next, Engine

\* No registration is in two places.
Separate(c) ==
    \A p, q \in Places(c, 1, Len(c)) :
        p # q /\ At(c, p).item.stream = "weights" => At(c, p) # At(c, q)

OnceInv ==
    /\ Separate(chain)
    /\ \A tx \in pool : tx.item.stream = "weights" => tx \notin Mined(chain)

\* The set-up mined no registration.
LEMMA OnceInit == Init => OnceInv
<1>. SUFFICES ASSUME Init PROVE OnceInv
  OBVIOUS
<1>. chain \in InitialChains /\ pool = {}
  BY DEF Init
<1>2. \A p \in Places(chain, 1, Len(chain)) : At(chain, p).item.stream # "weights"
  BY SetupAssumption
<1>. QED  BY <1>2 DEF OnceInv, Separate

\* A block with at most one transaction, a new one, keeps them separate.
LEMMA StepKeepsSeparate ==
    ASSUME NEW c, NEW d, NEW cut, NEW b, ChainStep(c, d, cut, b), Separate(c),
           Len(b) \in {0, 1},
           \A i \in 1 .. Len(b) : b[i].item.stream = "weights" => b[i] \notin Mined(c)
    PROVE  Separate(d)
<1>. DEFINE Q == Places(c, 1, cut)
<1>1. Q \subseteq Places(c, 1, Len(c)) /\ \A p \in Q : At(d, p) = At(c, p)
  BY StepPlaces, ZenonT(30)
<1>. ASSUME NEW p \in Places(d, 1, Len(d)), p \notin Q
      PROVE  p = <<Len(c) + 1, 1>> /\ (At(d, p).item.stream = "weights" => At(d, p) \notin Mined(c))
  <2>1. PICK i \in 1 .. Len(b) : p = <<Len(c) + 1, i>>
    BY StepPlaces, SMT
  <2>2. i = 1
    BY SMT
  <2>3. At(d, p) = b[i]
    BY <2>1, StepPlaces, SMT
  <2>. QED  BY <2>1, <2>2, <2>3
<1>3. \A p \in Q : At(d, p) \in Mined(c)
  <2>. HIDE DEF Q
  <2>. QED  BY <1>1 DEF Mined
<1>. HIDE DEF Q
<1>. ASSUME NEW p \in Places(d, 1, Len(d)), NEW q \in Places(d, 1, Len(d)), p # q,
             At(d, p).item.stream = "weights", At(d, p) = At(d, q)
      PROVE  FALSE
  <2>1. CASE p \in Q /\ q \in Q
    BY <1>1, <2>1 DEF Separate
  <2>2. CASE p \in Q /\ q \notin Q
    BY <1>3, <2>2
  <2>3. CASE p \notin Q /\ q \in Q
    BY <1>3, <2>3
  <2>4. CASE p \notin Q /\ q \notin Q
    BY <2>4
  <2>. QED  BY <2>1, <2>2, <2>3, <2>4
<1>. QED  BY DEF Separate

\* No step mines a registration a second time.
LEMMA OnceStep ==
    ASSUME LedgerInv, EngineInv, RecordsInv, OnceInv, [Next]_vars
    PROVE  OnceInv'
<1>0. ChainInv /\ Len(chain) >= 1
  BY LedgerFacts
<1>a. Mined(chain)' = Mined(chain')
  BY DEF Mined
<1>1. CASE MineBlock
  <2>1. CASE ChainStep(chain, chain', Len(chain), << >>) /\ pool' = pool
    <3>1. Len(<< >>) = 0 /\ \A i \in 1 .. Len(<< >>) : FALSE
      BY SMT
    <3>2. Separate(chain')
      BY <2>1, <3>1, StepKeepsSeparate DEF OnceInv
    <3>3. Mined(chain') \subseteq Mined(chain)
      BY <2>1, <3>1, StepMined
    <3>. QED  BY <1>a, <2>1, <3>2, <3>3 DEF OnceInv
  <2>2. ASSUME NEW tx \in pool, ChainStep(chain, chain', Len(chain), <<tx>>),
               pool' = pool \ {tx}
        PROVE  OnceInv'
    <3>1. Len(<<tx>>) = 1 /\ \A i \in 1 .. Len(<<tx>>) : <<tx>>[i] = tx
      BY SMT
    <3>2. Separate(chain')
      BY <2>2, <3>1, StepKeepsSeparate DEF OnceInv
    <3>3. Mined(chain') \subseteq Mined(chain) \cup {tx}
      BY <2>2, <3>1, StepMined, SMT
    <3>. QED  BY <1>a, <2>2, <3>2, <3>3 DEF OnceInv
  <2>. QED  BY <1>0, <1>1, <2>1, <2>2, MineIsAStep
<1>2. CASE Reorg
  <2>1. PICK cut : ReorgAt(cut)
    BY <1>0, <1>2, ReorgIsAStep
  <2>2. ChainStep(chain, chain', cut, << >>)
          /\ pool' = pool \cup (Mined(chain) \ MinedUpTo(chain, cut))
    BY <2>1 DEF ReorgAt
  <2>3. Len(<< >>) = 0 /\ \A i \in 1 .. Len(<< >>) : FALSE
    BY SMT
  <2>4. Separate(chain')
    BY <2>2, <2>3, StepKeepsSeparate DEF OnceInv
  <2>5. Mined(chain') \subseteq MinedUpTo(chain, cut) /\ MinedUpTo(chain, cut) \subseteq Mined(chain)
    BY <2>2, <2>3, StepMined
  <2>. QED  BY <1>a, <2>2, <2>4, <2>5 DEF OnceInv
<1>3. ASSUME UNCHANGED chain,
             \A tx \in pool' : \/ tx \in pool
                               \/ tx.item.stream # "weights"
                               \/ tx \notin Mined(chain)
      PROVE  OnceInv'
  BY <1>a, <1>3 DEF OnceInv
<1>4. CASE PublishInput
  <2>1. PICK p \in toPublish : pool' = pool \cup {Publication(p.by, 0, p.item)}
    BY <1>4 DEF PublishInput
  <2>2. p.item.stream \in {"esg", "membership"}
    BY InputsAssumption DEF LedgerInv
  <2>3. Publication(p.by, 0, p.item).item.stream # "weights"
    BY <2>2 DEF Publication
  <2>4. UNCHANGED chain
    BY <1>4 DEF PublishInput
  <2>. QED  BY <1>3, <2>1, <2>3, <2>4
<1>5. ASSUME NEW n \in Node, RegisterLocalWeight(n) PROVE OnceInv'
  <2>. DEFINE tx == Publication(n, issued[n] + 1, RecordOf(n))
  <2>1. Registration(n) \subseteq {tx}
    BY DEF Registration, RecordOf
  <2>2. UNCHANGED chain /\ pool' = pool \cup Registration(n)
    BY <1>5 DEF RegisterLocalWeight
  <2>3. RecordOf(n).stream = "weights" /\ RecordOf(n).node = n
    BY DEF RecordOf
  <2>4. tx.item = RecordOf(n) /\ tx.txid = issued[n] + 1
    BY <2>3, PublicationFacts, SMT
  <2>. HIDE DEF tx
  <2>5. tx \notin Mined(chain)
    <3>1. issued[n] \in Nat
      BY DEF EngineInv, BookOK
    <3>2. tx \in Mined(chain) => tx.txid \in 1 .. issued[n]
      BY <2>3, <2>4 DEF RecordsInv
    <3>. QED  BY <2>4, <3>1, <3>2, SMT
  <2>. QED  BY <1>3, <2>1, <2>2, <2>5
<1>6. ASSUME NEW n \in Node,
             \/ Wake(n) \/ Collect(n) \/ VerifyAndCacheEpoch(n)
             \/ ComputeLocalWeightForEpoch(n) \/ RegisterFails(n) \/ Restart(n)
      PROVE  OnceInv'
  <2>1. UNCHANGED <<chain, pool>>
    BY <1>6 DEF Wake, Collect, VerifyAndCacheEpoch, ComputeLocalWeightForEpoch,
                RegisterFails, Restart
  <2>. QED  BY <1>3, <2>1
<1>7. CASE UNCHANGED vars
  BY <1>3, <1>7 DEF vars
<1>. QED  BY <1>1, <1>2, <1>4, <1>5, <1>6, <1>7 DEF Next, Engine

\* The weight of node n as the engine reads it.
LEMMA WeightRead ==
    ASSUME NEW n
    PROVE  GetNodeWeight(n) = WeightOn(chain, n) /\ GetNodeWeight(n)' = WeightOn(chain', n)
  BY DEF GetNodeWeight, GetAllNodesWeightsWithEpoch, WeightOn, Registry

\* The heights of the places kept, and of the others.
LEMMA KeptPlaces ==
    ASSUME NEW c, NEW n, NEW cut \in Nat,
           NEW p \in OwnPlaces(c, n), p \notin Places(c, 1, cut),
           NEW q \in OwnPlaces(c, n), q \in Places(c, 1, cut)
    PROVE  Later(p, q)
<1>1. PICK h \in 1 .. Len(c) : \E i \in 1 .. Len(c[h]) : p = <<h, i>>
  BY PlaceFacts, SMT DEF OwnPlaces
<1>2. PICK g \in 1 .. cut : \E i \in 1 .. Len(c[g]) : q = <<g, i>>
  BY PlaceFacts, SMT
<1>3. ~(h <= cut)
  <2>1. ASSUME h <= cut PROVE FALSE
    <3>1. h \in 1 .. cut
      BY <2>1, SMT
    <3>. QED  BY <1>1, <3>1, PlaceFacts
  <2>. QED  BY <2>1
<1>. QED  BY <1>1, <1>2, <1>3, SMT DEF Later

\* A step that drops no record of a node and adds none keeps its weight.
LEMMA WeightStays ==
    ASSUME PipelineFacts, NEW c, NEW d, NEW cut, NEW b, ChainStep(c, d, cut, b),
           IsChain(c), IsRegistry(c), IsChain(d), IsRegistry(d), NEW n,
           OwnPlaces(c, n) \subseteq Places(c, 1, cut),
           \A i \in 1 .. Len(b) : ~(b[i].item.stream = "weights" /\ b[i].item.node = n)
    PROVE  WeightOn(c, n) = WeightOn(d, n)
<1>. DEFINE Q == Places(c, 1, cut)
<1>1. Q \subseteq Places(c, 1, Len(c)) /\ Q \subseteq Places(d, 1, Len(d))
        /\ \A p \in Q : At(d, p) = At(c, p)
  BY StepPlaces, SMT
<1>2. ASSUME NEW p \in OwnPlaces(d, n) PROVE p \in Q
  <2>1. ASSUME p \notin Q PROVE FALSE
    <3>1. PICK i \in 1 .. Len(b) : p = <<Len(c) + 1, i>>
      BY <2>1, StepPlaces, SMT DEF OwnPlaces
    <3>2. At(d, p) = b[i]
      BY <3>1, StepPlaces, SMT
    <3>. QED  BY <3>2 DEF OwnPlaces
  <2>. QED  BY <2>1
<1>. HIDE DEF Q
<1>3. OwnPlaces(c, n) \subseteq Q
  BY DEF Q
<1>4. OwnPlaces(c, n) = OwnPlaces(d, n)
  BY <1>1, <1>2, <1>3 DEF OwnPlaces
<1>5. \A p \in OwnPlaces(c, n) : At(c, p) = At(d, p)
  BY <1>1, <1>3
<1>. QED  BY <1>4, <1>5, SameRecordsSameWeight, ZenonT(30)

\* A record mined on top is the one that counts.
LEMMA WeightOfNewRecord ==
    ASSUME PipelineFacts, NEW c, NEW d, NEW tx, ChainStep(c, d, Len(c), <<tx>>), IsChain(d), IsRegistry(d),
           NEW n, tx.item.stream = "weights", tx.item.node = n
    PROVE  WeightOn(d, n) = tx.item.weight
<1>. DEFINE top == <<Len(c) + 1, 1>>
<1>1. Len(<<tx>>) = 1 /\ <<tx>>[1] = tx
  OBVIOUS
<1>2. top \in Places(d, 1, Len(d)) /\ At(d, top) = tx
  BY <1>1, StepPlaces, SMT
<1>3. top \in OwnPlaces(d, n)
  <2>. HIDE DEF top
  <2>. QED  BY <1>2 DEF OwnPlaces
<1>4. ASSUME NEW q \in OwnPlaces(d, n), q # top PROVE Later(top, q)
  <2>1. q \in Places(c, 1, Len(c))
    <3>1. q \in Places(d, 1, Len(d))
      BY DEF OwnPlaces
    <3>2. \A i \in 1 .. Len(<<tx>>) : <<Len(c) + 1, i>> = top
      BY <1>1, SMT
    <3>. HIDE DEF top
    <3>. QED  BY <1>4, <3>1, <3>2, StepPlaces, SMT
  <2>2. PICK g \in 1 .. Len(c) : \E i \in 1 .. Len(c[g]) : q = <<g, i>>
    BY <2>1, PlaceFacts, SMT
  <2>. QED  BY <2>2, SMT DEF Later, ChainStep
<1>. HIDE DEF top
<1>. QED  BY <1>2, <1>3, <1>4, WeightFacts

\* What a node's registrations come to while none has raced another: the
\* ones in flight carry the weight it registered last, and with none in
\* flight the registry does.
Stands(n) ==
    ~raced[n] /\ settled[n] # 0 =>
        /\ \A tx \in InFlight(n) : tx.item.weight = settled[n]
        /\ InFlight(n) = {} => GetNodeWeight(n) = settled[n]

StandInv == \A n \in Node : Stands(n)

\* Mining confirms registrations in any order.
LEMMA MineKeepsStanding ==
    ASSUME PipelineFacts, LedgerInv, LedgerInv', IsRegistry(chain), IsRegistry(chain'),
           NEW n \in Node, Stands(n), MineBlock
    PROVE  Stands(n)'
<1>. ChainInv /\ Len(chain) >= 1 /\ IsChain(chain) /\ Len(chain) \in Nat
  BY LedgerFacts
<1>c. IsChain(chain')
  BY DEF LedgerInv
<1>1. UNCHANGED <<raced, settled>>
  BY DEF MineBlock
<1>. SUFFICES ASSUME ~raced[n], settled[n] # 0
              PROVE  /\ \A tx \in InFlight(n)' : tx.item.weight = settled[n]
                     /\ InFlight(n)' = {} => WeightOn(chain', n) = settled[n]
  BY <1>1, WeightRead DEF Stands
<1>2. /\ \A tx \in InFlight(n) : tx.item.weight = settled[n]
      /\ InFlight(n) = {} => WeightOn(chain, n) = settled[n]
  BY WeightRead DEF Stands
<1>3. OwnPlaces(chain, n) \subseteq Places(chain, 1, Len(chain))
  BY DEF OwnPlaces
<1>4. CASE ChainStep(chain, chain', Len(chain), << >>) /\ pool' = pool
  <2>1. \A i \in 1 .. Len(<< >>) : FALSE
    BY SMT
  <2>2. WeightOn(chain, n) = WeightOn(chain', n)
    BY <1>c, <1>3, <1>4, <2>1, WeightStays, SMT
  <2>3. InFlight(n)' = InFlight(n)
    BY <1>4 DEF InFlight, RecordsOf
  <2>. QED  BY <1>2, <2>2, <2>3
<1>. ASSUME NEW tx \in pool, ChainStep(chain, chain', Len(chain), <<tx>>), pool' = pool \ {tx}
      PROVE  /\ \A t \in InFlight(n)' : t.item.weight = settled[n]
             /\ InFlight(n)' = {} => WeightOn(chain', n) = settled[n]
  <2>1. CASE tx.item.stream = "weights" /\ tx.item.node = n
    <3>1. tx \in InFlight(n) /\ InFlight(n)' \subseteq InFlight(n)
      BY <2>1 DEF InFlight, RecordsOf
    <3>2. WeightOn(chain', n) = tx.item.weight
      BY <1>c, <2>1, WeightOfNewRecord
    <3>. QED  BY <1>2, <3>1, <3>2
  <2>2. CASE ~(tx.item.stream = "weights" /\ tx.item.node = n)
    <3>1. \A i \in 1 .. Len(<<tx>>) : <<tx>>[i] = tx
      BY SMT
    <3>2. WeightOn(chain, n) = WeightOn(chain', n)
      BY <1>c, <1>3, <2>2, <3>1, WeightStays, SMT
    <3>3. InFlight(n)' = InFlight(n)
      BY <2>2 DEF InFlight, RecordsOf
    <3>. QED  BY <1>2, <3>2, <3>3
  <2>. QED  BY <2>1, <2>2
<1>. QED  BY <1>4, MineIsAStep

\* A reorganisation returns registrations; when it returns one and no other
\* is in flight, it is the newest.
LEMMA ReorgKeepsStanding ==
    ASSUME PipelineFacts, LedgerInv, LedgerInv', IsRegistry(chain), IsRegistry(chain'), OnceInv,
           UNCHANGED settled, NEW n \in Node, Stands(n), NEW cut, ReorgAt(cut)
    PROVE  Stands(n)'
<1>. DEFINE back == Mined(chain) \ MinedUpTo(chain, cut)
            Q == Places(chain, 1, cut)
            all == RecordsOf(n, pool \cup back)
<1>. IsChain(chain) /\ IsChain(chain') /\ cut \in Nat
        /\ ChainStep(chain, chain', cut, << >>) /\ pool' = pool \cup back
  <2>1. IsChain(chain) /\ IsChain(chain')
    BY DEF LedgerInv
  <2>2. ChainStep(chain, chain', cut, << >>) /\ pool' = pool \cup back
    BY DEF ReorgAt
  <2>. QED  BY <2>1, <2>2, SMT DEF ChainStep
<1>1. raced'[n] <=> raced[n] \/ \E t, u \in all : t # u
  BY DEF ReorgAt
<1>2. InFlight(n)' = all /\ InFlight(n) = RecordsOf(n, pool)
  BY DEF InFlight, RecordsOf
<1>. SUFFICES ASSUME ~raced[n], settled[n] # 0, \A t, u \in all : t = u
              PROVE  /\ \A tx \in all : tx.item.weight = settled[n]
                     /\ all = {} => WeightOn(chain', n) = settled[n]
  BY <1>1, <1>2, WeightRead DEF Stands
<1>3. /\ \A tx \in RecordsOf(n, pool) : tx.item.weight = settled[n]
      /\ RecordsOf(n, pool) = {} => WeightOn(chain, n) = settled[n]
  BY <1>2, WeightRead DEF Stands
<1>4. RecordsOf(n, pool) \subseteq all
  BY DEF RecordsOf
<1>5. ASSUME NEW p \in OwnPlaces(chain, n), p \notin Q PROVE At(chain, p) \in all
  <2>1. p \in Places(chain, 1, Len(chain)) /\ At(chain, p).item.stream = "weights"
          /\ At(chain, p).item.node = n
    BY DEF OwnPlaces
  <2>2. At(chain, p) \in Mined(chain)
    BY <2>1 DEF Mined
  <2>3. At(chain, p) \notin MinedUpTo(chain, cut)
    <3>1. \A q \in Q : q \in Places(chain, 1, Len(chain))
      BY StepPlaces
    <3>2. \A q \in Q : At(chain, q) # At(chain, p)
      <4>. HIDE DEF Q
      <4>. QED  BY <1>5, <2>1, <3>1 DEF OnceInv, Separate
    <3>. QED  BY <3>2 DEF MinedUpTo
  <2>. QED  BY <2>1, <2>2, <2>3 DEF RecordsOf
<1>. ASSUME NEW tx \in all PROVE tx.item.weight = settled[n]
  <2>1. CASE tx \in pool
    <3>1. tx \in RecordsOf(n, pool)
      BY <2>1 DEF RecordsOf
    <3>. QED  BY <1>3, <3>1
  <2>2. CASE tx \notin pool
    <3>1. RecordsOf(n, pool) = {}
      <4>1. \A t \in RecordsOf(n, pool) : t = tx /\ t \in pool
        BY <1>4 DEF RecordsOf
      <4>. QED  BY <2>2, <4>1
    <3>2. WeightOn(chain, n) = settled[n]
      BY <1>3, <3>1
    <3>. tx \in back /\ tx.item.stream = "weights" /\ tx.item.node = n
      BY <2>2 DEF RecordsOf
    <3>. PICK p \in Places(chain, 1, Len(chain)) : tx = At(chain, p)
      BY DEF Mined
    <3>5. p \in OwnPlaces(chain, n)
      BY DEF OwnPlaces
    <3>6. p \notin Q
      BY DEF MinedUpTo
    <3>7. ASSUME NEW q \in OwnPlaces(chain, n), q # p PROVE Later(p, q)
      <4>1. q \in Q
        <5>1. ASSUME q \notin Q PROVE FALSE
          <6>1. At(chain, q) = tx
            BY <1>5, <5>1
          <6>. QED  BY <3>7, <6>1 DEF OnceInv, Separate, OwnPlaces
        <5>. QED  BY <5>1
      <4>. QED  BY <3>5, <3>6, <4>1, KeptPlaces
    <3>8. WeightOn(chain, n) = At(chain, p).item.weight
      BY <3>5, <3>7, WeightFacts
    <3>. QED  BY <3>2, <3>8
  <2>. QED  BY <2>1, <2>2
<1>7. ASSUME all = {} PROVE WeightOn(chain', n) = settled[n]
  <2>1. RecordsOf(n, pool) = {}
    BY <1>4, <1>7
  <2>2. OwnPlaces(chain, n) \subseteq Q
    BY <1>5, <1>7
  <2>3. \A i \in 1 .. Len(<< >>) : FALSE
    BY SMT
  <2>4. WeightOn(chain, n) = WeightOn(chain', n)
    BY <2>2, <2>3, WeightStays, SMT
  <2>. QED  BY <1>3, <2>1, <2>4
<1>. QED  BY <1>7

\* A registration that meets no other of the node.
LEMMA RegisterKeepsStanding ==
    ASSUME LedgerInv, EngineInv, StandInv, NEW n \in Node, RegisterLocalWeight(n)
    PROVE  StandInv'
<1>. DEFINE tx == Publication(n, issued[n] + 1, RecordOf(n))
<1>1. Registration(n) = IF GetNodeWeight(n) = own[n].weight THEN {} ELSE {tx}
  BY DEF Registration, RecordOf
<1>. RecordOf(n).stream = "weights" /\ RecordOf(n).node = n /\ RecordOf(n).weight = own[n].weight
  BY DEF RecordOf
<1>3. tx.item = RecordOf(n)
  BY PublicationFacts, SMT
<1>. HIDE DEF tx
<1>. /\ UNCHANGED chain /\ pool' = pool \cup Registration(n) /\ pc[n] = "register"
      /\ raced' = [raced EXCEPT ![n] = InFlight(n) # {}]
      /\ settled' = [settled EXCEPT ![n] = own[n].weight]
  BY DEF RegisterLocalWeight
<1>5. OnNodes(raced) /\ OnNodes(settled)
  BY DEF EngineInv, MapsOK
<1>6. \A m : GetNodeWeight(m)' = GetNodeWeight(m)
  BY DEF GetNodeWeight, GetAllNodesWeightsWithEpoch
<1>7. ASSUME NEW m \in Node, m # n PROVE Stands(m)'
  <2>1. raced'[m] = raced[m] /\ settled'[m] = settled[m]
    BY <1>5, <1>7 DEF OnNodes
  <2>2. InFlight(m)' = InFlight(m)
    BY <1>1, <1>3, <1>7 DEF InFlight, RecordsOf
  <2>3. Stands(m)
    BY DEF StandInv
  <2>. QED  BY <1>6, <2>1, <2>2, <2>3 DEF Stands
<1>8. Stands(n)'
  <2>1. raced'[n] = (InFlight(n) # {}) /\ settled'[n] = own[n].weight
    BY <1>5 DEF OnNodes
  <2>. SUFFICES ASSUME InFlight(n) = {}
                PROVE  /\ \A t \in InFlight(n)' : t.item.weight = own[n].weight
                       /\ InFlight(n)' = {} => GetNodeWeight(n) = own[n].weight
    BY <1>6, <2>1 DEF Stands
  <2>2. CASE GetNodeWeight(n) = own[n].weight
    <3>1. InFlight(n)' = InFlight(n)
      BY <1>1, <2>2 DEF InFlight, RecordsOf
    <3>. QED  BY <2>2, <3>1
  <2>3. CASE GetNodeWeight(n) # own[n].weight
    <3>1. InFlight(n)' = {tx}
      BY <1>1, <1>3, <2>3 DEF InFlight, RecordsOf
    <3>. QED  BY <1>3, <3>1
  <2>. QED  BY <2>2, <2>3
<1>. QED  BY <1>7, <1>8 DEF StandInv

\* No node has settled on a weight at the start.
LEMMA StandInit == Init => StandInv
<1>. SUFFICES ASSUME Init PROVE StandInv
  OBVIOUS
<1>1. \A n \in Node : settled[n] = 0
  BY DEF Init
<1>. QED  BY <1>1 DEF StandInv, Stands

\* Every step keeps what a node's registrations come to.
LEMMA StandStep ==
    ASSUME PipelineFacts, LedgerInv, EngineInv, RecordsInv, OnceInv, StandInv, [Next]_vars,
           LedgerInv', RecordsInv'
    PROVE  StandInv'
<1>0. ChainInv /\ Len(chain) >= 1 /\ IsChain(chain) /\ IsChain(chain') /\ Len(chain') >= 1
  <2>1. IsChain(chain') /\ Len(chain') \in 1 .. MaxHeight + 1
    BY DEF LedgerInv
  <2>. QED  BY <2>1, LedgerFacts, EpochsAssumption, SMT
<1>r. IsRegistry(chain) /\ IsRegistry(chain')
  <2>1. \A tx \in Mined(chain) : tx.item.stream = "weights" =>
           JustRecord(chain, tx.item) /\ tx.item.node \in Signers(tx)
    BY DEF RecordsInv
  <2>2. \A tx \in Mined(chain') : tx.item.stream = "weights" =>
           JustRecord(chain', tx.item) /\ tx.item.node \in Signers(tx)
    BY DEF RecordsInv, Mined
  <2>. QED  BY <1>0, <2>1, <2>2, ChainIsRegistry
<1>1. CASE MineBlock
  BY <1>1, <1>r, MineKeepsStanding DEF StandInv
<1>2. CASE Reorg
  <2>1. UNCHANGED settled
    BY <1>2 DEF Reorg
  <2>2. PICK cut : ReorgAt(cut)
    BY <1>0, <1>2, ReorgIsAStep
  <2>. QED  BY <1>r, <2>1, <2>2, ReorgKeepsStanding DEF StandInv
<1>3. ASSUME UNCHANGED <<chain, raced, settled>>,
             \A n \in Node : InFlight(n)' = InFlight(n)
      PROVE  StandInv'
  <2>1. \A n : GetNodeWeight(n)' = GetNodeWeight(n)
    BY <1>3 DEF GetNodeWeight, GetAllNodesWeightsWithEpoch
  <2>. QED  BY <1>3, <2>1 DEF StandInv, Stands
<1>4. CASE PublishInput
  <2>1. PICK p \in toPublish : pool' = pool \cup {Publication(p.by, 0, p.item)}
    BY <1>4 DEF PublishInput
  <2>2. p.item.stream \in {"esg", "membership"}
    BY InputsAssumption DEF LedgerInv
  <2>3. Publication(p.by, 0, p.item).item.stream # "weights"
    BY <2>2 DEF Publication
  <2>4. \A n \in Node : InFlight(n)' = InFlight(n)
    BY <2>1, <2>3 DEF InFlight, RecordsOf
  <2>5. UNCHANGED <<chain, raced, settled>>
    BY <1>4 DEF PublishInput
  <2>. QED  BY <1>3, <2>4, <2>5
<1>5. ASSUME NEW n \in Node, RegisterLocalWeight(n) PROVE StandInv'
  BY <1>5, RegisterKeepsStanding
<1>6. ASSUME NEW n \in Node,
             \/ Wake(n) \/ Collect(n) \/ VerifyAndCacheEpoch(n)
             \/ ComputeLocalWeightForEpoch(n) \/ RegisterFails(n) \/ Restart(n)
      PROVE  StandInv'
  <2>1. UNCHANGED <<chain, pool, raced, settled>>
    BY <1>6 DEF Wake, Collect, VerifyAndCacheEpoch, ComputeLocalWeightForEpoch,
                RegisterFails, Restart
  <2>2. \A m \in Node : InFlight(m)' = InFlight(m)
    BY <2>1 DEF InFlight
  <2>. QED  BY <1>3, <2>1, <2>2
<1>7. CASE UNCHANGED vars
  <2>1. \A m \in Node : InFlight(m)' = InFlight(m)
    BY <1>7 DEF InFlight, vars
  <2>. QED  BY <1>3, <1>7, <2>1 DEF vars
<1>. QED  BY <1>1, <1>2, <1>4, <1>5, <1>6, <1>7 DEF Next, Engine

\* The invariant of the whole module.
EpochsInv ==
    /\ LedgerInv /\ EngineInv /\ RecordsInv /\ OnceInv /\ StandInv
    /\ VerdictsAreJust

\* It holds when the nodes start.
LEMMA EpochsInit ==
    ASSUME Init
    PROVE  EpochsInv
<1>1. VerdictsAreJust
  <2>1. \A n \in Node : verdicts[n] = NoVerdicts
    BY DEF Init
  <2>2. DOMAIN NoVerdicts.of = {}
    BY SMT DEF NoVerdicts
  <2>. QED  BY <2>1, <2>2 DEF VerdictsAreJust
<1>. QED  BY <1>1, LedgerInit, EngineInit, RecordsInit, OnceInit, StandInit
             DEF EpochsInv

\* Every step keeps it.
LEMMA EpochsStep ==
    ASSUME PipelineFacts, EpochsInv, [Next]_vars
    PROVE  EpochsInv'
<1>. LedgerInv /\ EngineInv /\ RecordsInv /\ OnceInv /\ StandInv /\ VerdictsAreJust
  BY DEF EpochsInv
<1>2. LedgerInv'
  BY LedgerStep
<1>3. EngineInv'
  BY EngineStep
<1>4. RecordsInv'
  BY RecordsStep
<1>5. OnceInv'
  BY OnceStep
<1>6. StandInv'
  BY <1>2, <1>4, StandStep
<1>7. VerdictsAreJust'
  BY VerdictsStep
<1>. QED  BY <1>2, <1>3, <1>4, <1>5, <1>6, <1>7 DEF EpochsInv

\* The invariant keeps every variable in its domain.
LEMMA EpochsTypes ==
    ASSUME EpochsInv
    PROVE  TypeOK
<1>. LedgerInv /\ EngineInv
  BY DEF EpochsInv
<1>. DEFINE bound == LastBuriedEpoch(MaxHeight)
<1>. Len(chain) \in 1 .. MaxHeight + 1 /\ Len(chain) \in Nat /\ Len(chain) >= 1
  BY EpochsAssumption, SMT DEF LedgerInv
<1>2. Top \in Nat /\ bound \in Nat /\ Top <= bound
  <2>. MaxHeight + 1 \in Nat /\ MaxHeight + 1 >= Len(chain) /\ MaxHeight + 1 >= 1
          /\ (MaxHeight + 1) - 1 = MaxHeight
    BY EpochsAssumption, SMT
  <2>2. Top \in Nat /\ Top <= LastBuriedEpoch((MaxHeight + 1) - 1)
    BY BuriedPart DEF Top, Height
  <2>3. LastBuriedEpoch((MaxHeight + 1) - 1) \in Nat
    BY BuriedPart
  <2>. QED  BY <2>2, <2>3
<1>. MapsOK /\ faults \in 0 .. MaxFaults
  BY DEF EngineInv
<1>. HIDE DEF bound
<1>4. ASSUME NEW n \in Node
      PROVE  /\ pc[n] \in {"sleep", "collect", "verify", "compute", "register"}
             /\ epoch[n] \in 0 .. bound /\ lastPub[n] \in 0 .. bound
             /\ lastVer[n] \in 0 .. bound /\ settled[n] \in 0 .. UMax
  <2>1. ThreadOK(n) /\ BookOK(n)
    BY DEF EngineInv
  <2>. QED  BY <1>2, <2>1, SMT DEF ThreadOK, BookOK
<1>5. \A n \in Node : raced[n] \in BOOLEAN
  BY DEF EngineInv, BookOK
<1>6. /\ pc \in [Node -> {"sleep", "collect", "verify", "compute", "register"}]
      /\ epoch \in [Node -> 0 .. bound] /\ lastPub \in [Node -> 0 .. bound]
      /\ lastVer \in [Node -> 0 .. bound] /\ settled \in [Node -> 0 .. UMax]
  BY <1>4 DEF MapsOK, OnNodes
<1>7. raced \in [Node -> BOOLEAN]
  BY <1>5 DEF MapsOK, OnNodes
<1>. QED  BY <1>6, <1>7 DEF TypeOK, bound

\* What a step may do to the blocks of the buried epochs.
BuriedStay ==
    \A h \in 1 .. LastHeight(LastBuriedEpoch(Height)) + 1 :
        h \in DOMAIN chain' /\ chain'[h] = chain[h]

\* No step changes a block of a buried epoch.
LEMMA StepsKeepTheBuried ==
    ASSUME LedgerInv, [Next]_vars
    PROVE  BuriedStay
<1>. DEFINE n == Top * EpochLength
<1>0. ChainInv /\ Len(chain) >= 1 /\ Len(chain) \in Nat /\ DOMAIN chain = 1 .. Len(chain)
  BY LedgerFacts
<1>1. Top \in Nat /\ n \in Nat /\ n <= Len(chain) /\ LastHeight(LastBuriedEpoch(Height)) + 1 = n
  <2>1. Top \in Nat /\ n \in Nat /\ n <= Len(chain)
    BY <1>0, BuriedPart DEF Top, Height
  <2>2. LastHeight(Top) + 1 = n
    BY <2>1, SMT DEF LastHeight
  <2>. QED  BY <2>1, <2>2 DEF Top
<1>2. ASSUME ChainInv', NEW cut, NEW b, ChainStep(chain, chain', cut, b) PROVE BuriedStay
  <2>1. Agree(chain, chain', n) /\ n <= Len(chain')
    BY <1>1, <1>2, StepKeepsTheBuried, SMT DEF Top, Height
  <2>2. DOMAIN chain' = 1 .. Len(chain') /\ Len(chain') \in Nat
    BY <1>2, SMT DEF ChainInv
  <2>. HIDE DEF n
  <2>. QED  BY <1>1, <2>1, <2>2, SMT DEF BuriedStay, Agree
<1>3. CASE MineBlock
  BY <1>0, <1>2, <1>3, MineIsAStep
<1>4. CASE Reorg
  BY <1>0, <1>2, <1>4, ReorgIsAStep DEF ReorgAt
<1>5. CASE UNCHANGED chain
  <2>. HIDE DEF n
  <2>. QED  BY <1>0, <1>1, <1>5, SMT DEF BuriedStay
<1>6. CASE PublishInput \/ UNCHANGED vars
  BY <1>5, <1>6 DEF PublishInput, vars
<1>7. CASE \E m \in Node : Engine(m) \/ RegisterFails(m) \/ Restart(m)
  <2>1. UNCHANGED chain
    BY <1>7 DEF Engine, RegisterFails, Restart, Wake, Collect, VerifyAndCacheEpoch,
                ComputeLocalWeightForEpoch, RegisterLocalWeight
  <2>. QED  BY <1>5, <2>1
<1>. QED  BY <1>3, <1>4, <1>6, <1>7 DEF Next

\* A buried epoch is final: for every epoch length and margin, and however
\* blocks are mined and reorganised within the margin, the blocks of an
\* epoch LastBuriedEpoch has once returned never change, so nodes that
\* compute it at different times fold the same facts.
THEOREM BuriedEpochsAreFinal == Spec => BuriedBlocksAreFinal
<1>1. Init => LedgerInv
  BY LedgerInit
<1>2. LedgerInv /\ [Next]_vars => LedgerInv'
  BY LedgerStep
<1>3. LedgerInv /\ [Next]_vars => [BuriedStay]_vars
  BY StepsKeepTheBuried
<1>4. BuriedBlocksAreFinal <=> [][BuriedStay]_vars
  BY PTL DEF BuriedBlocksAreFinal, BuriedStay
<1>. QED  BY <1>1, <1>2, <1>3, <1>4, PTL DEF Spec
=============================================================================
