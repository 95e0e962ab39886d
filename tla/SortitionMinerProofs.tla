------------------------ MODULE SortitionMinerProofs ------------------------
(***************************************************************************)
(* No validator ever publishes two blocks of one height, for every number  *)
(* of validators, every score and delay function, every clock and every    *)
(* value of the bounds.                                                    *)
(*                                                                         *)
(* The guard g_sortition_proposed_height is lost by a restart and plays no *)
(* part in the argument.  What does is that a candidate's parent is the    *)
(* tip (CreateNewBlock, UpdateTime), that a block the node publishes never *)
(* lies above its tip afterwards (AcceptBlock), and that the height of a   *)
(* tip never decreases, restarts included (Stop, Start).  The same facts,  *)
(* with the relayed blocks closed under parents, make the miners implement *)
(* BlockTree.  Last, the score tie-break leaves a tip that no scored block *)
(* beats, so two nodes with the same scored blocks stand on one tip.       *)
(***************************************************************************)
EXTENDS SortitionMiner, TLAPS, SequenceTheorems

IsSeq(b) == \E S : b \in Seq(S)

Working == {"scan", "found", "submit"}

(* The blocks a node holds are sequences and the variables are functions   *)
(* of the nodes.                                                           *)
Shape ==
    /\ \A b \in Published : IsSeq(b)
    /\ DOMAIN known = Node /\ known = [n \in Node |-> known[n]]
    /\ \A n \in Node : \A b \in known[n] : IsSeq(b)
    /\ DOMAIN tip = Node /\ tip = [n \in Node |-> tip[n]]
    /\ \A n \in Node : IsSeq(tip[n])
    /\ DOMAIN pc = Node /\ pc = [n \in Node |-> pc[n]]
    /\ DOMAIN cand = Node /\ cand = [n \in Node |-> cand[n]]
    /\ \A n \in Node : IsSeq(cand[n].parent)

(* What a node has published lies at or below its tip.                     *)
PublishedBelowTip ==
    \A b \in Published \ {Genesis} :
        Miner(b) \in Node /\ Len(b) <= Len(tip[Miner(b)])

(* What a node has published lies at or below the parent of its candidate. *)
PublishedBelowCandidate ==
    \A n \in Node : pc[n] \in Working =>
        \A b \in Published \ {Genesis} :
            Miner(b) = n => Len(b) <= Len(cand[n].parent)

ProposalInv ==
    /\ Shape
    /\ PublishedBelowTip
    /\ PublishedBelowCandidate
    /\ OneProposalPerHeight

-----------------------------------------------------------------------------
(* Sequences. *)

(* The empty sequence is one.                                              *)
LEMMA GenesisIsSeq == IsSeq(Genesis) /\ IsSeq(NoBlock.parent)
BY DEF IsSeq, Genesis, NoBlock

(* A block's height is a natural number.                                   *)
LEMMA SeqLen == ASSUME NEW b, IsSeq(b) PROVE Len(b) \in Nat
BY DEF IsSeq

(* An initial segment of a block, as Stop keeps it, is one, too.           *)
LEMMA AncestorsAreSeqs ==
    ASSUME NEW b, IsSeq(b), NEW a \in Ancestors(b)
    PROVE  IsSeq(a)
<1>1. PICK S : b \in Seq(S)
  BY DEF IsSeq
<1>2. PICK i \in 0 .. Len(b) : a = SubSeq(b, 1, i)
  BY DEF Ancestors, Ancestor
<1>3. SubSeq(b, 1, i) \in Seq(S)
  BY <1>1, <1>2, SMTT(30)
<1> QED
  BY <1>2, <1>3 DEF IsSeq

(* A block put on top of another is one higher and mined by its miner.     *)
LEMMA AppendBlock ==
    ASSUME NEW p, IsSeq(p), NEW x
    PROVE  /\ IsSeq(Append(p, x))
           /\ Len(Append(p, x)) = Len(p) + 1
           /\ Append(p, x)[Len(p) + 1] = x
           /\ Append(p, x) # Genesis
<1>1. PICK S : p \in Seq(S)
  BY DEF IsSeq
<1>2. p \in Seq(S \cup {x})
  BY <1>1, SMTT(30)
<1>3. /\ Append(p, x) \in Seq(S \cup {x})
      /\ Len(Append(p, x)) = Len(p) + 1
      /\ Append(p, x)[Len(p) + 1] = x
  BY <1>2, AppendProperties
<1>4. Len(p) \in Nat /\ Len(Genesis) = 0
  BY <1>1 DEF Genesis
<1> QED
  BY <1>3, <1>4 DEF IsSeq

-----------------------------------------------------------------------------
(* Steps. *)

(* AcceptBlock never lowers a tip, and a block it accepts does not lie     *)
(* above the tip it leaves.                                                *)
LEMMA AcceptBlockRaisesTip ==
    ASSUME Shape, NEW n \in Node, NEW b, IsSeq(b), AcceptBlock(n, b)
    PROVE  /\ DOMAIN known' = Node /\ known' = [m \in Node |-> known'[m]]
           /\ \A m \in Node : \A c \in known'[m] : IsSeq(c)
           /\ DOMAIN tip' = Node /\ tip' = [m \in Node |-> tip'[m]]
           /\ \A m \in Node : IsSeq(tip'[m]) /\ Len(tip[m]) <= Len(tip'[m])
           /\ MeetsTimeBar(b) => Len(b) <= Len(tip'[n])
<1>0. Len(b) \in Nat /\ \A m \in Node : Len(tip[m]) \in Nat
  BY SeqLen DEF Shape
<1>1. CASE MeetsTimeBar(b)
  <2> DEFINE S == scored[n] \cup {b}
  <2>1. /\ known' = [known EXCEPT ![n] = @ \cup {b}]
        /\ tip' = [tip EXCEPT ![n] = IF Better(n, S, b, tip[n]) THEN b ELSE tip[n]]
    BY <1>1 DEF AcceptBlock, Shape
  <2>2. /\ Better(n, S, b, tip[n]) => Len(b) >= Len(tip[n])
        /\ ~Better(n, S, b, tip[n]) => Len(b) <= Len(tip[n])
    BY <1>0 DEF Better
  <2> HIDE DEF S
  <2>3. DOMAIN known' = Node /\ known' = [m \in Node |-> known'[m]]
    BY <2>1 DEF Shape
  <2>4. \A m \in Node : \A c \in known'[m] : IsSeq(c)
    BY <2>1 DEF Shape
  <2>5. DOMAIN tip' = Node /\ tip' = [m \in Node |-> tip'[m]]
    BY <2>1 DEF Shape
  <2>6. \A m \in Node : IsSeq(tip'[m]) /\ Len(tip[m]) <= Len(tip'[m])
    BY <1>0, <2>1, <2>2 DEF Shape
  <2>7. Len(b) <= Len(tip'[n])
    BY <1>0, <2>1, <2>2 DEF Shape
  <2> QED
    BY <2>3, <2>4, <2>5, <2>6, <2>7
<1>2. CASE ~MeetsTimeBar(b)
  <2>1. known' = known /\ tip' = tip
    BY <1>2 DEF AcceptBlock
  <2> QED
    BY <1>0, <1>2, <2>1 DEF Shape
<1> QED
  BY <1>1, <1>2

(* A step that publishes nothing, lowers no tip and takes the tip for the  *)
(* parent of any new candidate keeps the invariant.                        *)
LEMMA QuietStep ==
    ASSUME ProposalInv, Shape', Published' = Published,
           \A m \in Node : Len(tip[m]) <= Len(tip'[m]),
           \A m \in Node : pc'[m] \in Working =>
               \/ pc[m] \in Working /\ cand'[m].parent = cand[m].parent
               \/ cand'[m].parent = tip[m]
    PROVE  ProposalInv'
<1>1. OneProposalPerHeight'
  BY DEF ProposalInv, OneProposalPerHeight, Genesis, Miner
<1>2. \A m \in Node : /\ Len(tip[m]) \in Nat /\ Len(tip'[m]) \in Nat
                      /\ Len(cand[m].parent) \in Nat
  BY SeqLen DEF ProposalInv, Shape
<1>3. \A b \in Published : Len(b) \in Nat
  BY SeqLen DEF ProposalInv, Shape
<1>4. PublishedBelowTip'
  <2> SUFFICES ASSUME NEW b \in Published \ {Genesis}
               PROVE  Miner(b) \in Node /\ Len(b) <= Len(tip'[Miner(b)])
    BY DEF PublishedBelowTip, Genesis, Miner
  <2>1. Miner(b) \in Node /\ Len(b) <= Len(tip[Miner(b)])
    BY DEF ProposalInv, PublishedBelowTip
  <2> QED
    BY <1>2, <1>3, <2>1
<1>5. PublishedBelowCandidate'
  <2> SUFFICES ASSUME NEW m \in Node, pc'[m] \in Working,
                      NEW b \in Published \ {Genesis}, Miner(b) = m
               PROVE  Len(b) <= Len(cand'[m].parent)
    BY DEF PublishedBelowCandidate, Genesis, Miner, Working
  <2>1. Len(b) <= Len(tip[m])
    BY DEF ProposalInv, PublishedBelowTip
  <2>2. pc[m] \in Working => Len(b) <= Len(cand[m].parent)
    BY DEF ProposalInv, PublishedBelowCandidate
  <2> QED
    BY <2>1, <2>2
<1> QED
  BY <1>1, <1>4, <1>5 DEF ProposalInv

(* The initial state.                                                      *)
LEMMA ProposalInit == Init => ProposalInv
<1> SUFFICES ASSUME Init PROVE ProposalInv
  OBVIOUS
<1>1. Published = {Genesis}
  BY DEF Init, Published
<1>2. Shape
  BY <1>1, GenesisIsSeq DEF Init, Shape
<1> QED
  BY <1>1, <1>2 DEF Init, ProposalInv, PublishedBelowTip,
     PublishedBelowCandidate, OneProposalPerHeight

(* The step that publishes: the new block lies one above the parent of the *)
(* candidate, hence above everything its miner has published.              *)
LEMMA PublishStep ==
    ASSUME ProposalInv, NEW n \in Node, ProcessNewBlock(n)
    PROVE  ProposalInv'
<1> DEFINE x == [miner |-> n, gap |-> cand[n].gap]
           b == Append(cand[n].parent, x)
<1>0. Shape
  BY DEF ProposalInv
<1>1. /\ IsSeq(b)
      /\ Len(b) = Len(cand[n].parent) + 1
      /\ b[Len(b)] = x
      /\ b # Genesis
  <2>1. IsSeq(cand[n].parent)
    BY <1>0 DEF Shape
  <2> HIDE DEF x
  <2>2. /\ IsSeq(b)
        /\ Len(b) = Len(cand[n].parent) + 1
        /\ b[Len(cand[n].parent) + 1] = x
        /\ b # Genesis
    BY <2>1, AppendBlock, Zenon
  <2> QED
    BY <2>2
<1>2. Mined(n) = b /\ Miner(b) = n
  BY <1>1 DEF Mined, Miner
<1> HIDE DEF x, b
<1>3. \A c \in Published : Len(c) \in Nat
  BY <1>0, SeqLen DEF Shape
<1>4. Len(cand[n].parent) \in Nat /\ \A m \in Node : Len(tip[m]) \in Nat
  BY <1>0, SeqLen DEF Shape
<1>5. /\ cand' = [cand EXCEPT ![n] = NoBlock]
      /\ pc' = [pc EXCEPT ![n] = "loop"]
      /\ pc[n] = "submit"
  BY DEF ProcessNewBlock, Drop, Goto, Running
<1>6. /\ DOMAIN pc' = Node /\ pc' = [m \in Node |-> pc'[m]]
      /\ DOMAIN cand' = Node /\ cand' = [m \in Node |-> cand'[m]]
      /\ \A m \in Node : IsSeq(cand'[m].parent)
      /\ \A m \in Node : pc'[m] \in Working =>
            m # n /\ pc[m] \in Working /\ cand'[m].parent = cand[m].parent
  BY <1>0, <1>5, GenesisIsSeq DEF Shape, Working
<1>7. CASE TooNew(n, cand[n].age)
  <2>1. age' = age /\ known' = known /\ tip' = tip
    BY <1>7 DEF ProcessNewBlock, chain
  <2>2. Published' = Published
    BY <2>1 DEF Published
  <2>3. Shape'
    BY <1>0, <1>6, <2>1, <2>2 DEF Shape
  <2> QED
    BY <1>4, <1>6, <2>1, <2>2, <2>3, QuietStep
<1>8. CASE ~TooNew(n, cand[n].age)
  <2>1. /\ AcceptBlock(n, b)
        /\ age' = IF MeetsTimeBar(b) /\ b \notin Published
                   THEN [c \in Published \cup {b} |->
                            IF c = b THEN cand[n].age ELSE age[c]]
                   ELSE age
    BY <1>2, <1>8 DEF ProcessNewBlock
  <2>2. /\ DOMAIN known' = Node /\ known' = [m \in Node |-> known'[m]]
        /\ \A m \in Node : \A c \in known'[m] : IsSeq(c)
        /\ DOMAIN tip' = Node /\ tip' = [m \in Node |-> tip'[m]]
        /\ \A m \in Node : IsSeq(tip'[m]) /\ Len(tip[m]) <= Len(tip'[m])
        /\ MeetsTimeBar(b) => Len(b) <= Len(tip'[n])
    BY <1>0, <1>1, <2>1, AcceptBlockRaisesTip
  <2>3. CASE ~(MeetsTimeBar(b) /\ b \notin Published)
    <3>1. Published' = Published
      BY <2>1, <2>3 DEF Published
    <3>2. Shape'
      BY <1>0, <1>6, <2>2, <3>1 DEF Shape
    <3> QED
      BY <1>6, <2>2, <3>1, <3>2, QuietStep
  <2>4. CASE MeetsTimeBar(b) /\ b \notin Published
    <3>1. Published' = Published \cup {b}
      BY <2>1, <2>4 DEF Published
    <3>2. Shape'
      BY <1>0, <1>1, <1>6, <2>2, <3>1 DEF Shape
    <3>3. \A m \in Node : Len(tip'[m]) \in Nat
      BY <2>2, SeqLen
    <3>4. PublishedBelowTip'
      <4> SUFFICES ASSUME NEW c \in (Published \cup {b}) \ {Genesis}
                   PROVE  Miner(c) \in Node /\ Len(c) <= Len(tip'[Miner(c)])
        BY <3>1 DEF PublishedBelowTip, Genesis, Miner
      <4>1. CASE c = b
        BY <1>2, <2>2, <2>4, <4>1
      <4>2. CASE c # b
        <5>1. Miner(c) \in Node /\ Len(c) <= Len(tip[Miner(c)])
          BY <4>2 DEF ProposalInv, PublishedBelowTip
        <5> QED
          BY <1>3, <1>4, <2>2, <3>3, <4>2, <5>1
      <4> QED
        BY <4>1, <4>2
    <3>5. PublishedBelowCandidate'
      <4> SUFFICES ASSUME NEW m \in Node, pc'[m] \in Working,
                          NEW c \in (Published \cup {b}) \ {Genesis},
                          Miner(c) = m
                   PROVE  Len(c) <= Len(cand'[m].parent)
        BY <3>1 DEF PublishedBelowCandidate, Genesis, Miner, Working
      <4>1. c \in Published \ {Genesis}
        BY <1>2, <1>6
      <4>2. Len(c) <= Len(cand[m].parent)
        BY <1>6, <4>1 DEF ProposalInv, PublishedBelowCandidate
      <4> QED
        BY <1>6, <4>2
    <3>6. \A c \in Published \ {Genesis} : Miner(c) = n => Len(c) # Len(b)
      <4>1. \A c \in Published \ {Genesis} :
                Miner(c) = n => Len(c) <= Len(cand[n].parent)
        BY <1>5 DEF ProposalInv, PublishedBelowCandidate, Working
      <4> QED
        BY <1>1, <1>3, <1>4, <4>1
    <3>7. OneProposalPerHeight'
      <4> SUFFICES ASSUME NEW c \in (Published \cup {b}) \ {Genesis},
                          NEW d \in (Published \cup {b}) \ {Genesis},
                          Len(c) = Len(d), Miner(c) = Miner(d)
                   PROVE  c = d
        BY <3>1 DEF OneProposalPerHeight, Genesis, Miner
      <4>1. CASE c = b \/ d = b
        BY <1>2, <3>6, <4>1
      <4>2. CASE c # b /\ d # b
        BY <4>2 DEF ProposalInv, OneProposalPerHeight
      <4> QED
        BY <4>1, <4>2
    <3> QED
      BY <3>2, <3>4, <3>5, <3>7 DEF ProposalInv
  <2> QED
    BY <2>3, <2>4
<1> QED
  BY <1>7, <1>8

(* Every step keeps the invariant.                                         *)
LEMMA ProposalNext == ProposalInv /\ [Next]_vars => ProposalInv'
<1> SUFFICES ASSUME ProposalInv, [Next]_vars PROVE ProposalInv'
  OBVIOUS
<1>0. Shape
  BY DEF ProposalInv
<1>1. \A m \in Node : Len(tip[m]) \in Nat
  BY <1>0, SeqLen DEF Shape
(* A step that leaves the blocks and the tips alone needs only what it     *)
(* does to the threads.                                                    *)
<1>2. ASSUME UNCHANGED <<age, known, tip>>,
             DOMAIN pc' = Node, pc' = [m \in Node |-> pc'[m]],
             DOMAIN cand' = Node, cand' = [m \in Node |-> cand'[m]],
             \A m \in Node : IsSeq(cand'[m].parent),
             \A m \in Node : pc'[m] \in Working =>
                 \/ pc[m] \in Working /\ cand'[m].parent = cand[m].parent
                 \/ cand'[m].parent = tip[m]
      PROVE  ProposalInv'
  <2>1. Published' = Published
    BY <1>2 DEF Published
  <2>2. Shape'
    BY <1>0, <1>2, <2>1 DEF Shape
  <2> QED
    BY <1>1, <1>2, <2>1, <2>2, QuietStep
<1>3. CASE UNCHANGED vars
  BY <1>0, <1>2, <1>3 DEF Shape, vars, chain
<1>4. ASSUME NEW n \in Node, Schedule(n) PROVE ProposalInv'
  BY <1>0, <1>2, <1>4 DEF Shape, Schedule, chain
<1>5. ASSUME NEW n \in Node, PassGate(n) PROVE ProposalInv'
  BY <1>0, <1>2, <1>5 DEF Shape, PassGate, Goto, Working, chain
<1>6. ASSUME NEW n \in Node, CreateNewBlock(n) PROVE ProposalInv'
  BY <1>0, <1>2, <1>6 DEF Shape, CreateNewBlock, Stamped, Goto, Working, chain
<1>7. ASSUME NEW n \in Node, UpdateTime(n) PROVE ProposalInv'
  <2>1. UNCHANGED <<age, known, tip>>
    BY <1>7 DEF UpdateTime, chain
  <2>2. CASE cand[n].parent = tip[n]
    BY <1>0, <1>2, <1>7, <2>1, <2>2 DEF Shape, UpdateTime, Stamped
  <2>3. CASE cand[n].parent # tip[n]
    BY <1>0, <1>2, <1>7, <2>1, <2>3, GenesisIsSeq
       DEF Shape, UpdateTime, Goto, Working
  <2> QED
    BY <2>2, <2>3
<1>8. ASSUME NEW n \in Node, BlockFound(n) PROVE ProposalInv'
  BY <1>0, <1>2, <1>8 DEF Shape, BlockFound, Running, Goto, Working, chain
<1>9. ASSUME NEW n \in Node, ProcessBlockFound(n) PROVE ProposalInv'
  BY <1>0, <1>2, <1>9, GenesisIsSeq
     DEF Shape, ProcessBlockFound, Running, Drop, Goto, Working, chain
<1>10. ASSUME NEW n \in Node, ProcessNewBlock(n) PROVE ProposalInv'
  BY <1>10, PublishStep
<1>11. ASSUME NEW n \in Node, NEW m \in Node \ {n}, NEW b \in Published,
              Receive(n, m, b)
       PROVE  ProposalInv'
  <2>1. AcceptBlock(n, b) /\ age' = age /\ pc' = pc /\ cand' = cand
    BY <1>11 DEF Receive
  <2>2. IsSeq(b)
    BY <1>0 DEF Shape
  <2>3. Published' = Published
    BY <2>1 DEF Published
  <2>4. /\ DOMAIN known' = Node /\ known' = [k \in Node |-> known'[k]]
        /\ \A k \in Node : \A c \in known'[k] : IsSeq(c)
        /\ DOMAIN tip' = Node /\ tip' = [k \in Node |-> tip'[k]]
        /\ \A k \in Node : IsSeq(tip'[k]) /\ Len(tip[k]) <= Len(tip'[k])
    BY <1>0, <2>1, <2>2, AcceptBlockRaisesTip
  <2>5. Shape'
    BY <1>0, <2>1, <2>3, <2>4 DEF Shape
  <2> QED
    BY <2>1, <2>3, <2>4, <2>5, QuietStep
<1>12. ASSUME NEW n \in Node, Pause(n) \/ Resume(n) PROVE ProposalInv'
  BY <1>0, <1>2, <1>12 DEF Shape, Pause, Resume, chain
<1>13. ASSUME NEW n \in Node, Stop(n) PROVE ProposalInv'
  <2>1. /\ age' = age /\ tip' = tip
        /\ cand' = [cand EXCEPT ![n] = NoBlock]
        /\ pc' = [pc EXCEPT ![n] = "loop"]
    BY <1>13 DEF Stop, Forget, Drop, Goto
  <2>2. PICK kept \in {known[n], Ancestors(tip[n])} :
            known' = [known EXCEPT ![n] = kept]
    BY <1>13 DEF Stop
  <2>3. \A b \in kept : IsSeq(b)
    BY <1>0, <2>2, AncestorsAreSeqs DEF Shape
  <2>4. /\ DOMAIN known' = Node /\ known' = [k \in Node |-> known'[k]]
        /\ \A k \in Node : \A c \in known'[k] : IsSeq(c)
    BY <1>0, <2>2, <2>3 DEF Shape
  <2>5. Published' = Published
    BY <2>1 DEF Published
  <2>6. Shape'
    BY <1>0, <2>1, <2>4, <2>5, GenesisIsSeq DEF Shape
  <2>7. \A k \in Node : pc'[k] \in Working =>
            pc[k] \in Working /\ cand'[k].parent = cand[k].parent
    BY <1>0, <2>1 DEF Shape, Working
  <2> QED
    BY <1>1, <2>1, <2>5, <2>6, <2>7, QuietStep
<1>14. ASSUME NEW n \in Node, Start(n) PROVE ProposalInv'
  <2>1. age' = age /\ known' = known /\ pc' = pc /\ cand' = cand
    BY <1>14 DEF Start
  <2>2. PICK b \in known[n] :
            Len(b) = Len(tip[n]) /\ tip' = [tip EXCEPT ![n] = b]
    BY <1>14 DEF Start
  <2>3. /\ DOMAIN tip' = Node /\ tip' = [k \in Node |-> tip'[k]]
        /\ \A k \in Node : IsSeq(tip'[k]) /\ Len(tip[k]) <= Len(tip'[k])
    BY <1>0, <1>1, <2>2 DEF Shape
  <2>4. Published' = Published
    BY <2>1 DEF Published
  <2>5. Shape'
    BY <1>0, <2>1, <2>3, <2>4 DEF Shape
  <2> QED
    BY <2>1, <2>3, <2>4, <2>5, QuietStep
<1>15. CASE Tick
  <2>1. known' = known /\ tip' = tip /\ pc' = pc
    BY <1>15 DEF Tick
  <2>2. cand' = [m \in Node |-> IF pc[m] \in Working
                    THEN [cand[m] EXCEPT !.age = Older(@)] ELSE cand[m]]
    BY <1>15 DEF Tick, Working
  <2>3. \A m \in Node : cand'[m].parent = cand[m].parent
    BY <2>2
  <2>4. Published' = Published
    BY <1>15 DEF Tick, Published
  <2>5. Shape'
    BY <1>0, <2>1, <2>2, <2>3, <2>4 DEF Shape
  <2> QED
    BY <1>1, <2>1, <2>3, <2>4, <2>5, QuietStep
<1> QED
  BY <1>3, <1>4, <1>5, <1>6, <1>7, <1>8, <1>9, <1>10, <1>11, <1>12, <1>13,
     <1>14, <1>15 DEF Next

(* An honest validator never has two distinct blocks of one height in the  *)
(* network, whatever restarts, pauses, clock offsets, fork-choice policies *)
(* and losses of unflushed blocks happen: the accusation of equivocation   *)
(* that malus_registry.cpp punishes never fits it.                         *)
THEOREM NeverEquivocates == Spec => []OneProposalPerHeight
<1>1. ProposalInv => OneProposalPerHeight
  BY DEF ProposalInv
<1> QED
  BY <1>1, ProposalInit, ProposalNext, PTL DEF Spec

-----------------------------------------------------------------------------
(* The miners implement BlockTree. *)

(* The relayed blocks are closed under taking parents, and everything a    *)
(* node stores, follows or builds on is one of them.                       *)
TreeInv ==
    /\ ProposalInv
    /\ Genesis \in Published
    /\ \A b \in Published : Ancestors(b) \subseteq Published
    /\ \A n \in Node : /\ known[n] \subseteq Published
                       /\ tip[n] \in Published
                       /\ cand[n].parent \in Published

(* The parent of a block put on top of p is p, and its other ancestors are *)
(* those of p.                                                             *)
LEMMA AncestorsOfChild ==
    ASSUME NEW p, IsSeq(p), NEW x
    PROVE  /\ SubSeq(Append(p, x), 1, Len(Append(p, x)) - 1) = p
           /\ Ancestors(Append(p, x)) \subseteq Ancestors(p) \cup {Append(p, x)}
<1> DEFINE b == Append(p, x)
<1>1. PICK S : p \in Seq(S) /\ x \in S
  <2>1. PICK R : p \in Seq(R)
    BY DEF IsSeq
  <2>2. p \in Seq(R \cup {x})
    BY <2>1, SMTT(30)
  <2> QED
    BY <2>2
<1>2. /\ b \in Seq(S)
      /\ Len(p) \in Nat
      /\ Len(b) = Len(p) + 1
      /\ \A j \in 1 .. Len(p) : b[j] = p[j]
  BY <1>1, AppendProperties
<1>3. ASSUME NEW i \in 0 .. Len(p)
      PROVE  SubSeq(b, 1, i) = SubSeq(p, 1, i)
  <2> HIDE DEF b
  <2>1. /\ SubSeq(b, 1, i) \in Seq(S) /\ SubSeq(p, 1, i) \in Seq(S)
        /\ Len(SubSeq(b, 1, i)) = i /\ Len(SubSeq(p, 1, i)) = i
        /\ \A j \in 1 .. i : SubSeq(b, 1, i)[j] = b[j]
        /\ \A j \in 1 .. i : SubSeq(p, 1, i)[j] = p[j]
    BY <1>1, <1>2, SMTT(30)
  <2>2. \A j \in 1 .. i : SubSeq(b, 1, i)[j] = SubSeq(p, 1, i)[j]
    BY <1>2, <2>1
  <2> QED
    BY <2>1, <2>2, SeqEqual
<1>4. SubSeq(p, 1, Len(p)) = p /\ SubSeq(b, 1, Len(b)) = b
  BY <1>1, <1>2, SubSeqFull
<1>5. SubSeq(b, 1, Len(b) - 1) = p
  BY <1>2, <1>3, <1>4
<1>6. ASSUME NEW a \in Ancestors(b)
      PROVE  a \in Ancestors(p) \cup {b}
  <2>1. PICK i \in 0 .. Len(b) : a = SubSeq(b, 1, i)
    BY DEF Ancestors, Ancestor
  <2>2. CASE i = Len(b)
    BY <1>4, <2>1, <2>2
  <2>3. CASE i # Len(b)
    <3>1. i \in 0 .. Len(p)
      BY <1>2, <2>3
    <3> QED
      BY <1>3, <2>1, <3>1 DEF Ancestors, Ancestor
  <2> QED
    BY <2>2, <2>3
<1> QED
  BY <1>5, <1>6

(* A step that relays nothing and takes node n to a block no lower, or     *)
(* moves nobody, is a step of the tree or none.                            *)
LEMMA QuietTreeStep ==
    ASSUME TreeInv, ProposalInv', Published' = Published,
           NEW n \in Node, NEW b \in Published,
           tip' = tip \/ (Len(b) >= Len(tip[n]) /\ tip' = [tip EXCEPT ![n] = b]),
           \A m \in Node : known'[m] \subseteq Published,
           \A m \in Node : cand'[m].parent \in Published
    PROVE  TreeInv' /\ [Tree!Next]_(Tree!vars)
<1>1. \A m \in Node : tip'[m] \in Published
  BY DEF TreeInv, ProposalInv, Shape
<1>2. TreeInv'
  BY <1>1 DEF TreeInv, Genesis, Ancestors, Ancestor
<1>3. CASE tip' = tip
  BY <1>2, <1>3 DEF Tree!vars
<1>4. CASE Len(b) >= Len(tip[n]) /\ tip' = [tip EXCEPT ![n] = b]
  <2>1. Tree!Adopt(n, b)
    BY <1>4 DEF Tree!Adopt
  <2> QED
    BY <1>2, <2>1 DEF Tree!Next
<1> QED
  BY <1>3, <1>4

(* The tip AcceptBlock leaves is the old one, or the block when that is no *)
(* lower; nothing but the block is stored.                                 *)
LEMMA AcceptBlockMoves ==
    ASSUME Shape, NEW n \in Node, NEW b, IsSeq(b), AcceptBlock(n, b)
    PROVE  /\ \/ tip' = tip
              \/ Len(b) >= Len(tip[n]) /\ tip' = [tip EXCEPT ![n] = b]
           /\ \A m \in Node : known'[m] \subseteq known[m] \cup {b}
<1>0. Len(b) \in Nat /\ Len(tip[n]) \in Nat
  BY SeqLen DEF Shape
<1>1. CASE MeetsTimeBar(b)
  <2> DEFINE S == scored[n] \cup {b}
  <2>1. /\ known' = [known EXCEPT ![n] = @ \cup {b}]
        /\ tip' = [tip EXCEPT ![n] = IF Better(n, S, b, tip[n]) THEN b ELSE tip[n]]
    BY <1>1 DEF AcceptBlock, Shape
  <2>2. Better(n, S, b, tip[n]) => Len(b) >= Len(tip[n])
    BY <1>0 DEF Better
  <2> HIDE DEF S
  <2>3. \A m \in Node : known'[m] \subseteq known[m] \cup {b}
    BY <2>1 DEF Shape
  <2>4. CASE Better(n, S, b, tip[n])
    BY <2>1, <2>2, <2>3, <2>4
  <2>5. CASE ~Better(n, S, b, tip[n])
    BY <2>1, <2>3, <2>5 DEF Shape
  <2> QED
    BY <2>4, <2>5
<1>2. CASE ~MeetsTimeBar(b)
  BY <1>2 DEF AcceptBlock
<1> QED
  BY <1>1, <1>2

(* The step that relays: a block on a relayed parent, the first of its     *)
(* miner at its height.                                                    *)
LEMMA PublishTreeStep ==
    ASSUME TreeInv, ProposalInv', NEW n \in Node, ProcessNewBlock(n)
    PROVE  TreeInv' /\ [Tree!Next]_(Tree!vars)
<1> DEFINE x == [miner |-> n, gap |-> cand[n].gap]
           b == Append(cand[n].parent, x)
<1>0. Shape /\ Shape'
  BY DEF TreeInv, ProposalInv
<1>1. IsSeq(cand[n].parent)
  BY <1>0 DEF Shape
<1>2. /\ IsSeq(b)
      /\ Len(b) = Len(cand[n].parent) + 1
      /\ b[Len(cand[n].parent) + 1] = x
      /\ b # Genesis
      /\ SubSeq(b, 1, Len(b) - 1) = cand[n].parent
      /\ Ancestors(b) \subseteq Ancestors(cand[n].parent) \cup {b}
  <2> HIDE DEF x
  <2> QED
    BY <1>1, AppendBlock, AncestorsOfChild, Zenon
<1>3. Mined(n) = b /\ Tree!Miner(b) = n
  BY <1>2 DEF Mined, Tree!Miner
<1> HIDE DEF x, b
<1>4. \A m \in Node : cand'[m].parent \in Published
  BY <1>0 DEF ProcessNewBlock, Drop, TreeInv, Shape, NoBlock
<1>5. CASE TooNew(n, cand[n].age)
  <2>1. age' = age /\ known' = known /\ tip' = tip
    BY <1>5 DEF ProcessNewBlock, chain
  <2>2. Published' = Published
    BY <2>1 DEF Published
  <2> QED
    BY <1>4, <2>1, <2>2, QuietTreeStep DEF TreeInv
<1>6. CASE ~TooNew(n, cand[n].age)
  <2>1. /\ AcceptBlock(n, b)
        /\ age' = IF MeetsTimeBar(b) /\ b \notin Published
                   THEN [c \in Published \cup {b} |->
                            IF c = b THEN cand[n].age ELSE age[c]]
                   ELSE age
    BY <1>3, <1>6 DEF ProcessNewBlock
  <2>2. /\ \/ tip' = tip
           \/ Len(b) >= Len(tip[n]) /\ tip' = [tip EXCEPT ![n] = b]
        /\ \A m \in Node : known'[m] \subseteq known[m] \cup {b}
    BY <1>0, <1>2, <2>1, AcceptBlockMoves
  <2>3. CASE ~MeetsTimeBar(b)
    <3>1. age' = age /\ known' = known /\ tip' = tip
      BY <2>1, <2>3 DEF AcceptBlock
    <3>2. Published' = Published
      BY <3>1 DEF Published
    <3> QED
      BY <1>4, <3>1, <3>2, QuietTreeStep DEF TreeInv
  <2>4. CASE MeetsTimeBar(b) /\ b \in Published
    <3>1. Published' = Published
      BY <2>1, <2>4 DEF Published
    <3>2. \A m \in Node : known'[m] \subseteq Published
      BY <2>2, <2>4 DEF TreeInv
    <3> QED
      BY <1>4, <2>2, <2>4, <3>1, <3>2, QuietTreeStep
  <2>5. CASE MeetsTimeBar(b) /\ b \notin Published
    <3>1. Published' = Published \cup {b}
      BY <2>1, <2>5 DEF Published
    <3>2. Len(b) <= Len(tip'[n]) /\ Len(tip[n]) <= Len(tip'[n])
      BY <1>0, <1>2, <2>1, <2>5, AcceptBlockRaisesTip
    <3>3. /\ \A m \in Node : tip'[m] \in Published'
          /\ \A m \in Node : known'[m] \subseteq Published'
      BY <1>0, <2>2, <3>1 DEF TreeInv, Shape
    <3>4. \A c \in Published' : Ancestors(c) \subseteq Published'
      BY <1>2, <3>1 DEF TreeInv
    <3>5. TreeInv'
      BY <1>4, <3>1, <3>3, <3>4 DEF TreeInv, Genesis, Ancestors, Ancestor
    <3>6. Tree!Parent(b) \in Published
      BY <1>2 DEF Tree!Parent, TreeInv
    <3>7. \A c \in Published \ {Genesis} : Miner(c) = n => Len(c) # Len(b)
      <4>1. \A c \in Published : Len(c) \in Nat
        BY <1>0, SeqLen DEF Shape
      <4>2. pc[n] \in Working /\ Len(cand[n].parent) \in Nat
        BY <1>1, SeqLen DEF ProcessNewBlock, Running, Working
      <4>3. \A c \in Published \ {Genesis} :
                Miner(c) = n => Len(c) <= Len(cand[n].parent)
        BY <4>2 DEF TreeInv, ProposalInv, PublishedBelowCandidate
      <4> QED
        BY <1>2, <4>1, <4>2, <4>3
    <3>8. \A c \in Published \ {Tree!Genesis} :
              Tree!Miner(c) = n => Len(c) # Len(b)
      BY <3>7 DEF Tree!Genesis, Genesis, Tree!Miner, Miner
    <3>9. Len(tip'[n]) >= Len(b) /\ Len(tip'[n]) >= Len(tip[n])
      <4>1. Len(tip'[n]) \in Nat /\ Len(tip[n]) \in Nat /\ Len(b) \in Nat
        BY <1>0, <1>2, SeqLen DEF Shape
      <4> QED
        BY <3>2, <4>1
    <3>10. tip'[n] \in Published' /\ tip' = [tip EXCEPT ![n] = tip'[n]]
      BY <1>0, <2>2, <3>3 DEF Shape
    <3>11. Tree!Propose(n, b)
      BY <1>3, <2>5, <3>1, <3>6, <3>8, <3>9, <3>10 DEF Tree!Propose
    <3> QED
      BY <3>1, <3>5, <3>11 DEF Tree!Next
  <2> QED
    BY <2>3, <2>4, <2>5
<1> QED
  BY <1>5, <1>6

(* Every step keeps the invariant and is a step of the tree or none.       *)
LEMMA TreeNext ==
    ASSUME TreeInv, [Next]_vars
    PROVE  TreeInv' /\ [Tree!Next]_(Tree!vars)
<1>0. Shape
  BY DEF TreeInv, ProposalInv
<1>1. ProposalInv'
  BY ProposalNext DEF TreeInv
<1>2. \A m \in Node : Len(tip[m]) \in Nat
  BY <1>0, SeqLen DEF Shape
(* A step that leaves the blocks and the tips alone.                       *)
<1>3. ASSUME UNCHANGED <<age, known, tip>>,
             \A m \in Node : cand'[m].parent \in Published
      PROVE  TreeInv' /\ [Tree!Next]_(Tree!vars)
  <2>1. Published' = Published
    BY <1>3 DEF Published
  <2>2. TreeInv'
    BY <1>1, <1>3, <2>1 DEF TreeInv, Genesis, Ancestors, Ancestor
  <2> QED
    BY <1>3, <2>1, <2>2 DEF Tree!vars
<1>4. CASE UNCHANGED vars
  BY <1>3, <1>4 DEF vars, chain, TreeInv
<1>5. ASSUME NEW n \in Node,
             Schedule(n) \/ PassGate(n) \/ BlockFound(n) \/ Pause(n) \/ Resume(n)
      PROVE  TreeInv' /\ [Tree!Next]_(Tree!vars)
  BY <1>3, <1>5 DEF TreeInv, Schedule, PassGate, BlockFound, Pause, Resume, chain
<1>6. ASSUME NEW n \in Node, CreateNewBlock(n) \/ UpdateTime(n) \/ ProcessBlockFound(n)
      PROVE  TreeInv' /\ [Tree!Next]_(Tree!vars)
  <2>1. UNCHANGED <<age, known, tip>>
    BY <1>6 DEF CreateNewBlock, UpdateTime, ProcessBlockFound, chain
  <2>2. \/ cand' = cand
        \/ cand' = [cand EXCEPT ![n] = Stamped(n, tip[n])]
        \/ cand' = [cand EXCEPT ![n] = NoBlock]
    BY <1>6 DEF CreateNewBlock, UpdateTime, ProcessBlockFound, Drop
  <2>3. \A m \in Node : cand'[m].parent \in Published
    BY <1>0, <2>2 DEF TreeInv, Shape, Stamped, NoBlock
  <2> QED
    BY <1>3, <2>1, <2>3
<1>7. ASSUME NEW n \in Node, ProcessNewBlock(n)
      PROVE  TreeInv' /\ [Tree!Next]_(Tree!vars)
  BY <1>1, <1>7, PublishTreeStep
<1>8. ASSUME NEW n \in Node, NEW m \in Node \ {n}, NEW b \in Published,
             Receive(n, m, b)
      PROVE  TreeInv' /\ [Tree!Next]_(Tree!vars)
  <2>1. AcceptBlock(n, b) /\ age' = age /\ cand' = cand
    BY <1>8 DEF Receive
  <2>2. IsSeq(b)
    BY <1>0 DEF Shape
  <2>3. Published' = Published
    BY <2>1 DEF Published
  <2>4. /\ \/ tip' = tip
           \/ Len(b) >= Len(tip[n]) /\ tip' = [tip EXCEPT ![n] = b]
        /\ \A k \in Node : known'[k] \subseteq known[k] \cup {b}
    BY <1>0, <2>1, <2>2, AcceptBlockMoves
  <2>5. \A k \in Node : known'[k] \subseteq Published /\ cand'[k].parent \in Published
    BY <2>1, <2>4 DEF TreeInv
  <2> QED
    BY <1>1, <2>3, <2>4, <2>5, QuietTreeStep
<1>9. ASSUME NEW n \in Node, Stop(n)
      PROVE  TreeInv' /\ [Tree!Next]_(Tree!vars)
  <2>1. age' = age /\ tip' = tip /\ cand' = [cand EXCEPT ![n] = NoBlock]
    BY <1>9 DEF Stop, Forget, Drop
  <2>2. PICK kept \in {known[n], Ancestors(tip[n])} :
            known' = [known EXCEPT ![n] = kept]
    BY <1>9 DEF Stop
  <2>3. kept \subseteq Published
    BY <2>2 DEF TreeInv
  <2>4. \A m \in Node : known'[m] \subseteq Published
    BY <1>0, <2>2, <2>3 DEF TreeInv, Shape
  <2>5. \A m \in Node : cand'[m].parent \in Published
    BY <1>0, <2>1 DEF TreeInv, Shape, NoBlock
  <2>6. Published' = Published
    BY <2>1 DEF Published
  <2> QED
    BY <1>1, <2>1, <2>4, <2>5, <2>6, QuietTreeStep DEF TreeInv
<1>10. ASSUME NEW n \in Node, Start(n)
       PROVE  TreeInv' /\ [Tree!Next]_(Tree!vars)
  <2>1. age' = age /\ known' = known /\ cand' = cand
    BY <1>10 DEF Start
  <2>2. PICK b \in known[n] :
            Len(b) = Len(tip[n]) /\ tip' = [tip EXCEPT ![n] = b]
    BY <1>10 DEF Start
  <2>3. b \in Published /\ Len(b) >= Len(tip[n])
    BY <1>2, <2>2 DEF TreeInv
  <2>4. Published' = Published
    BY <2>1 DEF Published
  <2> QED
    BY <1>1, <2>1, <2>2, <2>3, <2>4, QuietTreeStep DEF TreeInv
<1>11. ASSUME Tick
       PROVE  TreeInv' /\ [Tree!Next]_(Tree!vars)
  <2>1. known' = known /\ tip' = tip
    BY <1>11 DEF Tick
  <2>2. \A m \in Node : cand'[m].parent = cand[m].parent
    BY <1>11 DEF Tick
  <2>3. Published' = Published
    BY <1>11 DEF Tick, Published
  <2>4. TreeInv'
    BY <1>1, <2>1, <2>2, <2>3 DEF TreeInv, Genesis, Ancestors, Ancestor
  <2> QED
    BY <2>1, <2>3, <2>4 DEF Tree!vars
<1> QED
  BY <1>4, <1>5, <1>6, <1>7, <1>8, <1>9, <1>10, <1>11 DEF Next

(* The initial state.                                                      *)
LEMMA TreeInit == Init => TreeInv /\ Tree!Init
<1> SUFFICES ASSUME Init PROVE TreeInv /\ Tree!Init
  OBVIOUS
<1>1. Published = {Genesis}
  BY DEF Init, Published
<1>2. ASSUME NEW a \in Ancestors(Genesis) PROVE a = Genesis
  <2>1. PICK i \in 0 .. Len(Genesis) : a = SubSeq(Genesis, 1, i)
    BY DEF Ancestors, Ancestor
  <2>2. Len(Genesis) = 0 /\ SubSeq(Genesis, 1, 0) = Genesis
    BY DEF Genesis
  <2>3. i = 0
    BY <2>2
  <2> QED
    BY <2>1, <2>2, <2>3
<1>3. TreeInv
  BY <1>1, <1>2, ProposalInit DEF Init, TreeInv, NoBlock
<1> QED
  BY <1>1, <1>3 DEF Init, Tree!Init, Tree!Genesis, Genesis

(* Whatever the clocks, scores, delays, policies, pauses and restarts, the *)
(* mining threads and the fork choice implement BlockTree: the relayed     *)
(* blocks form a growing tree with one block per miner and height, and no  *)
(* node ever falls back to a lower chain.                                  *)
THEOREM MinersImplementBlockTree == Spec => ImplementsBlockTree
<1>1. Init => TreeInv /\ Tree!Init
  BY TreeInit
<1>2. TreeInv /\ [Next]_vars => TreeInv' /\ [Tree!Next]_(Tree!vars)
  BY TreeNext
<1> QED
  BY <1>1, <1>2, PTL DEF Spec, ImplementsBlockTree, Tree!Spec

-----------------------------------------------------------------------------
(* The score tie-break. *)

(* A score is a number.                                                    *)
ScoresAreNumbers == \A n \in Node : \A p : IsSeq(p) => Score(n, p) \in Int

(* The scores of two validators in the rounds of one height differ.        *)
ScoresDiffer ==
    \A m, n \in Node : \A p, q :
        IsSeq(p) /\ IsSeq(q) /\ Len(p) = Len(q) /\ Score(m, p) = Score(n, q)
            => m = n

(* What a tip is best among, at a node that uses the tie-break: the blocks *)
(* whose score it knows.  A node that is down knows none, and one loaded   *)
(* from disk as the tip loses to any that arrives with its score.          *)
BestTip(n) ==
    /\ tip[n] \in known[n]
    /\ Genesis \in known[n]
    /\ \A b \in known[n] : Len(b) <= Len(tip[n])
    /\ scored[n] \subseteq known[n] \ {Genesis}
    /\ ~online[n] => scored[n] = {}
    /\ forkScore[n] =>
         \A b \in scored[n] : Len(b) = Len(tip[n]) =>
             tip[n] \in scored[n] /\ ScoreOf(tip[n]) <= ScoreOf(b)

BestInv ==
    /\ TreeInv
    /\ DOMAIN scored = Node /\ scored = [n \in Node |-> scored[n]]
    /\ DOMAIN online = Node /\ online = [n \in Node |-> online[n]]
    /\ \A n \in Node : BestTip(n)

(* A node whose own part of the state does not change keeps its best tip.  *)
LEMMA UndisturbedTip ==
    ASSUME NEW n \in Node, BestTip(n),
           tip'[n] = tip[n], known'[n] = known[n], scored'[n] = scored[n],
           online'[n] = online[n], forkScore' = forkScore
    PROVE  BestTip(n)'
  BY DEF BestTip, ScoreOf, Miner, Parent, Genesis

(* A block's parent is a sequence one shorter.                             *)
LEMMA ParentIsSeq ==
    ASSUME NEW b, IsSeq(b), b # Genesis
    PROVE  IsSeq(Parent(b)) /\ Len(Parent(b)) = Len(b) - 1
<1>1. PICK S : b \in Seq(S)
  BY DEF IsSeq
<1>2. Len(b) \in Nat /\ Len(b) # 0
  BY <1>1, EmptySeq DEF Genesis
<1>3. ASSUME NEW i \in 0 .. Len(b)
      PROVE  SubSeq(b, 1, i) \in Seq(S) /\ Len(SubSeq(b, 1, i)) = i
  BY <1>1, <1>2, SMTT(30)
<1>4. Len(b) - 1 \in 0 .. Len(b)
  BY <1>2
<1> QED
  BY <1>3, <1>4 DEF Parent, IsSeq

(* A block a running node accepts.                                         *)
LEMMA AcceptKeepsBest ==
    ASSUME ScoresAreNumbers, BestInv, NEW n \in Node, NEW b, IsSeq(b), b # Genesis,
           Miner(b) \in Node, online[n], AcceptBlock(n, b),
           UNCHANGED <<forkScore, online>>
    PROVE  /\ DOMAIN scored' = Node /\ scored' = [m \in Node |-> scored'[m]]
           /\ \A m \in Node : BestTip(m)'
<1>0. Shape
  BY DEF BestInv, TreeInv, ProposalInv
<1>1. Len(b) \in Nat /\ Len(tip[n]) \in Nat /\ \A c \in known[n] : Len(c) \in Nat
  BY <1>0, SeqLen DEF Shape
<1>2. CASE ~MeetsTimeBar(b)
  <2>1. UNCHANGED <<known, scored, tip>>
    BY <1>2 DEF AcceptBlock
  <2> QED
    BY <2>1, UndisturbedTip DEF BestInv
<1>3. CASE MeetsTimeBar(b)
  <2>1. /\ known' = [known EXCEPT ![n] = @ \cup {b}]
        /\ scored' = [scored EXCEPT ![n] = @ \cup {b}]
        /\ tip' = [tip EXCEPT ![n] =
                      IF Better(n, scored[n] \cup {b}, b, @) THEN b ELSE @]
    BY <1>3 DEF AcceptBlock
  <2>2. /\ known'[n] = known[n] \cup {b}
        /\ scored'[n] = scored[n] \cup {b}
        /\ tip'[n] = IF Better(n, scored[n] \cup {b}, b, tip[n]) THEN b ELSE tip[n]
        /\ \A m \in Node : m # n => /\ known'[m] = known[m]
                                    /\ scored'[m] = scored[m]
                                    /\ tip'[m] = tip[m]
    BY <1>0, <2>1 DEF Shape, BestInv
  <2>3. DOMAIN scored' = Node /\ scored' = [m \in Node |-> scored'[m]]
    BY <2>1 DEF BestInv
  <2>4. ASSUME NEW m \in Node, m # n PROVE BestTip(m)'
    BY <2>2, <2>4, UndisturbedTip DEF BestInv
  <2>5. ScoreOf(b) \in Int
    BY ParentIsSeq DEF ScoreOf, ScoresAreNumbers
  <2>6. \A c \in scored[n] : ScoreOf(c) \in Int
    <3>1. \A c \in scored[n] : c \in Published \ {Genesis}
      BY DEF BestInv, BestTip, TreeInv
    <3>2. \A c \in scored[n] : Miner(c) \in Node
      BY <3>1 DEF BestInv, TreeInv, ProposalInv, PublishedBelowTip
    <3> QED
      BY <1>0, <3>1, <3>2, ParentIsSeq DEF ScoreOf, ScoresAreNumbers, Shape
  <2>7. BestTip(n)
    BY DEF BestInv
  <2>8. /\ tip'[n] \in known'[n]
        /\ Genesis \in known'[n]
        /\ \A c \in known'[n] : Len(c) <= Len(tip'[n])
        /\ scored'[n] \subseteq known'[n] \ {Genesis}
    <3>1. CASE Better(n, scored[n] \cup {b}, b, tip[n])
      <4>1. Len(b) >= Len(tip[n])
        BY <1>1, <3>1 DEF Better
      <4> QED
        BY <1>1, <2>2, <2>7, <3>1, <4>1 DEF BestTip
    <3>2. CASE ~Better(n, scored[n] \cup {b}, b, tip[n])
      <4>1. Len(b) <= Len(tip[n])
        BY <1>1, <3>2 DEF Better
      <4> QED
        BY <1>1, <2>2, <2>7, <3>2, <4>1 DEF BestTip
    <3> QED
      BY <3>1, <3>2
  <2>9. ASSUME forkScore[n], NEW c \in scored'[n], Len(c) = Len(tip'[n])
        PROVE  tip'[n] \in scored'[n] /\ ScoreOf(tip'[n]) <= ScoreOf(c)
    <3>1. CASE Len(b) > Len(tip[n])
      <4>1. tip'[n] = b
        BY <2>2, <3>1 DEF Better
      <4>2. c = b
        BY <1>1, <2>2, <2>7, <2>9, <3>1, <4>1 DEF BestTip
      <4> QED
        BY <2>2, <2>5, <4>1, <4>2
    <3>2. CASE Len(b) < Len(tip[n])
      <4>1. tip'[n] = tip[n] /\ c # b
        BY <1>1, <2>2, <2>9, <3>2 DEF Better
      <4> QED
        BY <2>2, <2>7, <2>9, <4>1 DEF BestTip
    <3>3. CASE Len(b) = Len(tip[n]) /\ tip[n] \notin scored[n] \cup {b}
      <4>1. tip'[n] = b
        BY <2>2, <2>9, <3>3 DEF Better
      <4>2. c = b
        BY <2>2, <2>7, <2>9, <3>3, <4>1 DEF BestTip
      <4> QED
        BY <2>2, <2>5, <4>1, <4>2
    <3>4. CASE Len(b) = Len(tip[n]) /\ tip[n] \in scored[n] \cup {b}
      <4>0. ScoreOf(tip[n]) \in Int /\ ScoreOf(c) \in Int
        BY <2>2, <2>5, <2>6, <2>9, <3>4
      <4>1. /\ tip'[n] \in scored[n] \cup {b}
            /\ ScoreOf(tip'[n]) <= ScoreOf(b)
            /\ ScoreOf(tip'[n]) <= ScoreOf(tip[n])
            /\ ScoreOf(tip'[n]) \in Int
            /\ Len(tip'[n]) = Len(tip[n])
        <5>1. CASE ScoreOf(b) < ScoreOf(tip[n])
          <6>1. tip'[n] = b
            BY <2>2, <2>9, <3>4, <5>1 DEF Better
          <6> QED
            BY <2>5, <3>4, <4>0, <5>1, <6>1
        <5>2. CASE ~(ScoreOf(b) < ScoreOf(tip[n]))
          <6>1. tip'[n] = tip[n]
            BY <1>1, <2>2, <3>4, <5>2 DEF Better
          <6> QED
            BY <2>5, <3>4, <4>0, <5>2, <6>1
        <5> QED
          BY <5>1, <5>2
      <4>2. CASE c = b
        BY <2>2, <4>1, <4>2
      <4>3. CASE c # b
        <5>1. c \in scored[n] /\ Len(c) = Len(tip[n])
          BY <2>2, <2>9, <4>1, <4>3
        <5>2. ScoreOf(tip[n]) <= ScoreOf(c)
          BY <2>7, <2>9, <5>1 DEF BestTip
        <5> QED
          BY <2>2, <4>0, <4>1, <5>2
      <4> QED
        BY <4>2, <4>3
    <3> QED
      BY <1>1, <3>1, <3>2, <3>3, <3>4
  <2>10. BestTip(n)'
    BY <2>8, <2>9 DEF BestTip, ScoreOf, Miner, Parent, Genesis
  <2> QED
    BY <2>3, <2>4, <2>10
<1> QED
  BY <1>2, <1>3

(* Every step keeps it.                                                    *)
LEMMA BestNext ==
    ASSUME ScoresAreNumbers, BestInv, [Next]_vars
    PROVE  BestInv'
<1>0. TreeInv /\ TreeInv' /\ Shape
  BY TreeNext DEF BestInv, TreeInv, ProposalInv
(* A step that leaves the blocks, the tips and who runs alone.             *)
<1>1. ASSUME UNCHANGED <<known, scored, tip, forkScore, online>> PROVE BestInv'
  BY <1>0, <1>1, UndisturbedTip DEF BestInv
<1>2. CASE UNCHANGED vars
  BY <1>1, <1>2 DEF vars, chain, admin
<1>3. ASSUME NEW n \in Node,
             \/ Schedule(n) \/ PassGate(n) \/ CreateNewBlock(n) \/ UpdateTime(n)
             \/ BlockFound(n) \/ ProcessBlockFound(n) \/ Pause(n) \/ Resume(n)
      PROVE  BestInv'
  BY <1>1, <1>3 DEF Schedule, PassGate, CreateNewBlock, UpdateTime, BlockFound,
     ProcessBlockFound, Pause, Resume, chain, admin
<1>4. ASSUME NEW n \in Node, NEW b, IsSeq(b), b # Genesis, Miner(b) \in Node,
             online[n], AcceptBlock(n, b), UNCHANGED <<forkScore, online>>
      PROVE  BestInv'
  <2>1. /\ DOMAIN scored' = Node /\ scored' = [m \in Node |-> scored'[m]]
        /\ \A m \in Node : BestTip(m)'
    BY <1>4, AcceptKeepsBest
  <2> QED
    BY <1>0, <1>4, <2>1 DEF BestInv
<1>5. ASSUME NEW n \in Node, ProcessNewBlock(n) PROVE BestInv'
  <2>1. CASE TooNew(n, cand[n].age)
    BY <1>1, <1>5, <2>1 DEF ProcessNewBlock, chain, admin
  <2>2. CASE ~TooNew(n, cand[n].age)
    <3> DEFINE x == [miner |-> n, gap |-> cand[n].gap]
    <3>1. /\ AcceptBlock(n, Mined(n)) /\ online[n]
          /\ UNCHANGED <<forkScore, online>>
      BY <1>5, <2>2 DEF ProcessNewBlock, Running, admin
    <3>2. Mined(n) = Append(cand[n].parent, x) /\ IsSeq(cand[n].parent)
      BY <1>0 DEF Mined, Shape
    <3>3. x.miner = n
      OBVIOUS
    <3> HIDE DEF x
    <3>4. /\ IsSeq(Mined(n)) /\ Mined(n) # Genesis
          /\ Mined(n)[Len(Mined(n))] = x
      BY <3>2, AppendBlock
    <3>5. Miner(Mined(n)) = n
      BY <3>3, <3>4 DEF Miner
    <3> QED
      BY <1>4, <3>1, <3>4, <3>5
  <2> QED
    BY <2>1, <2>2
<1>6. ASSUME NEW n \in Node, NEW m \in Node \ {n}, NEW b \in Published,
             Receive(n, m, b)
      PROVE  BestInv'
  <2>1. /\ online[n] /\ b \notin known[n] /\ AcceptBlock(n, b)
        /\ UNCHANGED <<forkScore, online>>
    BY <1>6 DEF Receive, Receivable, admin
  <2>2. b # Genesis
    BY <2>1 DEF BestInv, BestTip
  <2>3. IsSeq(b) /\ Miner(b) \in Node
    BY <1>0, <2>2 DEF Shape, TreeInv, ProposalInv, PublishedBelowTip
  <2> QED
    BY <1>4, <2>1, <2>2, <2>3
<1>7. ASSUME NEW n \in Node, Stop(n) PROVE BestInv'
  <2>1. /\ tip' = tip /\ forkScore' = forkScore
        /\ online' = [online EXCEPT ![n] = FALSE]
        /\ scored' = [scored EXCEPT ![n] = {}]
    BY <1>7 DEF Stop, Forget
  <2>2. PICK kept \in {known[n], Ancestors(tip[n])} :
            known' = [known EXCEPT ![n] = kept]
    BY <1>7 DEF Stop
  <2>3. /\ tip[n] \in kept /\ Genesis \in kept
        /\ \A b \in kept : Len(b) <= Len(tip[n])
    <3>1. CASE kept = known[n]
      BY <3>1 DEF BestInv, BestTip
    <3>2. CASE kept = Ancestors(tip[n])
      <4>1. PICK S : tip[n] \in Seq(S)
        BY <1>0 DEF Shape, IsSeq
      <4>2. Len(tip[n]) \in Nat
        BY <4>1
      <4>3. /\ SubSeq(tip[n], 1, Len(tip[n])) = tip[n]
            /\ SubSeq(tip[n], 1, 0) = Genesis
        BY <4>1, <4>2, SubSeqFull, SubSeqEmpty DEF Genesis
      <4>4. \A i \in 0 .. Len(tip[n]) : Len(SubSeq(tip[n], 1, i)) = i
        BY <4>1, <4>2, SMTT(30)
      <4>5. tip[n] \in Ancestors(tip[n]) /\ Genesis \in Ancestors(tip[n])
        BY <4>2, <4>3 DEF Ancestors, Ancestor
      <4>6. \A b \in Ancestors(tip[n]) : Len(b) <= Len(tip[n])
        BY <4>2, <4>4 DEF Ancestors, Ancestor
      <4> QED
        BY <3>2, <4>5, <4>6
    <3> QED
      BY <3>1, <3>2
  <2>4. DOMAIN scored' = Node /\ scored' = [k \in Node |-> scored'[k]]
    BY <2>1 DEF BestInv
  <2>5. DOMAIN online' = Node /\ online' = [k \in Node |-> online'[k]]
    BY <2>1 DEF BestInv
  <2>6. known'[n] = kept /\ scored'[n] = {}
    BY <1>0, <2>1, <2>2 DEF Shape, BestInv
  <2>7. BestTip(n)'
    BY <2>1, <2>3, <2>6 DEF BestTip, Genesis
  <2>8. ASSUME NEW m \in Node, m # n PROVE BestTip(m)'
    <3>1. known'[m] = known[m] /\ scored'[m] = scored[m] /\ online'[m] = online[m]
      BY <1>0, <2>1, <2>2, <2>8 DEF Shape, BestInv
    <3> QED
      BY <2>1, <3>1, UndisturbedTip DEF BestInv
  <2> QED
    BY <1>0, <2>4, <2>5, <2>7, <2>8 DEF BestInv
<1>8. ASSUME NEW n \in Node, Start(n) PROVE BestInv'
  <2>1. /\ known' = known /\ scored' = scored /\ forkScore' = forkScore
        /\ online' = [online EXCEPT ![n] = TRUE] /\ ~online[n]
    BY <1>8 DEF Start
  <2>2. PICK b \in known[n] :
            Len(b) = Len(tip[n]) /\ tip' = [tip EXCEPT ![n] = b]
    BY <1>8 DEF Start
  <2>3. DOMAIN online' = Node /\ online' = [k \in Node |-> online'[k]]
    BY <2>1 DEF BestInv
  <2>4. tip'[n] = b /\ scored[n] = {}
    BY <1>0, <2>1, <2>2 DEF Shape, BestInv, BestTip
  <2>5. BestTip(n)'
    BY <2>1, <2>2, <2>4 DEF BestInv, BestTip, Genesis
  <2>6. ASSUME NEW m \in Node, m # n PROVE BestTip(m)'
    <3>1. tip'[m] = tip[m] /\ online'[m] = online[m]
      BY <1>0, <2>1, <2>2, <2>6 DEF Shape, BestInv
    <3> QED
      BY <2>1, <3>1, UndisturbedTip DEF BestInv
  <2> QED
    BY <1>0, <2>1, <2>3, <2>5, <2>6 DEF BestInv
<1>9. CASE Tick
  BY <1>1, <1>9 DEF Tick, admin
<1> QED
  BY <1>2, <1>3, <1>5, <1>6, <1>7, <1>8, <1>9 DEF Next

(* When no two validators draw one score at a height, the tie-break makes  *)
(* the tip a function of the blocks a node holds with their scores: the    *)
(* order of arrival, the clocks and the restarts play no part.             *)
THEOREM TieBreakIgnoresArrival ==
    ASSUME ScoresAreNumbers, ScoresDiffer
    PROVE  Spec => []SameBlocksSameTip
<1>1. Init => BestInv
  <2> SUFFICES ASSUME Init PROVE BestInv
    OBVIOUS
  <2>1. \A n \in Node : BestTip(n)
    BY DEF Init, BestTip, Genesis
  <2> QED
    BY <2>1, TreeInit DEF BestInv, Init
<1>2. BestInv /\ [Next]_vars => BestInv'
  BY BestNext
<1>3. BestInv => SameBlocksSameTip
  <2> SUFFICES ASSUME BestInv, NEW m \in Node, NEW n \in Node,
                      forkScore[m], forkScore[n], known[m] = known[n],
                      scored[m] = known[m] \ {Genesis}, scored[n] = scored[m]
               PROVE  tip[m] = tip[n]
    BY DEF SameBlocksSameTip
  <2>0. Shape
    BY DEF BestInv, TreeInv, ProposalInv
  <2>1. BestTip(m) /\ BestTip(n)
    BY DEF BestInv
  <2>2. Len(tip[m]) \in Nat /\ Len(tip[n]) \in Nat
    BY <2>0, SeqLen DEF Shape
  <2>3. Len(tip[m]) = Len(tip[n])
    BY <2>1, <2>2 DEF BestTip
  <2>4. CASE Len(tip[m]) = 0
    BY <2>0, <2>3, <2>4, EmptySeq DEF Shape, IsSeq
  <2>5. CASE Len(tip[m]) # 0
    <3>1. tip[m] # Genesis /\ tip[n] # Genesis
      BY <2>3, <2>5 DEF Genesis
    <3>2. tip[m] \in scored[m] /\ tip[n] \in scored[m]
      BY <2>1, <3>1 DEF BestTip
    <3>3. ScoreOf(tip[m]) <= ScoreOf(tip[n]) /\ ScoreOf(tip[n]) <= ScoreOf(tip[m])
      BY <2>1, <2>3, <3>2 DEF BestTip
    <3>4. tip[m] \in Published \ {Genesis} /\ tip[n] \in Published \ {Genesis}
      BY <3>1 DEF BestInv, TreeInv
    <3>5. Miner(tip[m]) \in Node /\ Miner(tip[n]) \in Node
      BY <3>4 DEF BestInv, TreeInv, ProposalInv, PublishedBelowTip
    <3>6. /\ IsSeq(Parent(tip[m])) /\ IsSeq(Parent(tip[n]))
          /\ Len(Parent(tip[m])) = Len(Parent(tip[n]))
      BY <2>0, <2>3, <3>1, ParentIsSeq DEF Shape
    <3>7. ScoreOf(tip[m]) \in Int /\ ScoreOf(tip[n]) \in Int
      BY <3>5, <3>6 DEF ScoreOf, ScoresAreNumbers
    <3>8. ScoreOf(tip[m]) = ScoreOf(tip[n])
      BY <3>3, <3>7
    <3>9. Miner(tip[m]) = Miner(tip[n])
      BY <3>5, <3>6, <3>8 DEF ScoreOf, ScoresDiffer
    <3> QED
      BY <2>3, <3>4, <3>9 DEF BestInv, TreeInv, ProposalInv, OneProposalPerHeight
  <2> QED
    BY <2>4, <2>5
<1> QED
  BY <1>1, <1>2, <1>3, PTL DEF Spec
=============================================================================
