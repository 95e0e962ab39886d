----------------------- MODULE WeightAdmissionProofs ------------------------
(***************************************************************************)
(* Theorems about WeightAdmission for any set of nodes, registry, height,  *)
(* number of restarts and networks to start in: an active chain is lawful, *)
(* a node never refuses a block of its own branch, and the admission with  *)
(* its fork choice implements BlockTree.                                   *)
(***************************************************************************)
EXTENDS WeightAdmission, SequenceTheorems, WellFoundedInduction, TLAPS

-----------------------------------------------------------------------------
(* Chains. *)

\* The addresses a chain had weighted before its block i, without the scope rule.
Before(c, i) == Registered \cup UNION {c[j].records : j \in 1 .. i - 1}

\* Every block of the chain was mined by somebody the chain entitled to it.
Lawful(c) == \A i \in 1 .. Len(c) : LawfulAt(c, i)

\* Two chains that agree below block i gave the same weights before it, and the
\* bounded read of ReadAllRecords finds exactly those.
LEMMA ScopedRead ==
    ASSUME NEW b \in Block, NEW c \in Block, NEW i \in 1 .. Len(b),
           i - 1 <= Len(c), \A j \in 1 .. i - 1 : b[j] = c[j]
    PROVE  RecordsAsOf(c, i - 1) = Before(b, i)
<1>1. {j \in 1 .. Len(c) : WPoAWeightRecordInScope(j, i - 1)} = 1 .. i - 1
  BY DEF WPoAWeightRecordInScope, Block
<1>2. {c[j].records : j \in 1 .. i - 1} = {b[j].records : j \in 1 .. i - 1}
  OBVIOUS
<1>3. QED
  BY <1>1, <1>2 DEF RecordsAsOf, Before

\* What a prefix of a chain is.
LEMMA Prefix ==
    ASSUME NEW b \in Block, NEW i \in 0 .. Len(b)
    PROVE  /\ Len(SubSeq(b, 1, i)) = i
           /\ \A j \in 1 .. i : SubSeq(b, 1, i)[j] = b[j]
<1>1. Len(b) \in Nat /\ i \in Int /\ 1 \in Int
  BY DEF Block
<1>2. \A j \in 1 .. i : b[j] \in Label
  BY <1>1 DEF Block
<1>3. /\ Len(SubSeq(b, 1, i)) = IF 1 <= i THEN i - 1 + 1 ELSE 0
      /\ \A j \in 1 .. i - 1 + 1 : SubSeq(b, 1, i)[j] = b[1 + j - 1]
  BY <1>1, <1>2, SubSeqProperties
<1>4. QED
  BY <1>1, <1>3

\* A block whose parent lies on the chain c agrees with c below itself.
LEMMA OnBranch ==
    ASSUME NEW b \in Block, NEW c \in Block, b # Genesis,
           Parent(b) \in Ancestors(c)
    PROVE  /\ Len(b) \in 1 .. Len(b)
           /\ Len(b) - 1 <= Len(c)
           /\ \A j \in 1 .. Len(b) - 1 : b[j] = c[j]
<1>1. Len(b) \in Nat /\ Len(b) # 0 /\ Len(c) \in Nat
  BY EmptySeq DEF Block, Genesis
<1>2. PICK i \in 0 .. Len(c) : Parent(b) = SubSeq(c, 1, i)
  BY DEF Ancestors, Ancestor
<1>3. Len(SubSeq(b, 1, Len(b) - 1)) = Len(b) - 1 /\ Len(SubSeq(c, 1, i)) = i
  <2>1. Len(b) - 1 \in 0 .. Len(b)
    BY <1>1
  <2>2. QED
    BY <2>1, Prefix
<1>4. i = Len(b) - 1
  BY <1>2, <1>3 DEF Parent
<1>5. ASSUME NEW j \in 1 .. Len(b) - 1
      PROVE  b[j] = c[j]
  <2>1. SubSeq(b, 1, Len(b) - 1)[j] = b[j] /\ SubSeq(c, 1, i)[j] = c[j]
    BY <1>1, <1>4, Prefix
  <2>2. QED
    BY <2>1, <1>2 DEF Parent
<1>6. QED
  BY <1>1, <1>4, <1>5

-----------------------------------------------------------------------------
(* Types. *)

\* Fork choice only ever returns stored blocks.
LEMMA CandidatesAreStored ==
    ASSUME NEW n, NEW S
    PROVE  /\ Candidates(n, S) \subseteq S
           /\ BestTips(n, S) \subseteq S \cup {tip[n]}
BY DEF BestTips, Candidates, MostWork, Linked

\* The shape of an accepted or refused block's effect, shared by its callers.
LEMMA AcceptBlockType ==
    ASSUME TypeOK, NEW n \in Node, NEW b \in Block, AcceptBlock(n, b)
    PROVE  /\ known' \in [Node -> SUBSET Block]
           /\ failed' \in [Node -> SUBSET Block]
           /\ tip' \in [Node -> Block]
           /\ electable' \in [Node -> BOOLEAN]
<1>1. EverElectable(n, Len(b) - 1) \in BOOLEAN
  BY DEF EverElectable, TypeOK
<1>2. electable' \in [Node -> BOOLEAN]
  BY <1>1 DEF AcceptBlock, TypeOK
<1>3. CASE VerifyProposer(n, b)
  <2>1. BestTips(n, known[n] \cup {b}) \subseteq Block
    BY CandidatesAreStored DEF TypeOK
  <2>2. PICK c \in Block : tip' = [tip EXCEPT ![n] = c]
    BY <1>3, <2>1 DEF AcceptBlock, TypeOK
  <2>3. tip' \in [Node -> Block]
    BY <2>2 DEF TypeOK
  <2>4. known' = [known EXCEPT ![n] = known[n] \cup {b}] /\ failed' = failed
    BY <1>3 DEF AcceptBlock
  <2>5. known[n] \cup {b} \in SUBSET Block
    BY DEF TypeOK
  <2>6. known' \in [Node -> SUBSET Block]
    BY <2>4, <2>5 DEF TypeOK
  <2>7. QED
    BY <1>2, <2>3, <2>4, <2>6 DEF TypeOK
<1>4. CASE ~VerifyProposer(n, b)
  <2>1. failed' = [failed EXCEPT ![n] = failed[n] \cup {b}]
        /\ known' = known /\ tip' = tip
    BY <1>4 DEF AcceptBlock
  <2>2. failed[n] \cup {b} \in SUBSET Block
    BY DEF TypeOK
  <2>3. failed' \in [Node -> SUBSET Block]
    BY <2>1, <2>2 DEF TypeOK
  <2>4. QED
    BY <1>2, <2>1, <2>3 DEF TypeOK
<1>5. QED
  BY <1>3, <1>4

\* Every action keeps the variables in their types, whatever the constants.
THEOREM AdmissionTypeCorrect == Spec => []TypeOK
<1>1. Init => TypeOK
  <2>1. Genesis \in Block
    BY DEF Genesis, Block
  <2>2. QED
    BY <2>1, AdmissionAssumption DEF Init, TypeOK, NoPlan
<1>2. TypeOK /\ [Next]_vars => TypeOK'
  <2> SUFFICES ASSUME TypeOK, [Next]_vars PROVE TypeOK'
    OBVIOUS
  <2>1. CASE UNCHANGED vars
    BY <2>1 DEF vars, TypeOK
  <2>2. ASSUME NEW n \in Node, Decide(n) PROVE TypeOK'
    <3>1. EverElectable(n, Len(tip[n])) \in BOOLEAN
      BY DEF EverElectable, TypeOK
    <3>2. electable' \in [Node -> BOOLEAN]
      BY <2>2, <3>1 DEF Decide, TypeOK
    <3>3. memo' \in [Node -> [at : Block, plan : {"none", "score", "native", "wait"}]]
      BY <2>2 DEF Decide, TypeOK
    <3>4. QED
      BY <2>2, <3>2, <3>3 DEF Decide, TypeOK
  <2>3. ASSUME NEW n \in Node, ProcessBlockFound(n) PROVE TypeOK'
    <3>1. PICK R \in Mempools(n) :
             LET b == Append(tip[n], [miner |-> n, records |-> R])
             IN  /\ AcceptBlock(n, b)
                 /\ published' = IF VerifyProposer(n, b) THEN published \cup {b}
                                 ELSE published
      BY <2>3 DEF ProcessBlockFound
    <3>2. R \in SUBSET Node
      BY DEF Mempools, TypeOK
    <3>3. Append(tip[n], [miner |-> n, records |-> R]) \in Block
      <4>1. [miner |-> n, records |-> R] \in Label
        BY <3>2 DEF Label
      <4>2. QED
        BY <4>1 DEF TypeOK, Block
    <3>4. published' \in SUBSET Block
      BY <3>1, <3>3 DEF TypeOK
    <3>5. Len(tip[n]) + 1 \in -1 .. MaxHeight
      BY <2>3, AdmissionAssumption DEF ProcessBlockFound, MayPropose, TypeOK, Block
    <3>6. proposed' \in [Node -> -1 .. MaxHeight]
      BY <2>3, <3>5 DEF ProcessBlockFound, TypeOK
    <3>7. QED
      BY <2>3, <3>1, <3>3, <3>4, <3>6, AcceptBlockType DEF ProcessBlockFound, TypeOK
  <2>4. ASSUME NEW n \in Node, NEW b \in published, Receive(n, b) PROVE TypeOK'
    <3>1. b \in Block
      BY DEF TypeOK
    <3>2. QED
      BY <2>4, <3>1, AcceptBlockType DEF Receive, TypeOK
  <2>5. ASSUME NEW n \in Node, Subscribe(n) PROVE TypeOK'
    BY <2>5 DEF Subscribe, TypeOK
  <2>6. ASSUME NEW n \in Node, RegisterLocalWeight(n) PROVE TypeOK'
    BY <2>6 DEF RegisterLocalWeight, TypeOK
  <2>7. ASSUME NEW n \in Node, Restart(n) PROVE TypeOK'
    <3> DEFINE rivals == Candidates(n, known[n]) \ {Genesis}
               refused == {b \in rivals : ~VerifyProposer(n, b)}
               passed == rivals \ refused
    <3>1. rivals \subseteq Block /\ refused \subseteq Block
      BY CandidatesAreStored DEF TypeOK
    <3>2. PICK c \in IF passed = {} THEN {tip[n]} ELSE passed :
             tip' = [tip EXCEPT ![n] = c]
      BY <2>7 DEF Restart
    <3>3. c \in Block
      BY <3>1 DEF TypeOK
    <3>4. tip' \in [Node -> Block]
      BY <3>2, <3>3 DEF TypeOK
    <3>5. failed' = [failed EXCEPT ![n] = @ \cup refused]
          /\ known' = [known EXCEPT ![n] = @ \ refused]
      BY <2>7 DEF Restart
    <3>6. known' \in [Node -> SUBSET Block] /\ failed' \in [Node -> SUBSET Block]
      BY <3>1, <3>5 DEF TypeOK
    <3>7. electable' \in [Node -> BOOLEAN]
      BY <2>7 DEF Restart, TypeOK
    <3>8. NoPlan \in [at : Block, plan : {"none", "score", "native", "wait"}]
      BY DEF NoPlan, Genesis, Block
    <3>9. memo' \in [Node -> [at : Block, plan : {"none", "score", "native", "wait"}]]
      BY <2>7, <3>8 DEF Restart, TypeOK
    <3>10. proposed' \in [Node -> -1 .. MaxHeight] /\ restarts' \in 0 .. MaxRestarts
      BY <2>7, AdmissionAssumption DEF Restart, TypeOK
    <3>11. QED
      BY <2>7, <3>4, <3>6, <3>7, <3>9, <3>10 DEF Restart, TypeOK
  <2>8. QED
    BY <2>1, <2>2, <2>3, <2>4, <2>5, <2>6, <2>7 DEF Next, Mine, MineAfterWait
<1>3. QED
  BY <1>1, <1>2, PTL DEF Spec

-----------------------------------------------------------------------------
(* What every node stores is lawful. *)

\* The inductive invariant, for nodes that read the stream from the start: what
\* they store was relayed, and what was relayed is lawful on its own chain.
ChainInv ==
    /\ TypeOK
    /\ \A n \in Node : reads[n]
    /\ \A n \in Node : Genesis \in known[n] /\ known[n] \subseteq published
    /\ \A n \in Node : tip[n] \in published
    /\ \A b \in published : Lawful(b)

\* A lawful block passes at every node that has its parent on its active chain.
LEMMA LawfulPasses ==
    ASSUME ChainInv, NEW n \in Node, NEW b \in published, b # Genesis,
           Parent(b) \in Ancestors(tip[n])
    PROVE  VerifyProposer(n, b)
<1>1. b \in Block /\ tip[n] \in Block
  BY DEF ChainInv, TypeOK
<1>2. /\ Len(b) \in 1 .. Len(b)
      /\ Len(b) - 1 <= Len(tip[n])
      /\ \A j \in 1 .. Len(b) - 1 : b[j] = tip[n][j]
  BY <1>1, OnBranch
<1>3. RecordsAsOf(tip[n], Len(b) - 1) = Before(b, Len(b))
  BY <1>1, <1>2, ScopedRead
<1>4. GetAllNodesWeightsAsOf(n, Len(b) - 1) = Before(b, Len(b))
  BY <1>3 DEF GetAllNodesWeightsAsOf, ChainInv
<1>5. LawfulAt(b, Len(b))
  BY <1>2 DEF ChainInv, Lawful
<1>6. Before(b, Len(b)) = {} \/ b[Len(b)].miner \in Before(b, Len(b))
  BY <1>5 DEF LawfulAt, Before
<1>7. QED
  BY <1>4, <1>6 DEF VerifyProposer, Miner

\* A block a node mines on its tip and then accepts itself is lawful.
LEMMA MinedIsLawful ==
    ASSUME ChainInv, NEW n \in Node, NEW r \in Label,
           VerifyProposer(n, Append(tip[n], r))
    PROVE  Lawful(Append(tip[n], r))
<1> DEFINE c == tip[n]
           b == Append(c, r)
<1>1. c \in Block /\ b \in Block
  BY DEF ChainInv, TypeOK, Block
<1>2. /\ Len(c) \in Nat
      /\ Len(b) = Len(c) + 1
      /\ \A j \in 1 .. Len(c) : b[j] = c[j]
  BY <1>1 DEF Block
<1>3. ASSUME NEW i \in 1 .. Len(c) PROVE LawfulAt(b, i)
  <2>1. LawfulAt(c, i)
    BY DEF ChainInv, Lawful
  <2>2. b[i] = c[i] /\ \A j \in 1 .. i - 1 : b[j] = c[j]
    BY <1>2
  <2>3. {b[j].records : j \in 1 .. i - 1} = {c[j].records : j \in 1 .. i - 1}
    BY <2>2
  <2>4. QED
    BY <2>1, <2>2, <2>3 DEF LawfulAt
<1>4. LawfulAt(b, Len(b))
  <2>1. RecordsAsOf(c, Len(b) - 1) = Before(b, Len(b))
    <3> HIDE DEF b, c
    <3>1. Len(b) \in 1 .. Len(b) /\ Len(b) - 1 <= Len(c)
          /\ \A j \in 1 .. Len(b) - 1 : b[j] = c[j]
      BY <1>2
    <3>2. QED
      BY <1>1, <3>1, ScopedRead
  <2>2. GetAllNodesWeightsAsOf(n, Len(b) - 1) = Before(b, Len(b))
    BY <2>1 DEF GetAllNodesWeightsAsOf, ChainInv
  <2>3. Before(b, Len(b)) = {} \/ b[Len(b)].miner \in Before(b, Len(b))
    BY <2>2 DEF VerifyProposer, Miner
  <2>4. QED
    BY <2>3 DEF LawfulAt, Before
<1>5. QED
  <2> HIDE DEF b, c
  <2>1. \A i \in 1 .. Len(b) : i \in 1 .. Len(c) \/ i = Len(b)
    BY <1>2
  <2>2. \A i \in 1 .. Len(b) : LawfulAt(b, i)
    BY <1>3, <1>4, <2>1
  <2>3. Lawful(b)
    BY <2>2 DEF Lawful
  <2>4. QED
    BY <2>3 DEF b, c

\* AcceptBlock stores and activates nothing but relayed blocks.
LEMMA AcceptBlockKeeps ==
    ASSUME ChainInv, NEW n \in Node, NEW b, AcceptBlock(n, b),
           published \subseteq published',
           VerifyProposer(n, b) => b \in published'
    PROVE  /\ \A m \in Node : Genesis \in known'[m] /\ known'[m] \subseteq published'
           /\ \A m \in Node : tip'[m] \in published'
<1>1. CASE VerifyProposer(n, b)
  <2>1. BestTips(n, known[n] \cup {b}) \subseteq published'
    BY <1>1, CandidatesAreStored DEF ChainInv
  <2>2. PICK c \in published' : tip' = [tip EXCEPT ![n] = c]
    BY <1>1, <2>1 DEF AcceptBlock, ChainInv
  <2>3. known' = [known EXCEPT ![n] = known[n] \cup {b}]
    BY <1>1 DEF AcceptBlock
  <2>4. QED
    BY <1>1, <2>2, <2>3 DEF ChainInv, TypeOK
<1>2. CASE ~VerifyProposer(n, b)
  BY <1>2 DEF AcceptBlock, ChainInv
<1>3. QED
  BY <1>1, <1>2

\* ChainInv where every node reads the stream from the start.
SyncedInv == net.synced = Node => ChainInv

\* The network never changes.
LEMMA NetworkIsFixed == [Next]_vars => net' = net
BY DEF Next, vars, Decide, Mine, MineAfterWait, ProcessBlockFound, Receive,
       Subscribe, RegisterLocalWeight, Restart

\* SyncedInv is an invariant.
LEMMA ChainInvHolds == Spec => []SyncedInv
<1>1. Init => SyncedInv
  <2> SUFFICES ASSUME Init, net.synced = Node PROVE ChainInv
    BY DEF SyncedInv
  <2>1. TypeOK
    <3>1. Genesis \in Block
      BY DEF Genesis, Block
    <3>2. QED
      BY <3>1, AdmissionAssumption DEF Init, TypeOK, NoPlan
  <2>2. Lawful(Genesis)
    BY DEF Lawful, Genesis
  <2>3. QED
    BY <2>1, <2>2 DEF Init, ChainInv
<1>2. TypeOK' /\ ChainInv /\ [Next]_vars => ChainInv'
  <2> SUFFICES ASSUME TypeOK', ChainInv, [Next]_vars PROVE ChainInv'
    OBVIOUS
  <2>1. CASE UNCHANGED vars
    BY <2>1 DEF vars, ChainInv
  <2>2. ASSUME NEW n \in Node, Decide(n) PROVE ChainInv'
    BY <2>2 DEF Decide, ChainInv
  <2>3. ASSUME NEW n \in Node, ProcessBlockFound(n) PROVE ChainInv'
    <3>1. PICK R \in Mempools(n) :
             LET b == Append(tip[n], [miner |-> n, records |-> R])
             IN  /\ AcceptBlock(n, b)
                 /\ published' = IF VerifyProposer(n, b) THEN published \cup {b}
                                 ELSE published
      BY <2>3 DEF ProcessBlockFound
    <3> DEFINE r == [miner |-> n, records |-> R]
               b == Append(tip[n], r)
    <3>2. r \in Label
      BY DEF Mempools, ChainInv, TypeOK, Label
    <3>3. VerifyProposer(n, b) => Lawful(b)
      BY <3>2, MinedIsLawful
    <3>4. /\ AcceptBlock(n, b)
          /\ published \subseteq published'
          /\ VerifyProposer(n, b) => b \in published'
          /\ \A x \in published' : x \in published \/ (x = b /\ VerifyProposer(n, b))
      BY <3>1
    <3> HIDE DEF b, r
    <3>5. \A x \in published' : Lawful(x)
      BY <3>3, <3>4 DEF ChainInv
    <3>6. /\ \A m \in Node : Genesis \in known'[m] /\ known'[m] \subseteq published'
          /\ \A m \in Node : tip'[m] \in published'
      BY <3>4, AcceptBlockKeeps
    <3>7. reads' = reads
      BY <2>3 DEF ProcessBlockFound
    <3>8. QED
      BY <3>5, <3>6, <3>7 DEF ChainInv
  <2>4. ASSUME NEW n \in Node, NEW b \in published, Receive(n, b) PROVE ChainInv'
    <3>1. AcceptBlock(n, b) /\ published' = published /\ reads' = reads
      BY <2>4 DEF Receive
    <3>2. /\ \A m \in Node : Genesis \in known'[m] /\ known'[m] \subseteq published'
          /\ \A m \in Node : tip'[m] \in published'
      BY <3>1, AcceptBlockKeeps
    <3>3. QED
      BY <3>1, <3>2 DEF ChainInv
  <2>5. ASSUME NEW n \in Node, Subscribe(n) PROVE ChainInv'
    BY <2>5 DEF Subscribe, ChainInv
  <2>6. ASSUME NEW n \in Node, RegisterLocalWeight(n) PROVE ChainInv'
    BY <2>6 DEF RegisterLocalWeight, ChainInv
  <2>7. ASSUME NEW n \in Node, Restart(n) PROVE ChainInv'
    <3> DEFINE rivals == Candidates(n, known[n]) \ {Genesis}
               refused == {b \in rivals : ~VerifyProposer(n, b)}
               passed == rivals \ refused
    <3>1. rivals \subseteq published /\ Genesis \notin refused
      BY CandidatesAreStored DEF ChainInv
    <3>2. PICK c \in IF passed = {} THEN {tip[n]} ELSE passed :
             tip' = [tip EXCEPT ![n] = c]
      BY <2>7 DEF Restart
    <3>3. c \in published
      BY <3>1 DEF ChainInv
    <3>4. known' = [known EXCEPT ![n] = known[n] \ refused]
          /\ published' = published /\ reads' = reads
      BY <2>7 DEF Restart
    <3> HIDE DEF refused
    <3>5. \A m \in Node : Genesis \in known'[m] /\ known'[m] \subseteq published'
      BY <3>1, <3>4 DEF ChainInv, TypeOK
    <3>6. \A m \in Node : tip'[m] \in published'
      BY <3>2, <3>3, <3>4 DEF ChainInv, TypeOK
    <3>7. QED
      BY <3>4, <3>5, <3>6 DEF ChainInv
  <2>8. QED
    BY <2>1, <2>2, <2>3, <2>4, <2>5, <2>6, <2>7 DEF Next, Mine, MineAfterWait
<1>3. TypeOK' /\ SyncedInv /\ [Next]_vars => SyncedInv'
  BY <1>2, NetworkIsFixed DEF SyncedInv
<1>4. QED
  BY <1>1, <1>3, AdmissionTypeCorrect, PTL DEF Spec

\* Activation is final at any number of nodes, forks and restarts: no active
\* chain ever holds a block by an unweighted miner above a confirmed weight.
THEOREM ActivationStaysFinal == Spec => []ActivationIsFinal
<1>1. SyncedInv => ActivationIsFinal
  BY DEF SyncedInv, ChainInv, ActivationIsFinal, Lawful
<1>2. QED
  BY <1>1, ChainInvHolds, PTL

\* What AcceptBlock adds to the blocks marked invalid.
LEMMA AcceptBlockRefuses ==
    ASSUME TypeOK, NEW n \in Node, NEW b, AcceptBlock(n, b),
           NEW m \in Node, NEW x \in failed'[m] \ failed[m]
    PROVE  m = n /\ x = b /\ ~VerifyProposer(n, b)
<1>1. CASE VerifyProposer(n, b)
  BY <1>1 DEF AcceptBlock
<1>2. CASE ~VerifyProposer(n, b)
  BY <1>2 DEF AcceptBlock, TypeOK
<1>3. QED
  BY <1>1, <1>2

\* The verdict of WPoASortitionVerifyProposer is sound on the node's own branch:
\* a relayed block is never marked invalid there, by AcceptBlock or by the
\* second look FindMostWorkChain takes after a restart.
THEOREM OwnBranchIsNeverRefused == Spec => OwnBranchNeverRefused
<1> DEFINE Step == net.synced = Node =>
                   \A n \in Node : \A b \in (failed'[n] \ failed[n]) \cap published :
                      Parent(b) \notin Ancestors(tip[n])
<1>1. SyncedInv /\ [Next]_vars => [Step]_vars
  <2> SUFFICES ASSUME ChainInv, Next,
                      NEW m \in Node, NEW x \in (failed'[m] \ failed[m]) \cap published
               PROVE  Parent(x) \notin Ancestors(tip[m])
    BY DEF SyncedInv
  <2>1. SUFFICES x # Genesis /\ ~VerifyProposer(m, x)
    BY <2>1, LawfulPasses
  <2>2. TypeOK
    BY DEF ChainInv
  <2>3. ASSUME NEW n \in Node, ProcessBlockFound(n)
        PROVE  x # Genesis /\ ~VerifyProposer(m, x)
    <3>1. PICK R \in Mempools(n) :
             AcceptBlock(n, Append(tip[n], [miner |-> n, records |-> R]))
             /\ Append(tip[n], [miner |-> n, records |-> R]) \notin known[n]
      BY <2>3 DEF ProcessBlockFound
    <3>2. QED
      BY <2>2, <3>1, AcceptBlockRefuses DEF ChainInv
  <2>4. ASSUME NEW n \in Node, NEW b \in published, Receive(n, b)
        PROVE  x # Genesis /\ ~VerifyProposer(m, x)
    <3>1. AcceptBlock(n, b) /\ b \notin known[n]
      BY <2>4 DEF Receive, Receivable
    <3>2. QED
      BY <2>2, <3>1, AcceptBlockRefuses DEF ChainInv
  <2>5. ASSUME NEW n \in Node, Restart(n)
        PROVE  x # Genesis /\ ~VerifyProposer(m, x)
    <3> DEFINE rivals == Candidates(n, known[n]) \ {Genesis}
               refused == {b \in rivals : ~VerifyProposer(n, b)}
    <3>1. failed' = [failed EXCEPT ![n] = failed[n] \cup refused]
      BY <2>5 DEF Restart
    <3> HIDE DEF refused
    <3>2. m = n /\ x \in refused
      BY <2>2, <3>1 DEF TypeOK
    <3>3. QED
      BY <3>2 DEF refused
  <2>6. ASSUME NEW n \in Node, Decide(n) \/ Subscribe(n) \/ RegisterLocalWeight(n)
        PROVE  x # Genesis /\ ~VerifyProposer(m, x)
    <3>1. failed' = failed
      BY <2>6 DEF Decide, Subscribe, RegisterLocalWeight
    <3>2. QED
      BY <3>1
  <2>7. QED
    BY <2>3, <2>4, <2>5, <2>6 DEF Next, Mine, MineAfterWait
<1>2. QED
  BY <1>1, ChainInvHolds, PTL DEF Spec, OwnBranchNeverRefused

-----------------------------------------------------------------------------
(* Admission implements BlockTree. *)

\* What a node stores and follows was relayed; what a miner relayed lies at or
\* below its tip; a tip that was not refused is stored with all its ancestors.
TreeInv ==
    /\ TypeOK
    /\ Genesis \in published
    /\ \A b \in published : Len(b) <= MaxHeight
    /\ \A b \in published \ {Genesis} : Len(b) <= Len(tip[Miner(b)])
    /\ \A n \in Node : known[n] \subseteq published /\ Genesis \in known[n]
    /\ \A n \in Node : tip[n] \in published
    /\ \A n \in Node : tip[n] \notin failed[n] => Ancestors(tip[n]) \subseteq known[n]

\* A non-empty set of naturals has a least element.
LEMMA LeastNatural ==
    ASSUME NEW T, T \subseteq Nat, T # {}
    PROVE  \E x \in T : \A y \in T : x <= y
<1> DEFINE R == OpToRel(<, Nat)
<1>1. IsWellFoundedOn(R, Nat)
  BY NatLessThanWellFounded
<1>2. \A x, y \in Nat : <<y, x>> \in R <=> y < x
  BY DEF OpToRel
<1> HIDE DEF R
<1>3. PICK x \in T : \A y \in T : ~(<<y, x>> \in R)
  BY <1>1, WFMin, Zenon
<1>4. \A y \in T : ~(y < x)
  BY <1>2, <1>3, Zenon
<1>5. \A y \in T : x <= y
  BY <1>4
<1> QED
  BY <1>5

\* Among blocks of bounded height with a linked one there is one with most work.
LEMMA MostWorkExists ==
    ASSUME NEW S, S \subseteq Block, \A c \in S : Len(c) <= MaxHeight,
           NEW b \in Linked(S)
    PROVE  \E c \in MostWork(S) : Len(c) >= Len(b)
<1> DEFINE T == {MaxHeight - Len(c) : c \in Linked(S)}
<1>1. \A c \in Linked(S) : Len(c) \in Nat /\ Len(c) <= MaxHeight
  BY DEF Linked, Block
<1>2. T \subseteq Nat /\ T # {}
  BY <1>1, AdmissionAssumption
<1>3. PICK x \in T : \A y \in T : x <= y
  <2> HIDE DEF T
  <2> QED
    BY <1>2, LeastNatural
<1>4. PICK c \in Linked(S) : x = MaxHeight - Len(c)
  OBVIOUS
<1>5. \A d \in Linked(S) : Len(d) <= Len(c)
  <2> SUFFICES ASSUME NEW d \in Linked(S) PROVE Len(d) <= Len(c)
    OBVIOUS
  <2>1. MaxHeight - Len(d) \in T
    OBVIOUS
  <2>2. MaxHeight - Len(c) <= MaxHeight - Len(d)
    BY <1>3, <1>4, <2>1
  <2> QED
    BY <1>1, <2>2, AdmissionAssumption
<1>6. c \in MostWork(S)
  BY <1>5 DEF MostWork
<1>7. Len(c) >= Len(b)
  BY <1>1, <1>5
<1> QED
  BY <1>6, <1>7

\* The tips fork choice may pick: the old one, or a linked block no lower.
LEMMA BestTipsAreNoLower ==
    ASSUME TypeOK, NEW n \in Node, NEW S, S \subseteq Block, NEW c \in BestTips(n, S)
    PROVE  /\ Len(c) >= Len(tip[n])
           /\ c = tip[n] \/ (c \in S /\ Ancestors(c) \subseteq S)
<1>1. Len(tip[n]) \in Nat
  BY DEF TypeOK, Block
<1> QED
  BY <1>1 DEF BestTips, Candidates, MostWork, Linked

\* Every block but the first has its parent below it and ends in its miner.
LEMMA ChildOfTip ==
    ASSUME TypeOK, NEW n \in Node, NEW r \in Label, r.miner = n
    PROVE  LET b == Append(tip[n], r)
           IN  /\ b \in Block
               /\ Len(b) = Len(tip[n]) + 1
               /\ b # Genesis
               /\ Miner(b) = n
               /\ Parent(b) = tip[n]
               /\ Ancestors(b) \subseteq Ancestors(tip[n]) \cup {b}
<1> DEFINE p == tip[n]
           b == Append(p, r)
<1>0. p \in Seq(Label)
  BY DEF TypeOK, Block
<1> HIDE DEF p
<1>1. /\ b \in Seq(Label)
      /\ Len(p) \in Nat
      /\ Len(b) = Len(p) + 1
      /\ b[Len(p) + 1] = r
      /\ \A j \in 1 .. Len(p) : b[j] = p[j]
  BY <1>0, AppendProperties
<1> HIDE DEF b
<1>2. ASSUME NEW i \in 0 .. Len(p)
      PROVE  SubSeq(b, 1, i) = SubSeq(p, 1, i)
  <2>1. i \in 0 .. Len(b)
    BY <1>1
  <2>2. /\ Len(SubSeq(b, 1, i)) = i /\ Len(SubSeq(p, 1, i)) = i
        /\ \A j \in 1 .. i : SubSeq(b, 1, i)[j] = b[j]
        /\ \A j \in 1 .. i : SubSeq(p, 1, i)[j] = p[j]
    BY <1>0, <1>1, <2>1, Prefix DEF Block
  <2>3. SubSeq(b, 1, i) \in Seq(Label) /\ SubSeq(p, 1, i) \in Seq(Label)
    <3>1. \A j \in 1 .. i : b[j] \in Label /\ p[j] \in Label
      BY <1>0, <1>1
    <3> QED
      BY <1>1, <3>1, SubSeqProperties
  <2>4. \A j \in 1 .. i : j \in 1 .. Len(p)
    BY <1>1
  <2>5. \A j \in 1 .. i : SubSeq(b, 1, i)[j] = SubSeq(p, 1, i)[j]
    BY <1>1, <2>2, <2>4, Zenon
  <2> QED
    BY <2>2, <2>3, <2>5, SeqEqual
<1>3. SubSeq(p, 1, Len(p)) = p /\ SubSeq(b, 1, Len(b)) = b
  BY <1>0, <1>1, SubSeqFull
<1>4. Parent(b) = p
  BY <1>1, <1>2, <1>3 DEF Parent
<1>5. ASSUME NEW a \in Ancestors(b) PROVE a \in Ancestors(p) \cup {b}
  <2>1. PICK i \in 0 .. Len(b) : a = SubSeq(b, 1, i)
    BY DEF Ancestors, Ancestor
  <2>2. CASE i = Len(b)
    BY <1>3, <2>1, <2>2
  <2>3. CASE i # Len(b)
    <3>1. i \in 0 .. Len(p)
      BY <1>1, <2>3
    <3> QED
      BY <1>2, <2>1, <3>1 DEF Ancestors, Ancestor
  <2> QED
    BY <2>2, <2>3
<1>6. b # Genesis
  <2>1. Len(Genesis) = 0
    BY DEF Genesis
  <2> QED
    BY <1>1, <2>1
<1> QED
  BY <1>1, <1>4, <1>5, <1>6 DEF b, p, Miner, Block

\* What AcceptBlock does to the node's blocks and tip.
LEMMA AcceptBlockMoves ==
    ASSUME TypeOK, TypeOK', NEW n \in Node, NEW b \in Block, AcceptBlock(n, b)
    PROVE  /\ \A m \in Node \ {n} : /\ tip'[m] = tip[m] /\ known'[m] = known[m]
                                    /\ failed'[m] = failed[m]
           /\ tip' = [tip EXCEPT ![n] = tip'[n]]
           /\ Len(tip'[n]) >= Len(tip[n])
           /\ failed[n] \subseteq failed'[n] /\ known[n] \subseteq known'[n]
           /\ known'[n] \subseteq known[n] \cup {b}
           /\ ~VerifyProposer(n, b) => known' = known /\ tip' = tip
           /\ \/ tip'[n] = tip[n]
              \/ tip'[n] \in known'[n] /\ Ancestors(tip'[n]) \subseteq known'[n]
<1>0. Len(tip[n]) \in Nat
  BY DEF TypeOK, Block
<1>1. CASE VerifyProposer(n, b)
  <2>1. PICK c \in BestTips(n, known[n] \cup {b}) : tip' = [tip EXCEPT ![n] = c]
    BY <1>1 DEF AcceptBlock
  <2>2. /\ known' = [known EXCEPT ![n] = known[n] \cup {b}]
        /\ failed' = failed
    BY <1>1 DEF AcceptBlock
  <2>3. known'[n] = known[n] \cup {b} /\ tip'[n] = c
    BY <2>1, <2>2 DEF TypeOK
  <2>4. known[n] \cup {b} \subseteq Block
    BY DEF TypeOK
  <2>5. /\ Len(c) >= Len(tip[n])
        /\ c = tip[n] \/ (c \in known[n] \cup {b} /\ Ancestors(c) \subseteq known[n] \cup {b})
    BY <2>1, <2>4, BestTipsAreNoLower
  <2>6. \A m \in Node \ {n} : tip'[m] = tip[m] /\ known'[m] = known[m]
    BY <2>1, <2>2 DEF TypeOK
  <2> QED
    BY <1>1, <2>1, <2>2, <2>3, <2>5, <2>6
<1>2. CASE ~VerifyProposer(n, b)
  <2>1. known' = known /\ tip' = tip /\ failed' = [failed EXCEPT ![n] = failed[n] \cup {b}]
    BY <1>2 DEF AcceptBlock
  <2> QED
    BY <1>0, <1>2, <2>1 DEF TypeOK
<1> QED
  BY <1>1, <1>2

\* A step that relays nothing and takes node n, if anybody, to a relayed block
\* no lower is a step of the tree or none.
LEMMA QuietTreeStep ==
    ASSUME TreeInv, TypeOK', published' = published, NEW n \in Node,
           tip' = [tip EXCEPT ![n] = tip'[n]],
           Len(tip'[n]) >= Len(tip[n]), tip'[n] \in published,
           \A m \in Node : known'[m] \subseteq published /\ Genesis \in known'[m],
           \A m \in Node :
              tip'[m] \notin failed'[m] => Ancestors(tip'[m]) \subseteq known'[m]
    PROVE  TreeInv' /\ [Tree!Next]_(Tree!vars)
<1>1. \A m \in Node : /\ Len(tip[m]) \in Nat /\ Len(tip'[m]) \in Nat
                      /\ m # n => tip'[m] = tip[m]
  BY DEF TreeInv, TypeOK, Block
<1>2. \A m \in Node : tip'[m] \in published /\ Len(tip'[m]) >= Len(tip[m])
  BY <1>1 DEF TreeInv
<1>3. \A b \in published \ {Genesis} : Len(b) <= Len(tip'[Miner(b)])
  <2> SUFFICES ASSUME NEW b \in published \ {Genesis}
               PROVE  Len(b) <= Len(tip'[Miner(b)])
    OBVIOUS
  <2>1. b \in Seq(Label) /\ Len(b) \in Nat /\ Len(b) # 0
    <3>1. b \in Seq(Label)
      BY DEF TreeInv, TypeOK, Block
    <3> QED
      BY <3>1, EmptySeq DEF Genesis
  <2>2. Miner(b) \in Node
    <3>1. Len(b) \in 1 .. Len(b)
      BY <2>1
    <3>2. b[Len(b)] \in Label
      BY <2>1, <3>1 DEF Block
    <3> QED
      BY <3>2 DEF Miner, Label
  <2>3. Len(b) <= Len(tip[Miner(b)])
    BY DEF TreeInv
  <2> QED
    BY <1>1, <1>2, <2>1, <2>2, <2>3
<1>4. TreeInv'
  BY <1>2, <1>3 DEF TreeInv, Genesis, Miner, Ancestors, Ancestor
<1>5. Tree!Adopt(n, tip'[n])
  BY DEF Tree!Adopt
<1> QED
  BY <1>4, <1>5 DEF Tree!Next

\* A node that accepts its own block on its tip moves at least as high.
LEMMA OwnBlockRaisesTip ==
    ASSUME TreeInv, NEW n \in Node, NEW b \in Block, AcceptBlock(n, b),
           VerifyProposer(n, b), tip[n] \notin failed[n],
           Len(b) = Len(tip[n]) + 1, Len(b) <= MaxHeight,
           Ancestors(b) \subseteq Ancestors(tip[n]) \cup {b}
    PROVE  Len(tip'[n]) >= Len(b)
<1> DEFINE S == known[n] \cup {b}
<1>0. Len(tip[n]) \in Nat /\ Len(b) \in Nat
  BY DEF TreeInv, TypeOK, Block
<1>1. S \subseteq Block /\ \A c \in S : Len(c) <= MaxHeight
  BY DEF TreeInv, TypeOK
<1>2. b \in Linked(S)
  BY DEF Linked, TreeInv
<1>3. PICK c \in BestTips(n, S) : tip' = [tip EXCEPT ![n] = c]
  BY DEF AcceptBlock
<1> HIDE DEF S
<1>4. PICK d \in MostWork(S) : Len(d) >= Len(b)
  BY <1>1, <1>2, MostWorkExists
<1>5. \A e \in MostWork(S) : Len(e) \in Nat /\ Len(b) <= Len(e)
  BY <1>1, <1>2 DEF MostWork, Linked, Block
<1>6. d \in Candidates(n, S) /\ tip[n] \notin Candidates(n, S)
  BY <1>0, <1>4, <1>5 DEF Candidates
<1>7. c \in Candidates(n, S)
  BY <1>3, <1>6 DEF BestTips
<1>8. Len(c) >= Len(b)
  BY <1>0, <1>5, <1>7 DEF Candidates
<1> QED
  BY <1>3, <1>8 DEF TreeInv, TypeOK

\* An ancestor of a block is the block itself or lower.
LEMMA AncestorsAreLower ==
    ASSUME NEW c \in Block, NEW a \in Ancestors(c)
    PROVE  a = c \/ (Len(a) \in Nat /\ Len(a) < Len(c))
<1>1. PICK i \in 0 .. Len(c) : a = SubSeq(c, 1, i)
  BY DEF Ancestors, Ancestor
<1>2. Len(a) = i /\ Len(c) \in Nat
  BY <1>1, Prefix DEF Block
<1>3. CASE i = Len(c)
  <2>1. SubSeq(c, 1, Len(c)) = c
    BY SubSeqFull DEF Block
  <2> QED
    BY <1>1, <1>3, <2>1
<1>4. CASE i # Len(c)
  BY <1>2, <1>4
<1> QED
  BY <1>3, <1>4

\* A restart keeps the ancestors of the tip it settles on: the blocks that
\* FindMostWorkChain refuses are none of them lower than that tip.
LEMMA RestartTreeStep ==
    ASSUME TreeInv, TypeOK', NEW n \in Node, Restart(n)
    PROVE  TreeInv' /\ [Tree!Next]_(Tree!vars)
<1> DEFINE rivals == Candidates(n, known[n]) \ {Genesis}
           refused == {b \in rivals : ~VerifyProposer(n, b)}
           passed == rivals \ refused
<1>0. TypeOK /\ known[n] \subseteq Block /\ tip[n] \in Block /\ Len(tip[n]) \in Nat
  BY DEF TreeInv, TypeOK, Block
<1>1. PICK c \in IF passed = {} THEN {tip[n]} ELSE passed :
         tip' = [tip EXCEPT ![n] = c]
  BY DEF Restart
<1>2. /\ known' = [known EXCEPT ![n] = @ \ refused]
      /\ failed' = [failed EXCEPT ![n] = @ \cup refused]
      /\ published' = published
  BY DEF Restart
<1>3. /\ known'[n] = known[n] \ refused /\ failed'[n] = failed[n] \cup refused
      /\ tip'[n] = c
      /\ \A m \in Node \ {n} : /\ known'[m] = known[m] /\ failed'[m] = failed[m]
                               /\ tip'[m] = tip[m]
  BY <1>0, <1>1, <1>2 DEF TypeOK
<1>4. \A r \in rivals : /\ r \in known[n] /\ r # Genesis
                        /\ Ancestors(r) \subseteq known[n]
                        /\ Len(r) \in Nat /\ Len(r) >= Len(tip[n])
                        /\ \A x \in rivals : Len(x) <= Len(r)
  BY <1>0 DEF Candidates, MostWork, Linked, Block
<1>5. /\ c \in Block /\ c \in published /\ Len(c) >= Len(tip[n])
      /\ c = tip[n] \/ Ancestors(c) \subseteq known[n]
      /\ \A r \in refused : Len(c) <= Len(r)
      /\ c \in refused => c = tip[n]
  <2>1. CASE passed = {}
    BY <1>0, <1>1, <1>4, <2>1 DEF TreeInv
  <2>2. CASE passed # {}
    BY <1>0, <1>1, <1>4, <2>2 DEF TreeInv
  <2> QED
    BY <2>1, <2>2
<1>6. \A r \in refused : r \in known[n] /\ r # Genesis /\ Len(r) \in Nat
  BY <1>4
<1> HIDE DEF refused, passed, rivals
<1>7. ASSUME tip'[n] \notin failed'[n] PROVE Ancestors(tip'[n]) \subseteq known'[n]
  <2>1. c \notin refused /\ Ancestors(c) \subseteq known[n]
    BY <1>3, <1>5, <1>7 DEF TreeInv
  <2>2. ASSUME NEW a \in Ancestors(c) PROVE a \notin refused
    <3>1. Len(c) \in Nat
      BY <1>5 DEF Block
    <3>2. a = c \/ (Len(a) \in Nat /\ Len(a) < Len(c))
      BY <1>5, AncestorsAreLower
    <3> QED
      BY <1>5, <1>6, <2>1, <3>1, <3>2
  <2> QED
    BY <1>3, <2>1, <2>2
<1>8. \A m \in Node : known'[m] \subseteq published /\ Genesis \in known'[m]
  BY <1>3, <1>6 DEF TreeInv
<1>9. \A m \in Node :
         tip'[m] \notin failed'[m] => Ancestors(tip'[m]) \subseteq known'[m]
  BY <1>3, <1>7 DEF TreeInv
<1>10. tip' = [tip EXCEPT ![n] = tip'[n]]
  BY <1>1, <1>3
<1> QED
  BY <1>2, <1>3, <1>5, <1>8, <1>9, <1>10, QuietTreeStep

\* A relayed block arrives.
LEMMA ReceiveTreeStep ==
    ASSUME TreeInv, TypeOK', NEW n \in Node, NEW b \in published, Receive(n, b)
    PROVE  TreeInv' /\ [Tree!Next]_(Tree!vars)
<1>1. TypeOK /\ b \in Block /\ AcceptBlock(n, b) /\ published' = published
  BY DEF TreeInv, TypeOK, Receive
<1>2. /\ \A m \in Node \ {n} : /\ tip'[m] = tip[m] /\ known'[m] = known[m]
                               /\ failed'[m] = failed[m]
      /\ tip' = [tip EXCEPT ![n] = tip'[n]]
      /\ Len(tip'[n]) >= Len(tip[n])
      /\ failed[n] \subseteq failed'[n] /\ known[n] \subseteq known'[n]
      /\ known'[n] \subseteq known[n] \cup {b}
      /\ \/ tip'[n] = tip[n]
         \/ tip'[n] \in known'[n] /\ Ancestors(tip'[n]) \subseteq known'[n]
  BY <1>1, AcceptBlockMoves
<1>3. \A m \in Node : known'[m] \subseteq published /\ Genesis \in known'[m]
  BY <1>2 DEF TreeInv
<1>4. tip'[n] \in published
  BY <1>2, <1>3 DEF TreeInv
<1>5. \A m \in Node :
         tip'[m] \notin failed'[m] => Ancestors(tip'[m]) \subseteq known'[m]
  BY <1>2 DEF TreeInv
<1> QED
  BY <1>1, <1>2, <1>3, <1>4, <1>5, QuietTreeStep

\* A node mines: the block it relays is its first of that height, because all
\* it relayed before lies at or below the tip the block extends.
LEMMA MineTreeStep ==
    ASSUME TreeInv, TypeOK', NEW n \in Node, ProcessBlockFound(n)
    PROVE  TreeInv' /\ [Tree!Next]_(Tree!vars)
<1>0. TypeOK /\ tip[n] \notin failed[n] /\ MayPropose(n) /\ tip[n] \in published
  BY DEF TreeInv, ProcessBlockFound
<1>1. PICK R \in Mempools(n) :
         LET b == Append(tip[n], [miner |-> n, records |-> R])
         IN  /\ AcceptBlock(n, b)
             /\ published' = IF VerifyProposer(n, b) THEN published \cup {b}
                             ELSE published
  BY DEF ProcessBlockFound
<1> DEFINE r == [miner |-> n, records |-> R]
           b == Append(tip[n], r)
<1>2. r \in Label /\ r.miner = n
  BY <1>0 DEF Mempools, TypeOK, Label
<1>3. /\ AcceptBlock(n, b)
      /\ published' = IF VerifyProposer(n, b) THEN published \cup {b} ELSE published
  BY <1>1
<1> HIDE DEF r
<1>4. /\ b \in Block
      /\ Len(b) = Len(tip[n]) + 1
      /\ b # Genesis
      /\ Miner(b) = n
      /\ Parent(b) = tip[n]
      /\ Ancestors(b) \subseteq Ancestors(tip[n]) \cup {b}
  BY <1>0, <1>2, ChildOfTip
<1> HIDE DEF b
<1>5. /\ \A m \in Node \ {n} : /\ tip'[m] = tip[m] /\ known'[m] = known[m]
                               /\ failed'[m] = failed[m]
      /\ tip' = [tip EXCEPT ![n] = tip'[n]]
      /\ Len(tip'[n]) >= Len(tip[n])
      /\ failed[n] \subseteq failed'[n] /\ known[n] \subseteq known'[n]
      /\ known'[n] \subseteq known[n] \cup {b}
      /\ ~VerifyProposer(n, b) => known' = known /\ tip' = tip
      /\ \/ tip'[n] = tip[n]
         \/ tip'[n] \in known'[n] /\ Ancestors(tip'[n]) \subseteq known'[n]
  BY <1>0, <1>3, <1>4, AcceptBlockMoves
<1>6. \A m \in Node :
         tip'[m] \notin failed'[m] => Ancestors(tip'[m]) \subseteq known'[m]
  BY <1>5 DEF TreeInv
<1>7. CASE ~VerifyProposer(n, b)
  BY <1>0, <1>3, <1>5, <1>6, <1>7, QuietTreeStep DEF TreeInv
<1>8. CASE VerifyProposer(n, b)
  <2>0. /\ \A m \in Node : Len(tip[m]) \in Nat /\ Len(tip'[m]) \in Nat
        /\ \A c \in published : Len(c) \in Nat
    BY <1>0 DEF TypeOK, Block
  <2>1. published' = published \cup {b}
    BY <1>3, <1>8
  <2>2. Len(b) \in Nat /\ Len(b) <= MaxHeight
    BY <1>0, <1>4, <2>0, AdmissionAssumption DEF MayPropose
  <2>3. Len(tip'[n]) >= Len(b)
    BY <1>0, <1>3, <1>4, <1>8, <2>2, OwnBlockRaisesTip
  <2>4. \A c \in published \ {Genesis} : Miner(c) = n => Len(c) # Len(b)
    <3>1. \A c \in published \ {Genesis} : Miner(c) = n => Len(c) <= Len(tip[n])
      BY DEF TreeInv
    <3> QED
      BY <1>4, <2>0, <3>1
  <2>5. b \notin published
    BY <1>4, <2>4
  <2>6. \A m \in Node : known'[m] \subseteq published' /\ Genesis \in known'[m]
    BY <1>5, <2>1 DEF TreeInv
  <2>7. \A m \in Node : tip'[m] \in published'
    BY <1>5, <2>1, <2>6 DEF TreeInv
  <2>8. \A c \in published' \ {Genesis} : Len(c) <= Len(tip'[Miner(c)])
    <3> SUFFICES ASSUME NEW c \in published' \ {Genesis}
                 PROVE  Len(c) <= Len(tip'[Miner(c)])
      OBVIOUS
    <3>1. CASE c = b
      BY <1>4, <2>0, <2>2, <2>3, <3>1
    <3>2. CASE c # b
      <4>1. c \in published \ {Genesis} /\ Len(c) <= Len(tip[Miner(c)])
        BY <2>1, <3>2 DEF TreeInv
      <4>2. CASE Miner(c) = n
        BY <1>5, <2>0, <4>1, <4>2
      <4>3. CASE Miner(c) # n
        <5>1. Miner(c) \in Node
          <6>1. c \in Seq(Label) /\ Len(c) \in Nat
            BY <1>0, <4>1 DEF TypeOK, Block
          <6>2. Len(c) \in 1 .. Len(c)
            BY <4>1, <6>1, EmptySeq DEF Genesis
          <6>3. c[Len(c)] \in Label
            BY <6>1, <6>2
          <6> QED
            BY <6>3 DEF Miner, Label
        <5> QED
          BY <1>5, <4>1, <4>3, <5>1
      <4> QED
        BY <4>2, <4>3
    <3> QED
      BY <3>1, <3>2
  <2>9. TreeInv'
    <3>1. \A c \in published' : Len(c) <= MaxHeight
      BY <2>1, <2>2 DEF TreeInv
    <3> QED
      BY <1>6, <2>1, <2>6, <2>7, <2>8, <3>1
         DEF TreeInv, Genesis, Miner, Ancestors, Ancestor
  <2>10. Tree!Propose(n, b)
    <3>1. /\ Tree!Parent(b) \in published /\ Tree!Miner(b) = n
          /\ \A c \in published \ {Tree!Genesis} :
                Tree!Miner(c) = n => Len(c) # Len(b)
      BY <1>0, <1>4, <2>4 DEF Tree!Parent, Parent, Tree!Miner, Miner, Tree!Genesis, Genesis
    <3>2. /\ tip'[n] \in published'
          /\ Len(tip'[n]) >= Len(b) /\ Len(tip'[n]) >= Len(tip[n])
          /\ tip' = [tip EXCEPT ![n] = tip'[n]]
      BY <1>5, <2>3, <2>7
    <3> QED
      BY <2>1, <2>5, <3>1, <3>2 DEF Tree!Propose
  <2> QED
    BY <2>1, <2>9, <2>10 DEF Tree!Next
<1> QED
  BY <1>7, <1>8

\* In every network, with any number of restarts, admission implements
\* BlockTree: no validator relays two blocks of one height, and neither a
\* refusal nor the second look after a restart takes a node to a lower block.
THEOREM AdmissionImplementsBlockTree == Spec => ImplementsBlockTree
<1>1. Init => TreeInv /\ Tree!Init
  <2> SUFFICES ASSUME Init PROVE TreeInv /\ Tree!Init
    OBVIOUS
  <2>1. TypeOK
    <3>1. Genesis \in Block
      BY DEF Genesis, Block
    <3> QED
      BY <3>1, AdmissionAssumption DEF Init, TypeOK, NoPlan
  <2>2. ASSUME NEW a \in Ancestors(Genesis) PROVE a = Genesis
    <3>1. PICK i \in 0 .. Len(Genesis) : a = SubSeq(Genesis, 1, i)
      BY DEF Ancestors, Ancestor
    <3>2. Len(Genesis) = 0 /\ SubSeq(Genesis, 1, 0) = Genesis
      BY DEF Genesis
    <3>3. i = 0
      BY <3>2
    <3> QED
      BY <3>1, <3>2, <3>3
  <2>3. Len(Genesis) <= MaxHeight
    BY AdmissionAssumption DEF Genesis
  <2>4. TreeInv
    BY <2>1, <2>2, <2>3 DEF Init, TreeInv
  <2> QED
    BY <2>4 DEF Init, Tree!Init, Tree!Genesis, Genesis
<1>2. TypeOK' /\ TreeInv /\ [Next]_vars => TreeInv' /\ [Tree!Next]_(Tree!vars)
  <2> SUFFICES ASSUME TypeOK', TreeInv, [Next]_vars
               PROVE  TreeInv' /\ [Tree!Next]_(Tree!vars)
    OBVIOUS
  <2>1. ASSUME UNCHANGED <<published, known, failed, tip>>
        PROVE  TreeInv' /\ [Tree!Next]_(Tree!vars)
    <3>1. TreeInv'
      BY <2>1 DEF TreeInv, Genesis, Miner, Ancestors, Ancestor
    <3> QED
      BY <2>1, <3>1 DEF Tree!vars
  <2>2. CASE UNCHANGED vars
    BY <2>1, <2>2 DEF vars
  <2>3. ASSUME NEW n \in Node, Decide(n) \/ Subscribe(n) \/ RegisterLocalWeight(n)
        PROVE  TreeInv' /\ [Tree!Next]_(Tree!vars)
    BY <2>1, <2>3 DEF Decide, Subscribe, RegisterLocalWeight
  <2>4. QED
    BY <2>2, <2>3, MineTreeStep, ReceiveTreeStep, RestartTreeStep
       DEF Next, Mine, MineAfterWait
<1> QED
  BY <1>1, <1>2, AdmissionTypeCorrect, PTL DEF Spec, ImplementsBlockTree, Tree!Spec
=============================================================================
