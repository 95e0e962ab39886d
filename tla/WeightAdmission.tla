--------------------------- MODULE WeightAdmission --------------------------
(***************************************************************************)
(* Who may propose a block, as each node reads it off its own copy of the  *)
(* wpoa-weights stream: StreamWeightRegistry::ReadAllRecords and its latch *)
(* in src/src/wpoa/stream_weight_registry.cpp, the miner's choice between  *)
(* scoring itself, native mining and waiting in src/src/miner/miner.cpp,   *)
(* WPoASortitionVerifyProposer in src/src/wpoa/private_sortition.cpp and   *)
(* the permanent verdict AcceptBlock and FindMostWorkChain draw from it in *)
(* src/src/core/main.cpp.                                                  *)
(*                                                                         *)
(* A block is the chain that ends in it, from the last block of the setup  *)
(* period on.  Its last element names the miner and the validators whose   *)
(* weight records it confirms.  A record always carries a positive weight  *)
(* and the newest record of an address replaces the older ones, so an      *)
(* address once in the registry of a chain stays in it; how much it weighs *)
(* only moves the delay, which is SortitionMiner's subject.  The malus is  *)
(* taken to be off.                                                        *)
(***************************************************************************)
EXTENDS Integers, Sequences, FiniteSets

CONSTANTS
    Node,         \* the nodes with mine permission
    Registered,   \* the validators weighted before the first governed block
    Networks,     \* the networks to start in, see Network
    MaxHeight,    \* bound: height of the chain
    MaxRestarts   \* bound: how often nodes restart

\* What differs between networks: the nodes subscribed to wpoa-weights from the
\* start, whether a block is delivered only after its parent's data, and the
\* nodes that may restart.
Network == [synced : SUBSET Node, parentFirst : BOOLEAN, restarting : SUBSET Node]

ASSUME AdmissionAssumption ==
    /\ Registered \subseteq Node
    /\ Networks \subseteq Network
    /\ MaxHeight \in Nat
    /\ MaxRestarts \in Nat

VARIABLES
    net,        \* the network, one of Networks
    sent,       \* the validators that broadcast their weight record
    published,  \* the blocks their miners relayed
    known,      \* node -> blocks whose data it stored
    failed,     \* node -> blocks with BLOCK_FAILED_VALID
    tip,        \* node -> chainActive.Tip()
    reads,      \* node -> it is subscribed to wpoa-weights
    electable,  \* node -> g_wpoa_ever_electable, memory only
    memo,       \* node -> the tip its mining time was set for, and how
    proposed,   \* node -> g_sortition_proposed_height, memory only
    restarts    \* number of restarts so far

vars == <<net, sent, published, known, failed, tip, reads, electable, memo,
          proposed, restarts>>

Genesis == << >>
NoPlan == [at |-> Genesis, plan |-> "none"]
Label == [miner : Node, records : SUBSET Node]
Block == Seq(Label)

Parent(b) == SubSeq(b, 1, Len(b) - 1)
Ancestor(b, i) == SubSeq(b, 1, i)
Ancestors(b) == {Ancestor(b, i) : i \in 0 .. Len(b)}
Miner(b) == b[Len(b)].miner

-----------------------------------------------------------------------------
(* The registry. *)

\* A negative bound means no bound; otherwise the parent's own records count.
WPoAWeightRecordInScopeExclusive(record_block, max_block) ==
    max_block < 0 \/ (record_block >= 0 /\ record_block < max_block)
WPoAWeightRecordInScope(record_block, max_block) ==
    max_block < 0 \/ (record_block >= 0 /\ record_block <= max_block)

\* The addresses chain c had given a weight as of height h.
RecordsAsOf(c, h) ==
    Registered \cup
    UNION {c[i].records : i \in {j \in 1 .. Len(c) : WPoAWeightRecordInScope(j, h)}}

\* GetAllNodesWeightsAsOf: the stream a node reads is that of its active chain.
GetAllNodesWeightsAsOf(n, h) == IF reads[n] THEN RecordsAsOf(tip[n], h) ELSE {}

\* ReadAllRecords sets the latch as soon as a record is in scope.
EverElectable(n, h) == electable[n] \/ GetAllNodesWeightsAsOf(n, h) # {}

-----------------------------------------------------------------------------
(* Acceptance and fork choice at a node. *)

\* WPoASortitionVerifyProposer: with an empty registry the check is skipped.
VerifyProposerUnbounded(n, b) ==
    LET weights == GetAllNodesWeightsAsOf(n, MaxHeight)
    IN  weights = {} \/ Miner(b) \in weights
VerifyProposer(n, b) ==
    LET weights == GetAllNodesWeightsAsOf(n, Len(b) - 1)
    IN  weights = {} \/ Miner(b) \in weights

Linked(S) == {b \in S : Ancestors(b) \subseteq S}
MostWork(S) == {b \in Linked(S) : \A c \in Linked(S) : Len(c) <= Len(b)}

\* setBlockIndexCandidates at the top: no block with less work than the tip.
Candidates(n, S) == {b \in MostWork(S) : Len(b) >= Len(tip[n])}

\* FindMostWorkChain: the tip stays unless there is more work.
BestTipsOfAnyWork(n, S) == Linked(S)
BestTips(n, S) ==
    LET best == Candidates(n, S)
    IN  IF best = {} \/ tip[n] \in best THEN {tip[n]} ELSE best

\* AcceptBlock, then ActivateBestChain.
AcceptBlock(n, b) ==
    /\ electable' = [electable EXCEPT ![n] = EverElectable(n, Len(b) - 1)]
    /\ IF VerifyProposer(n, b)
       THEN /\ known' = [known EXCEPT ![n] = @ \cup {b}]
            /\ \E c \in BestTips(n, known[n] \cup {b}) : tip' = [tip EXCEPT ![n] = c]
            /\ failed' = failed
       ELSE /\ failed' = [failed EXCEPT ![n] = @ \cup {b}]
            /\ UNCHANGED <<known, tip>>

-----------------------------------------------------------------------------
(* The mining thread. *)

WPoAShouldFallBackNever(proposer_found, ever_electable) == FALSE
WPoAShouldFallBackToNative(proposer_found, ever_electable) ==
    ~proposer_found /\ ~ever_electable

MayProposeOnceMore(n) ==
    /\ Len(tip[n]) <= MaxHeight
    /\ Len(tip[n]) + 1 >= proposed[n]
MayPropose(n) ==
    /\ Len(tip[n]) < MaxHeight
    /\ Len(tip[n]) + 1 > proposed[n]

\* GetMinerAndExpectedMiningStartTime: a weighted node counts its delay down,
\* another one mines natively before activation and waits after it.  The time is
\* set for a new tip, and again on the same tip when transactions arrive in a
\* mempool that was empty; the mempool's size is left open.
Decide(n) ==
    /\ MayPropose(n)
    /\ UNCHANGED <<net, sent, published, known, failed, tip, reads, proposed, restarts>>
    /\ LET h == Len(tip[n])
           scored == n \in GetAllNodesWeightsAsOf(n, h)
           plan == IF scored THEN "score"
                   ELSE IF WPoAShouldFallBackToNative(FALSE, EverElectable(n, h))
                        THEN "native" ELSE "wait"
       IN  /\ electable' = [electable EXCEPT ![n] = EverElectable(n, h)]
           /\ memo' = [memo EXCEPT ![n] = [at |-> tip[n], plan |-> plan]]

\* What CreateNewBlock may find in the mempool: of the records the chain lacks,
\* the node's own if it sent one, and any of the others.
Mempools(n) ==
    LET new == sent \ RecordsAsOf(tip[n], Len(tip[n]))
    IN  {R \in SUBSET new : new \cap {n} \subseteq R}

\* A block is found on the tip the time was set for and goes through the node's
\* own AcceptBlock first; only a block it accepts is relayed.
ProcessBlockFound(n) ==
    /\ MayPropose(n)
    /\ memo[n].at = tip[n]
    /\ tip[n] \notin failed[n]
    /\ UNCHANGED <<net, sent, reads, memo, restarts>>
    /\ proposed' = [proposed EXCEPT ![n] = Len(tip[n]) + 1]
    /\ \E records \in Mempools(n) :
          LET b == Append(tip[n], [miner |-> n, records |-> records])
          IN  /\ b \notin known[n] \cup failed[n]
              /\ AcceptBlock(n, b)
              /\ published' = IF VerifyProposer(n, b) THEN published \cup {b}
                              ELSE published

Mine(n) ==
    /\ memo[n].plan \in {"score", "native"}
    /\ ProcessBlockFound(n)

\* The hour a waiting node was given is memoised like any other time: once it
\* is over and the tip is still the same, the node mines as well.
MineAfterWait(n) ==
    /\ memo[n].plan = "wait"
    /\ ProcessBlockFound(n)

-----------------------------------------------------------------------------
(* Peers and the operator. *)

\* AcceptBlockHeader refuses a child of a failed block.
Receivable(n, b) ==
    /\ b \notin known[n] \cup failed[n]
    /\ Parent(b) \notin failed[n]
    /\ net.parentFirst => Parent(b) \in known[n]

\* A peer's block arrives.
Receive(n, b) ==
    /\ b \in published
    /\ Receivable(n, b)
    /\ UNCHANGED <<net, sent, published, reads, memo, proposed, restarts>>
    /\ AcceptBlock(n, b)

\* The subscription is in place and the rescan has read the active chain.
Subscribe(n) ==
    /\ ~reads[n]
    /\ reads' = [reads EXCEPT ![n] = TRUE]
    /\ UNCHANGED <<net, sent, published, known, failed, tip, electable, memo, proposed, restarts>>

\* RegisterLocalWeight: the record is broadcast to the peers.
RegisterLocalWeight(n) ==
    /\ reads[n]
    /\ n \notin sent \cup Registered
    /\ sent' = sent \cup {n}
    /\ UNCHANGED <<net, published, known, failed, tip, reads, electable, memo, proposed, restarts>>

\* fPassedMinerPrecheck is not stored: FindMostWorkChain judges every block of
\* the tip's height again, against the chain that was active, and the order of
\* addresses in memory picks the tip from those that pass.
Restart(n) ==
    /\ n \in net.restarting
    /\ restarts < MaxRestarts
    /\ restarts' = restarts + 1
    /\ LET rivals == Candidates(n, known[n]) \ {Genesis}
           refused == {b \in rivals : ~VerifyProposer(n, b)}
           passed == rivals \ refused
       IN  /\ known' = [known EXCEPT ![n] = @ \ refused]
           /\ failed' = [failed EXCEPT ![n] = @ \cup refused]
           /\ \E b \in IF passed = {} THEN {tip[n]} ELSE passed : tip' = [tip EXCEPT ![n] = b]
           /\ electable' = [electable EXCEPT ![n] =
                 rivals # {} /\ GetAllNodesWeightsAsOf(n, Len(tip[n]) - 1) # {}]
    /\ memo' = [memo EXCEPT ![n] = NoPlan]
    /\ proposed' = [proposed EXCEPT ![n] = -1]
    /\ UNCHANGED <<net, sent, published, reads>>

Init ==
    /\ net \in Networks
    /\ sent = {}
    /\ published = {Genesis}
    /\ known = [n \in Node |-> {Genesis}]
    /\ failed = [n \in Node |-> {}]
    /\ tip = [n \in Node |-> Genesis]
    /\ reads = [n \in Node |-> n \in net.synced]
    /\ electable = [n \in Node |-> FALSE]
    /\ memo = [n \in Node |-> NoPlan]
    /\ proposed = [n \in Node |-> -1]
    /\ restarts = 0

Next ==
    \E n \in Node :
       \/ Decide(n)
       \/ Mine(n)
       \/ MineAfterWait(n)
       \/ \E b \in published : Receive(n, b)
       \/ Subscribe(n)
       \/ RegisterLocalWeight(n)
       \/ Restart(n)

Spec == Init /\ [][Next]_vars

\* The networks progress is expected of.
Orderly == net.parentFirst /\ net.restarting = {}

\* Some node acts as long as one can: the mining threads keep running and the
\* blocks that were relayed keep arriving.  No node in particular is favoured.
Progress ==
    Orderly /\ \E n \in Node : Decide(n) \/ Mine(n) \/ \E b \in published : Receive(n, b)

FairSpec == Spec /\ WF_vars(Progress)

-----------------------------------------------------------------------------
(* Properties. *)

\* Every variable holds a value of its kind.
TypeOK ==
    /\ net \in Networks
    /\ sent \in SUBSET Node
    /\ published \in SUBSET Block
    /\ known \in [Node -> SUBSET Block]
    /\ failed \in [Node -> SUBSET Block]
    /\ tip \in [Node -> Block]
    /\ reads \in [Node -> BOOLEAN]
    /\ electable \in [Node -> BOOLEAN]
    /\ memo \in [Node -> [at : Block, plan : {"none", "score", "native", "wait"}]]
    /\ proposed \in [Node -> -1 .. MaxHeight]
    /\ restarts \in 0 .. MaxRestarts

\* Block i of chain c was mined by somebody c had weighted before it, unless c
\* had weighted nobody.
LawfulAt(c, i) ==
    LET before == Registered \cup UNION {c[j].records : j \in 1 .. i - 1}
    IN  before = {} \/ c[i].miner \in before

\* Activation is final: on every node's active chain, from the first confirmed
\* weight on, each block was mined by a validator weighted on that very chain,
\* across reorganisations and restarts that forget the latch.  Every node has
\* to be subscribed: one that is not reads an empty registry.
ActivationIsFinal ==
    net.synced = Node =>
    \A n \in Node : \A i \in 1 .. Len(tip[n]) : LawfulAt(tip[n], i)

\* A node never marks a relayed block invalid whose parent lies on its own active
\* chain: there it reads the weights the miner read, however far the node has
\* moved on since.
OwnBranchNeverRefused ==
    [][net.synced = Node =>
       \A n \in Node : \A b \in (failed'[n] \ failed[n]) \cap published :
          Parent(b) \notin Ancestors(tip[n])]_vars

\* The verdict on a block is the same wherever it is evaluated: a block stored
\* by one node is not marked invalid by another.
VerdictIsShared ==
    \A m, n \in Node : known[m] \cap failed[n] = {}

\* Once every relayed block has arrived, some node may still extend its chain:
\* it is weighted there, or nobody is and the native rules apply.
SomebodyEntitled ==
    (\A n \in Node : \A b \in published : ~Receivable(n, b)) =>
    \E n \in Node :
       LET weights == GetAllNodesWeightsAsOf(n, Len(tip[n]))
       IN  weights = {} \/ n \in weights

\* The deferred activation of GetMinerAndExpectedMiningStartTime keeps the
\* chain growing: some node gets to the last height modelled.
BootstrapAdvances ==
    Orderly => <>(\E n \in Node : Len(tip[n]) = MaxHeight)

\* Admission implements BlockTree: refusals, permanent marks and the second
\* look after a restart never take a node to a lower block, and no validator
\* relays two blocks of one height.
Tree == INSTANCE BlockTree WITH blocks <- published, head <- tip
ImplementsBlockTree == Tree!Spec
=============================================================================
