--------------------------- MODULE SortitionMiner ---------------------------
(***************************************************************************)
(* A round of private sortition (wPoA Phase 4) as the mining threads of    *)
(* several nodes run it: BitcoinMiner and the functions it calls in        *)
(* src/src/miner/miner.cpp, the already-proposed guard and the time bar of *)
(* src/src/wpoa/private_sortition.cpp, and the choice of the tip by the    *)
(* comparator of src/src/core/main.cpp.                                    *)
(*                                                                         *)
(* A block is the chain that ends in it.  Its last element names the miner *)
(* and how many seconds its nTime lies after its parent's.  Time is kept   *)
(* relative: age[b] is the seconds since b's nTime on a perfect clock and  *)
(* saturates at Horizon, so the clock itself is unbounded.                 *)
(*                                                                         *)
(* Score and Delay stand for ScoreFromVRFOutput and MiningDelay: functions *)
(* of the miner and the parent alone.  That both sides compute the same    *)
(* seed is RandaoBeacon's subject.                                         *)
(***************************************************************************)
EXTENDS Integers, Sequences, FiniteSets

CONSTANTS
    Node,          \* the validators
    Offset,        \* node -> GetAdjustedTime() minus the perfect clock
    Score(_, _),   \* miner, parent -> sortition score, lower is better
    Delay(_, _),   \* miner, parent -> mining delay in seconds
    Policies,      \* what -enablewpoaforkscore may be at the nodes
    Drift,         \* how far ahead nTime may be: 12 * TargetSpacing
    Horizon,       \* bound: ages saturate here
    MaxHeight,     \* bound: height of the chain
    MaxStops,      \* bound: how often nodes go down
    MaxPauses,     \* bound: how often mining is paused
    MaxFaults      \* bound: stops and pauses together

ASSUME SortitionAssumption ==
    /\ Offset \in [Node -> Int]
    /\ Policies \subseteq [Node -> BOOLEAN]
    /\ Drift \in Nat
    /\ Horizon \in Nat
    /\ MaxHeight \in Nat
    /\ MaxStops \in Nat
    /\ MaxPauses \in Nat
    /\ MaxFaults \in Nat

VARIABLES
    forkScore, \* node -> -enablewpoaforkscore, a local policy
    age,       \* published block -> seconds since its nTime
    known,     \* node -> blocks accepted and stored
    scored,    \* node -> blocks with dSortitionScore set, memory only
    failed,    \* node -> blocks with BLOCK_FAILED_VALID
    tip,       \* node -> chainActive.Tip()
    proposed,  \* node -> g_sortition_proposed_height, memory only
    memo,      \* node -> hLastBlockHash: {} or the tip the countdown is for
    wait,      \* node -> seconds left of the countdown
    idle,      \* node -> the countdown was set with an empty mempool
    pc,        \* node -> where the mining thread is
    cand,      \* node -> the block being mined
    paused,    \* node -> MC_NPS_MINING
    online,    \* node -> the process runs
    stops,     \* number of stops so far
    pauses     \* number of pauses so far

chain == <<age, known, scored, failed, tip>>
schedule == <<memo, wait, idle>>
admin == <<forkScore, paused, online, stops, pauses>>
vars == <<chain, proposed, schedule, pc, cand, admin>>

Genesis == << >>
NoBlock == [parent |-> Genesis, gap |-> 0, age |-> 0]
Published == DOMAIN age

Parent(b) == SubSeq(b, 1, Len(b) - 1)
Ancestor(b, i) == SubSeq(b, 1, i)
Ancestors(b) == {Ancestor(b, i) : i \in 0 .. Len(b)}
Miner(b) == b[Len(b)].miner
Gap(b) == b[Len(b)].gap

-----------------------------------------------------------------------------
(* Clocks. *)

Older(a) == IF a < Horizon THEN a + 1 ELSE a

\* GetMedianTimePast of block b, as an age: the middle of its last 11 blocks.
MedianAge(b) ==
    LET last == {i \in 0 .. Len(b) : i > Len(b) - 11}
        Age(i) == age[Ancestor(b, i)]
        half == Cardinality(last) \div 2
    IN  CHOOSE a \in {Age(i) : i \in last} :
            /\ Cardinality({i \in last : Age(i) > a}) <= half
            /\ Cardinality({i \in last : Age(i) >= a}) > half

\* UpdateTime: how far ahead of the perfect clock a block on b is stamped.
Stamp(n, b) ==
    IF Offset[n] > -MedianAge(b) THEN Offset[n] ELSE 1 - MedianAge(b)

Stamped(n, b) == [parent |-> b, gap |-> age[b] + Stamp(n, b), age |-> -Stamp(n, b)]

\* time-too-new: the receiver's adjusted clock is too far behind nTime.
TooNew(n, a) == -a > Offset[n] + Drift

-----------------------------------------------------------------------------
(* Acceptance and fork choice at a node. *)

\* WPoASortitionVerifyProposer: nTime >= parent nTime + delay.
MeetsTimeBar(b) == Gap(b) >= Delay(Miner(b), Parent(b))

ScoreOf(b) == Score(Miner(b), Parent(b))

\* CBlockIndexWorkComparator on a block b that just arrived and the tip c: work,
\* then score with an unknown score worst, then the earlier sequence id, which
\* is the tip's.  mining-diversity is taken to be 0, so nCanMine never decides.
BetterFirstSeen(n, S, b, c) == Len(b) > Len(c)
Better(n, S, b, c) ==
    \/ Len(b) > Len(c)
    \/ /\ Len(b) = Len(c)
       /\ forkScore[n]
       /\ b \in S
       /\ c \in S => ScoreOf(b) < ScoreOf(c)

\* AcceptBlock of a block whose parent is stored, and ActivateBestChain.
AcceptBlock(n, b) ==
    IF MeetsTimeBar(b)
    THEN /\ known' = [known EXCEPT ![n] = @ \cup {b}]
         /\ scored' = [scored EXCEPT ![n] = @ \cup {b}]
         /\ tip' = [tip EXCEPT ![n] =
                       IF Better(n, scored[n] \cup {b}, b, @) THEN b ELSE @]
         /\ failed' = failed
    ELSE /\ failed' = [failed EXCEPT ![n] = @ \cup {b}]
         /\ UNCHANGED <<known, scored, tip>>

-----------------------------------------------------------------------------
(* The mining thread. *)

Running(n, where) == online[n] /\ pc[n] = where
Goto(n, where) == pc' = [pc EXCEPT ![n] = where]

MarkProposed(n, h) ==
    proposed' = [proposed EXCEPT ![n] = IF h > @ THEN h ELSE @]

AlreadyProposedEager(n, h) == h <= proposed[n] + 1
AlreadyProposed(n, h) == h <= proposed[n]

\* The round of height Len(tip) + 1 is still open to the node.
MayPropose(n) ==
    /\ Len(tip[n]) < MaxHeight
    /\ ~AlreadyProposed(n, Len(tip[n]) + 1)

\* GetMinerAndExpectedMiningStartTime: the countdown is memoised under the tip.
\* It restarts for a new tip, and once for the same tip when transactions
\* arrive after it was set with an empty mempool.
Schedule(n) ==
    /\ Running(n, "loop")
    /\ MayPropose(n)
    /\ memo[n] # {tip[n]} \/ idle[n]
    /\ memo' = [memo EXCEPT ![n] = {tip[n]}]
    /\ wait' = [wait EXCEPT ![n] = Delay(n, tip[n])]
    /\ \E empty \in IF memo[n] = {tip[n]} THEN {FALSE} ELSE BOOLEAN :
          idle' = [idle EXCEPT ![n] = empty]
    /\ UNCHANGED <<chain, proposed, pc, cand, admin>>

\* The gate of the loop: the countdown is over and nothing forbids to mine.
PassGate(n) ==
    /\ Running(n, "loop")
    /\ MayPropose(n)
    /\ memo[n] = {tip[n]}
    /\ wait[n] = 0
    /\ ~idle[n]
    /\ ~paused[n]
    /\ Goto(n, "gated")
    /\ UNCHANGED <<chain, proposed, schedule, cand, admin>>

\* CreateNewBlock builds on the tip it finds, unless the countdown was for
\* another one.
CreateNewBlockUnguarded(n) ==
    /\ Running(n, "gated")
    /\ cand' = [cand EXCEPT ![n] = Stamped(n, tip[n])]
    /\ Goto(n, "scan")
    /\ UNCHANGED <<chain, proposed, schedule, admin>>

CreateNewBlock(n) ==
    /\ Running(n, "gated")
    /\ IF memo[n] = {tip[n]}
       THEN /\ cand' = [cand EXCEPT ![n] = Stamped(n, tip[n])]
            /\ Goto(n, "scan")
       ELSE /\ Goto(n, "loop")
            /\ UNCHANGED cand
    /\ UNCHANGED <<chain, proposed, schedule, admin>>

\* A round of the search without a solution: give up when the tip has moved,
\* stamp and sign again otherwise.
UpdateTime(n) ==
    /\ Running(n, "scan")
    /\ IF cand[n].parent = tip[n]
       THEN /\ cand' = [cand EXCEPT ![n] = Stamped(n, tip[n])]
            /\ UNCHANGED pc
       ELSE /\ cand' = [cand EXCEPT ![n] = NoBlock]
            /\ Goto(n, "loop")
    /\ UNCHANGED <<chain, proposed, schedule, admin>>

\* A solution is found; the height counts as proposed from here on.
BlockFound(n) ==
    /\ Running(n, "scan")
    /\ MarkProposed(n, Len(cand[n].parent) + 1)
    /\ Goto(n, "found")
    /\ UNCHANGED <<chain, schedule, cand, admin>>

Drop(n) ==
    /\ cand' = [cand EXCEPT ![n] = NoBlock]
    /\ Goto(n, "loop")

\* The first lock scope of ProcessBlockFound drops a paused or stale block.
ProcessBlockFound(n) ==
    /\ Running(n, "found")
    /\ IF paused[n] \/ cand[n].parent # tip[n]
       THEN Drop(n)
       ELSE Goto(n, "submit") /\ UNCHANGED cand
    /\ UNCHANGED <<chain, proposed, schedule, admin>>

Mined(n) == Append(cand[n].parent, [miner |-> n, gap |-> cand[n].gap])

\* ProcessNewBlock on the node's own block.  Only a block the node accepts
\* reaches its peers.
ProcessNewBlock(n) ==
    /\ Running(n, "submit")
    /\ UNCHANGED <<proposed, schedule, admin>>
    /\ Drop(n)
    /\ IF TooNew(n, cand[n].age)
       THEN UNCHANGED chain
       ELSE /\ AcceptBlock(n, Mined(n))
            /\ age' = IF MeetsTimeBar(Mined(n)) /\ Mined(n) \notin Published
                      THEN [b \in Published \cup {Mined(n)} |->
                               IF b = Mined(n) THEN cand[n].age ELSE age[b]]
                      ELSE age

-----------------------------------------------------------------------------
(* Peers, the clock and the operator. *)

\* A peer's block arrives; blocks of one branch arrive in order.
ReceivableOrphan(n, b) ==
    /\ b \notin known[n] \cup failed[n]
    /\ ~TooNew(n, age[b])
Receivable(n, b) ==
    /\ b \notin known[n] \cup failed[n]
    /\ Parent(b) \in known[n]
    /\ ~TooNew(n, age[b])

Receive(n, m, b) ==
    /\ online[n]
    /\ online[m]
    /\ b \in known[m]
    /\ Receivable(n, b)
    /\ AcceptBlock(n, b)
    /\ UNCHANGED <<age, proposed, schedule, pc, cand, admin>>

\* A second passes.
Tick ==
    /\ age' = [b \in Published |-> Older(age[b])]
    /\ wait' = [n \in Node |-> IF wait[n] > 0 THEN wait[n] - 1 ELSE 0]
    /\ cand' = [n \in Node |-> IF pc[n] \in {"scan", "found", "submit"}
                               THEN [cand[n] EXCEPT !.age = Older(@)] ELSE cand[n]]
    /\ UNCHANGED <<known, scored, failed, tip, proposed, memo, idle, pc, admin>>

\* The pause and resume commands.
Pause(n) ==
    /\ online[n] /\ ~paused[n] /\ pauses < MaxPauses
    /\ stops + pauses < MaxFaults
    /\ paused' = [paused EXCEPT ![n] = TRUE]
    /\ pauses' = pauses + 1
    /\ UNCHANGED <<chain, proposed, schedule, pc, cand, forkScore, online,
                   stops>>

Resume(n) ==
    /\ online[n] /\ paused[n]
    /\ paused' = [paused EXCEPT ![n] = FALSE]
    /\ UNCHANGED <<chain, proposed, schedule, pc, cand, forkScore, online,
                   stops, pauses>>

Forget(n) ==
    /\ online[n] /\ stops < MaxStops
    /\ stops + pauses < MaxFaults
    /\ stops' = stops + 1
    /\ online' = [online EXCEPT ![n] = FALSE]
    /\ paused' = [paused EXCEPT ![n] = FALSE]
    /\ proposed' = [proposed EXCEPT ![n] = -1]
    /\ scored' = [scored EXCEPT ![n] = {}]
    /\ memo' = [memo EXCEPT ![n] = {}]
    /\ wait' = [wait EXCEPT ![n] = 0]
    /\ idle' = [idle EXCEPT ![n] = FALSE]
    /\ Drop(n)
    /\ UNCHANGED <<age, failed, forkScore, pauses>>

\* The process ends, at any point.  ConnectTip flushes the block index and the
\* chain state, so the active chain is on disk; a block that never was part of
\* it may not be.
StopUnflushed(n) ==
    /\ Forget(n)
    /\ tip' = [tip EXCEPT ![n] = Ancestor(@, IF @ = Genesis THEN 0 ELSE Len(@) - 1)]
    /\ known' = [known EXCEPT ![n] = {b \in @ : Len(b) < Len(tip[n]) \/ b = Genesis}]
Stop(n) ==
    /\ Forget(n)
    /\ \E kept \in {known[n], Ancestors(tip[n])} : known' = [known EXCEPT ![n] = kept]
    /\ UNCHANGED tip

\* The new tip is any block found on disk.
StartAnywhere(n) ==
    /\ ~online[n]
    /\ online' = [online EXCEPT ![n] = TRUE]
    /\ \E b \in known[n] : tip' = [tip EXCEPT ![n] = b]
    /\ UNCHANGED <<age, known, scored, failed, proposed, schedule, pc, cand,
                   forkScore, paused, stops, pauses>>

\* Blocks loaded from disk have no score and sequence id 0: among those of the
\* tip's height, the order of their addresses in memory picks the new tip.
Start(n) ==
    /\ ~online[n]
    /\ online' = [online EXCEPT ![n] = TRUE]
    /\ \E b \in known[n] : Len(b) = Len(tip[n]) /\ tip' = [tip EXCEPT ![n] = b]
    /\ UNCHANGED <<age, known, scored, failed, proposed, schedule, pc, cand,
                   forkScore, paused, stops, pauses>>

Init ==
    /\ forkScore \in Policies
    /\ age = [b \in {Genesis} |-> 0]
    /\ known = [n \in Node |-> {Genesis}]
    /\ scored = [n \in Node |-> {}]
    /\ failed = [n \in Node |-> {}]
    /\ tip = [n \in Node |-> Genesis]
    /\ proposed = [n \in Node |-> -1]
    /\ memo = [n \in Node |-> {}]
    /\ wait = [n \in Node |-> 0]
    /\ idle = [n \in Node |-> FALSE]
    /\ pc = [n \in Node |-> "loop"]
    /\ cand = [n \in Node |-> NoBlock]
    /\ paused = [n \in Node |-> FALSE]
    /\ online = [n \in Node |-> TRUE]
    /\ stops = 0
    /\ pauses = 0

MinerStep(n) ==
    \/ Schedule(n) \/ PassGate(n) \/ CreateNewBlock(n)
    \/ BlockFound(n) \/ ProcessBlockFound(n) \/ ProcessNewBlock(n)

Next ==
    \/ \E n \in Node :
          \/ Schedule(n)
          \/ PassGate(n)
          \/ CreateNewBlock(n)
          \/ UpdateTime(n)
          \/ BlockFound(n)
          \/ ProcessBlockFound(n)
          \/ ProcessNewBlock(n)
          \/ \E m \in Node \ {n} : \E b \in Published : Receive(n, m, b)
          \/ Pause(n)
          \/ Resume(n)
          \/ Stop(n)
          \/ Start(n)
    \/ Tick

Spec == Init /\ [][Next]_vars

\* A block of a peer's active chain arrives.
Download(n) == \E m \in Node \ {n} : \E b \in Ancestors(tip[m]) : Receive(n, m, b)

\* Weak fairness of the mining thread, of the clock and of the download of the
\* peers' chains.  A stopped node need not start again.
FairSpec ==
    /\ Spec
    /\ WF_vars(Tick)
    /\ \A n \in Node : WF_vars(MinerStep(n)) /\ WF_vars(Download(n))

\* The same, asked only of networks where every node keeps the tip it saw first.
FirstSeen == \A n \in Node : ~forkScore[n]
FirstSeenFairSpec ==
    /\ Spec
    /\ WF_vars(FirstSeen /\ Tick)
    /\ \A n \in Node : /\ WF_vars(FirstSeen /\ MinerStep(n))
                        /\ WF_vars(FirstSeen /\ Download(n))

-----------------------------------------------------------------------------
(* Properties. *)

Places == {"loop", "gated", "scan", "found", "submit"}

IsChain(b) == b \in Seq([miner : Node, gap : Int])

\* Type invariant, with the shape of the block tree: what a node stores it
\* stores down to genesis, and its tip is one of these blocks.
TypeOK ==
    /\ \A b \in Published : IsChain(b) /\ age[b] \in Int
    /\ \A n \in Node :
        /\ Genesis \in known[n]
        /\ known[n] \subseteq Published
        /\ \A b \in known[n] : Ancestors(b) \subseteq known[n]
        /\ scored[n] \subseteq known[n] \ {Genesis}
        /\ failed[n] \cap known[n] = {}
        /\ tip[n] \in known[n]
        /\ proposed[n] \in Int
        /\ memo[n] = {} \/ \E b \in known[n] : memo[n] = {b}
        /\ wait[n] \in Nat
        /\ cand[n].parent \in known[n]
        /\ cand[n].gap \in Int /\ cand[n].age \in Int
    /\ idle \in [Node -> BOOLEAN]
    /\ pc \in [Node -> Places]
    /\ paused \in [Node -> BOOLEAN]
    /\ online \in [Node -> BOOLEAN]
    /\ stops \in 0 .. MaxStops
    /\ pauses \in 0 .. MaxPauses

\* An honest validator never publishes two blocks of one height, across
\* restarts too, though g_sortition_proposed_height is lost by one: the
\* coexistence of two blocks is what malus_registry punishes as equivocation.
OneProposalPerHeight ==
    \A b, c \in Published \ {Genesis} :
        Len(b) = Len(c) /\ Miner(b) = Miner(c) => b = c

\* When the clocks agree, no block of a miner that waited out its countdown
\* fails the time bar of WPoASortitionVerifyProposer, at itself or at a peer.
NoBlockTooEarly == \A n \in Node : failed[n] = {}

\* With the score tie-break on, two nodes that hold the same blocks with the same
\* scores stand on the same tip, whatever the order in which the blocks came.
SameBlocksSameTip ==
    \A m, n \in {x \in Node : forkScore[x]} :
        known[m] = known[n] /\ scored[m] = known[m] \ {Genesis} /\ scored[n] = scored[m]
            => tip[m] = tip[n]

\* Some block is found for every height: private_sortition.h:64-66 promises
\* that the lowest-scored validator online always eventually proposes.  A node
\* that stays online sees its tip reach the last height modelled.
ChainAdvances ==
    \A n \in Node : []<>(~online[n] \/ paused[n] \/ Len(tip[n]) = MaxHeight)

\* The same where every node keeps the tip it saw first.
FirstSeenAdvances == FirstSeen => ChainAdvances

\* The miners implement BlockTree: ProcessNewBlock, the arrival of a block, the
\* tie-break and the choice of a tip at start-up only ever extend the tree of
\* relayed blocks by an honest miner's first block of its height, and never
\* take a node down.
Tree == INSTANCE BlockTree WITH blocks <- Published, head <- tip
ImplementsBlockTree == Tree!Spec
=============================================================================
