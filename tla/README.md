# TLA+ models of the wPoA consensus of MultiChain

This directory holds the specifications kept beside the C++ sources of this
MultiChain fork, whose own contribution is *weighted proof of authority*
(wPoA): validators publish weights on a stream, and the right to propose a
block is drawn in proportion to these weights. The modules model the parts of
that protocol, and of the native permission rules under it, in which several
nodes, threads, crashes or orders of arrival meet; TLC checks them on small
instances and TLAPS proves most of their safety properties for every instance.
Paths below are relative to the repository
(`src/wpoa/...` is `src/src/wpoa/...` in `PROJECT.json`).

## 1. The system

### Parts

| part | code | state | operations |
|---|---|---|---|
| RANDAO beacon (Phase 3b) | `src/wpoa/randao_accumulator.*` | memo block hash -> R_tot, in memory | accumulate, look back, derive the seed |
| private sortition (Phase 4) | `src/wpoa/private_sortition.*` | highest height proposed, in memory | score and delay of the local node, time bar, guard |
| mining loop | `src/miner/miner.cpp` | countdown memoised under the tip, candidate block | schedule, gate, build, re-stamp, find, submit |
| block acceptance | `src/core/main.cpp`, `src/protocol/multichainblock.cpp` | block index, data, failure flags, tip | accept header, accept block, check the miner, activate |
| fork choice | `src/core/main.cpp` | candidate set, scores (memory only), sequence ids | compare, find the most-work chain |
| managed streams | `src/wpoa/stream_setup_state.h` | latch and failure count per step | next step, record a broadcast or a failure |
| weight registry (Phase 1) | `src/wpoa/stream_weight_registry.*` | subscriptions, own record | create, subscribe, publish, read as of a height |
| weight engine | `src/weight_engine/*` | last published and last verified epoch, verdict cache | compute, publish and verify weights per epoch |
| selector (Phase 2) | `src/wpoa/wpoa_selector.*` | none | public weighted argmin |
| malus registry | `src/wpoa/malus_*` | reports on a stream | publish, validate, accumulate penalties |
| VRF | `src/wpoa/vrf_wrapper.*` | none | prove, verify |
| permissions | `src/permissions/permission.*`, `src/protocol/multichainblock.cpp` | ledger file, database, memory pool, counts | look up, grant, verify a side branch, commit, roll back, repair |
| other native parts | entities, mempool, wallet, chunks, filters, network | databases, queues | inherited |

### How they interact

The mining loop asks the sortition for a delay, which depends on the score of a
VRF over the beacon seed of the tip. It builds a block once the delay has
passed and submits it to the node's own block acceptance. A peer recomputes
seed, score and delay from the block's parent and refuses the block for good
when the reveal does not verify or `nTime` is too early. Accepted blocks
compete in the fork choice; the new tip restarts the loop. The weights that all
of this uses come from the stream `wpoa-weights`, which some node must create,
everyone must subscribe to, and each validator publishes on. The weight engine
computes a validator's weight from the blocks of a buried epoch and checks what
the others published; the malus registry lowers the weights of validators that
somebody reported, if the reader can verify the report. Who may mine and
administer at all, and who governs the blocks before the sortition takes over,
is the business of the native permission store, which has to follow every
reorganisation and survive every crash.

### What is hard here

* A refusal at `AcceptBlock` is permanent (`BLOCK_FAILED_VALID` is on disk), so
  a verdict computed from state that is merely late divides the network.
* Memos and guards are keyed by hash, by height or by tip, and survive
  reorganisations, or do not survive restarts.
* Locks are released between a check and the step that relies on it.
* Clocks differ, and delays are measured against other nodes' timestamps.
* Transactions are "sent" long before they are confirmed, and may never be.
* The same fact is read at different tips, or from different evidence, by the
  one who acts on it and the one who judges the act.
* The permission store is a file and a database that a crash leaves at
  different blocks, and it is made to look like another branch's while a block
  of that branch is judged.

### What should hold

The memo always agrees with the chain; the verdict on a block depends on the
block's chain alone; a validator proposes one block per height, across
crashes; equal candidates lead to equal tips; the chain advances while
someone is online; a latched step always has a transaction behind it; everyone
ends up on the one confirmed stream; a buried epoch never changes and nobody is
accused of a weight they computed rightly; false reports move no weight and no
exclusion is permanent; a permission store equals that of a node which only ever
saw the active chain. The hazards in `PROJECT.json` list where
in the code each of these could fail.

## 2. Modules

### BlockTree

The abstract specification of mining: a tree of relayed blocks that only grows,
at most one block of a height by the same miner, and one tip per node whose
height never falls. It has two actions, `Propose` and `Adopt`, and says nothing
of when a node may mine or which branch it prefers. SortitionMiner and
WeightAdmission implement it (`blocks <- Published` or `published`,
`head <- tip`): however a round is scheduled, whoever is eligible, and whatever
a crash, a refusal or a second look at start-up does, each step is a step of
this tree or leaves it alone.

### RandaoBeacon

Models `GetAccumulator`, its memo, `WPoARandaoSelectionSeed`, and their use by
a miner (`CreateBlockSignature`) and a validator (`VerifyBlockMinerWPoA` called
from `AcceptBlock`).

| model | code |
|---|---|
| a block: the sequence of labels from genesis | `CBlockIndex`; the hash commits to the ancestors |
| `headers`, `data`, `failed`, `tip` | `mapBlockIndex`, `BLOCK_HAVE_DATA`, `BLOCK_FAILED_VALID`, `chainActive.Tip()` |
| `cache` | `g_randao_cache` |
| `proof[b]` | the seed over which the reveal in b's coinbase was proved |
| `GetAccumulator`, `Memoised` | the walk to the nearest memoised ancestor, the fold forward, the entries it leaves behind |
| `Contribution` | the reveal, or the block hash when the block cannot be read |
| `AcceptAndActivate` | `AcceptBlock` and `ActivateBestChain`, with the second miner check of `FindMostWorkChain`, which also fills the memo |
| `MineUnproven` | a block whose coinbase carries no reveal |
| `Restart` | the memo is lost, the index is not |

XOR of independent 32-byte values is the symmetric difference of sets, SHA-256
is injective, a VRF reveal verifies over exactly the seed it was proved over.
Which of several most-work candidates wins is left open here. `ParentFirst`
says whether the data of a block can overtake its parent's: headers-first
download (`FindNextBlocksToDownload`) asks several peers for consecutive
blocks, so in the program it can.

### SortitionMiner

One mining thread per node, cut at the points where the code holds no lock
between two steps: `Schedule`
(`GetMinerAndExpectedMiningStartTime`), `PassGate` (the conditions of the
loop), `CreateNewBlock` (with its stale-parent guard), `UpdateTime` (a round of
`ScanHash` without success), `BlockFound` (which marks the height proposed),
`ProcessBlockFound` (its locked check) and `ProcessNewBlock`. Around it are
`Receive` (a peer's block, and the fork choice), `Tick`, `Pause`, `Resume`,
`Stop` (a crash at any point, keeping what `FlushStateToDisk` had written) and
`Start`.

A block's last element holds its miner and the distance of its `nTime` from its
parent's. Time is relative (`age`, `wait`), so the clock needs no bound of its
own; ages saturate at `Horizon`, beyond which no comparison of the model
distinguishes them. `Offset` is each node's adjusted clock. `Score` and `Delay`
are constant operators: functions of miner and parent, which is what
RandaoBeacon establishes for the seed. `forkScore` is the local option
`-enablewpoaforkscore`, chosen at the start out of `Policies`. Every node is a weighted validator, and
mining diversity is 0, so `nCanMine` does not enter the comparator. A block
found while a protocol upgrade is pending is dropped in the code after it was
marked; that case is not modelled and behaves like a stale block.

### StreamSetup

The thread of the weight engine on every node: `SetupStep` calls
`EnsureStreamReady`, `RegisterLocalWeight` calls it again and publishes. The
two managed steps are records of `mc_StreamSetupState`. A stream is named by
its creator, because subscriptions and items carry the create's txid; the name
resolves through `FindEntityByName`, which also searches the mempool
(`GetStreamEntity`). Around the thread are relay, mining and connecting of the
create, the replay of the mempool afterwards, mining of records, a
reorganisation that undoes them, grants, the burial of the epoch, and restarts.
One weight of one epoch per node is published. The malus registry and the
weight reader drive the same state machine through copies of the same code.

`PermissionInTime` states an assumption about the operators of the network: an
admin gets its permissions before it has failed `Patience` times; both runs set
it to 1, so an admin may fail once out of the two times the code allows.

### WeightAdmission

Who may propose, as each node reads it off the weights its own active chain has
confirmed, through the bootstrap in which nobody has a weight yet.

| model | code |
|---|---|
| a block: the sequence of labels from the last setup block on; a label holds the miner and the validators whose records the block confirms | `CBlockIndex`, the block's signer, the items of `wpoa-weights` |
| `known`, `failed`, `tip` | `BLOCK_HAVE_DATA`, `BLOCK_FAILED_VALID`, `chainActive.Tip()` |
| `reads`, `Subscribe` | the subscription without which `ReadAllRecords` returns nothing |
| `electable` | `g_wpoa_ever_electable`, set by any read that decodes a record in scope, lost at a restart |
| `memo`, `Decide` | the mining time memoised under the tip, and which branch of `GetMinerAndExpectedMiningStartTime` set it |
| `proposed` | `g_sortition_proposed_height` |
| `RecordsAsOf`, `GetAllNodesWeightsAsOf` | the read bounded by `WPoAWeightRecordInScope`, always of the active chain |
| `VerifyProposer` | `WPoASortitionVerifyProposer`: an empty registry skips the check, otherwise the signer must be in it |
| `Mine`, `MineAfterWait` | the loop's gate lets the node through: on a score or native time, or because the hour of a waiting node is over |
| `AcceptBlock`, `Receive` | `AcceptBlock` with `ActivateBestChain`, for an own and for a peer's block |
| `Restart` | memory is lost; `FindMostWorkChain` judges the stored candidates again, since `fPassedMinerPrecheck` is not stored |

A decoded record always has a positive weight and the newest one of an address
replaces the others, so the registry of a chain only grows, and who is in it is
all the eligibility test asks. How much somebody weighs moves the delay: that
and the time bar are SortitionMiner's, the VRF reveal RandaoBeacon's; the malus,
which can take an effective weight to zero, is MalusRegistry's. All heights are governed by
the sortition. A node's own record is in its own mempool, other records may or
may not have reached it. The mempool's size, which makes the loop set its time
again on an unchanged tip, is left open. Which candidate of equal work wins when
the tip is not among them is open too.

### WeightPipeline and WeightEpochs

WeightPipeline is the weight of a cluster as a function of the chain, without
state: the facts of an epoch (`ComputeEpochFacts`: activity, restitution,
credits, debits), the latest-wins memberships and scores, and the pipeline of
`weight_engine.h` folded forward from epoch 1 (raw weight, gain and saldo, rate of
restitution, final weight, `ToIntegerWeight`), up to what a reader parses back
out of a record. Doubles are exact fractions; the parameter alpha, which the
code reads and no longer uses, is left out.

WeightEpochs is `ThreadWeightEngine` on every node over several epochs:

| model | code |
|---|---|
| `chain`, `pool` | the active chain and the publications not yet confirmed |
| `epoch`, `seen`, `own` | locals of a pass: the epoch, the registry read for the verification, the computed weight |
| `lastPub`, `lastVer`, `verdicts` | `last_published_epoch`, `last_verified_epoch`, `g_verified_epoch` with `g_verdicts` |
| `Wake` | the tests at the head of the loop |
| `Collect`, `VerifyAndCacheEpoch` | the registry is read, then the epoch is recomputed, with blocks in between |
| `ComputeLocalWeightForEpoch`, `RegisterLocalWeight`, `RegisterFails` | the rest of the pass, with and without success |
| `MineBlock`, `Reorg`, `PublishInput`, `Restart` | the environment; a reorganisation replaces at most `Margin` blocks |

`settled` and `raced` are history variables of `RegisteredWeightStands`; `basis`,
the inputs a record was computed from, is carried for `VerdictsAreJust`; `issued`
numbers a node's registrations, as a txid tells two transactions with the same
payload apart. All nodes see one chain: a node lags by when its thread reads it.
A node in `Skewed` has flags that override a chain parameter, and its engine comes
to another weight (`ByEngineOf`).

What validation sees to is stated once: `IsTransaction` (amounts are not negative, a
publication moves no money) and `IsLedger` (a coin is made once and spent once, after
it was made). The chains of the setup period, which hold all the payments, satisfy
both (`SetupAssumption`); the inputs still to come are scores and memberships
(`InputsAssumption`); the bounds are numbers (`EpochsAssumption`).

### MalusRegistry

Reports on the open stream `wpoa-weights-malus`, `ValidReport`, the decayed
accumulator and its use by the miner and by the time bar.

| model | code |
|---|---|
| `main`, `tip` | the branch that wins everywhere and how much of it a node has connected |
| `sides`, `stored`, `failed` | blocks that lost their round, the nodes that hold their data, the refused blocks |
| `ReadAllReports`, `LoadAccusedBlock` as `HaveData` | what a node can read and check a report against |
| `ValidEquivocation`, `ValidDelay`, `ValidDataIntegrityReport` | the four kinds of `ValidReport`; a delay is judged by the weights of the reader's tip with only the accused's corrected |
| `Fold`, `CorrectionFactor`, `EffectiveWeight`, `EpochsToClear` | `MalusAccumulator`; the accumulator of epoch e is kept times `MuDen^e`, an integer |
| `GetAccumulators`, `WPoAApplyMalus` | the pass over the epochs and the correction, one epoch behind |
| `Mine`, `Connect`, `Receive` | an honest round; `AcceptBlock` with the time bar before the data is written |
| `Equivocate`, `Hurry`, `Items` | the misbehaviour reports are about, by members of `Faulty` only |
| `PublishReport`, `PublishUnchecked` | the RPC, which checks first, and an item published by hand |

The delay is the draw times the total weight over the own weight; the band it is
mapped to is left out. `counted` in a block notes which reports its miner
counted, for `RefusedOnlyForMissingEvidence`. The stream is set up as in
StreamSetup, and the recomputation behind `badweight` is WeightEpochs'.

### Permissions and PermissionChain

Permissions is class `mc_Permissions` as operators over a record: ledger file
and its row 0, database, memory pool, counts, and the copies kept while a side
branch is verified. A commit and a roll-back are split where what is on disk
differs (`CommitLedger`, `CommitDatabase`, `CommitCounts`; `RollBackDatabase`).
PermissionChain is one node over it:

| model | code |
|---|---|
| `AcceptBlock` | `AcceptBlock` with `VerifyBlockMiner`, which rolls the store back virtually, replays verified blocks from their records, judges others in passing and restores the store |
| `AcceptTx`, `ReplayMemPool` | grants in the memory pool |
| `FindMostWorkChain` | the ignored first verification of the contested group, then the scan that fails candidates |
| `DisconnectTip`, `ConnectTip`, `ConnectFails` | `ActivateBestChainStep`, one block at a time |
| `Crash`, `CrashInCommit`, `CrashInRollBack` | the process is killed between any two writes; completed writes persist |
| `Restart` | `Initialize` with its repair, then the roll-back of `LoadBlockIndexDB` |

Kept are the admin and mine permissions of the chain, one grant per transaction
and heights under the native rules. A block is the chain it ends, headers are
known, a tie keeps the tip, and every step holds `cs_main`. `guessed` marks
blocks judged on a branch with an unverified block in the middle.

### Proof and MC modules

`RandaoBeaconProofs`, `SortitionMinerProofs`, `ChainSetupProofs` (StreamSetup and
Permissions), `WeightAdmissionProofs`, `WeightEpochsProofs` and
`WeightPipelineProofs` (WeightEpochs and WeightPipeline), `MalusRegistryProofs`, and
`ArithmeticLemmas`, on which WeightPipelineProofs and MalusRegistryProofs rest: see section 5. The `MC...` modules
only give constants their values.

## 3. Runs

| run | instance | shows |
|---|---|---|
| randao_in_order | 2 nodes, 2 labels, height 4, 4 blocks, lookback 1 | the five invariants of the beacon, parents first; proven blocks arrive everywhere (liveness) |
| randao_headers_first | as above, data in any order | **violated**: an honest block is refused |
| sortition | 2 nodes, height 2, a crash or a pause, both tie-break rules | one proposal per height, no block too early, equal candidates give equal tips, the chain advances under the first-seen rule, BlockTree is implemented |
| sortition_last_online | 2 nodes, a crash, the score tie-break | **violated**: everyone stands down |
| stream_setup | 1 admin and a follower; two of a failing call, a restart, a reorganisation | latches are warranted, the name is unique, everyone subscribes, every registered weight is confirmed |
| stream_race_ready | 2 admins, no faults | **violated**: the loser never subscribes to the confirmed stream |
| weight_admission | 2 nodes, height 3; data in any order, or a restart, or one node that subscribes late or never | activation is final, no relayed block of the own branch is refused, the bootstrap advances, BlockTree is implemented |
| weight_fork | 2 nodes, height 3 | **violated**: a block one node stored is refused by another |
| weight_standoff | 3 nodes, height 2 | **violated**: nobody may extend any chain |
| weight_epochs | 2 engines, one with other parameters, epochs of 2 blocks, margin 1, height 5; one reorganisation, restart or failed call, one new input | verdicts are just, a registered weight stands, the saldo agrees with the ledger, buried blocks are final, everyone catches up |
| malus | a faulty and an honest validator and a reader, height 3, one side block, one offence, one report | false reports move nothing unless the bar moved, reports on refused blocks do not count, corrections come an epoch later, exclusion ends, honest blocks are refused only for want of evidence |
| permissions | 8 blocks on 4 branches, of which 4 arrive, one grant, two crashes | the store is that of a fresh sync, side branches are judged rightly, counts are exact, consensus is honoured, start-up refuses only stale rows |

The violated runs each refute one sentence of a comment or a document; the
findings in `PROJECT.json` quote it.

* *randao_headers_first.* A node that has the headers of blocks 1 to 3 and the
  data of block 3 but not of block 2 folds the hash of 2 into the accumulator
  and refuses 3.
* *sortition_last_online.* A height is marked proposed before the block is
  submitted, and a block that finds the tip moved is dropped. Two nodes hold
  different blocks of height 1, one restarted and lost its scores, each has
  found a block of height 2; then each receives the other's block 1 and
  switches to it. Both candidates are stale and dropped, both nodes have height
  2 marked, and no one proposes it again before a restart.
* *stream_race_ready.* The name resolves to the node's own unconfirmed create,
  the node subscribes and publishes to it, and the other create wins.
* *weight_fork.* Two blocks of height 1, one of which confirms a weight. A node
  on that one judges a block of height 2 on the other by its own chain's
  weights and refuses it for good, although it holds the block's parent.
* *weight_standoff.* Of two blocks of height 1, one confirms n1's weight and one
  n2's. n1 sits on the second, n2 on the first, n3 on either: each waits for a
  validator on the other branch, of equal work. Not even the lapse of the hour
  helps, as each refuses its own block.

### What the passing runs assume

Some constants of the passing runs are assumptions about the deployment, and
the code needs them:

* equal clocks (`Offset`) for `NoBlockTooEarly`: the miner waits its delay from
  the moment it sees the tip, and is judged against a parent's `nTime` that a
  faster clock may have stamped;
* the first-seen rule for liveness of the sortition (`FirstSeenAdvances`), which
  sortition_last_online drops;
* one creating node (`Admin`) for `SubmittedBecomesVisible` as for
  `EveryoneReady`: a record published to the losing create is reported as
  registered and never confirmed. The two safety invariants of the run are
  proved for any number of creating nodes;
* subscribed nodes (`net.synced = Node`) for the two safety properties of
  weight_admission: a node that cannot read the stream never latches and goes on
  mining natively when its peers have activated; they refuse a block that
  extends their own chain;
* data of parents first (`ParentFirst`) in randao_in_order, which
  randao_headers_first drops;
* reorganisations no deeper than the stability margin in weight_epochs, which is
  what the margin is for.

### What the properties leave out, because the code does

Several properties carry an exception. Each is a behaviour of the code:

* `RegisteredWeightStands` excepts registrations that met an unconfirmed one of
  the same node (`raced`): `RegisterLocalWeight` compares with the newest
  *confirmed* record only, so a weight that changes back meanwhile is not
  published again.
* `VerdictsAreJust` excepts verdicts on records that rest on other memberships or
  scores than the verifier's: both sides read these inputs as they are now.
* `FalseReportsDiscarded` excepts delay reports whose bar moved (`BarMoved`): they
  are judged by the weights of the reader's tip, with only the accused's
  corrected, so a later weight can convict an honest miner.
* `RefusedOnlyForMissingEvidence` names the cause left: a report counts only where
  the accused blocks are held, and the correction is not bounded by height.
* `PrecheckAgrees` excepts `guessed` blocks: an unverified block in the middle of a
  branch is judged by the last height of the miner of the branch's *last* block.
* `RefusedOnlyForStaleRows` names the one cause for which start-up refuses a store
  a crash left: the repair scans the ledger from its end and stops at undone rows
  of another branch.

Two further observations have no property: copies of one report are each added
to the accumulator, whereas the head comment of `malus_registry.h` says a
duplicated report is discarded; and approvals by admins whose permission was
revoked before consensus was reached still count.

A waiting node's hour is memoised under its tip, so it mines when the hour is
over (`MineAfterWait`). `ActivationIsFinal` shows what that cannot do: on a chain
with a confirmed weight its block is not accepted, not even by itself. On a
chain that lost its weights in a reorganisation the block is accepted
unchecked, like any native block.

### Bounds and why they suffice

Two nodes suffice for a fork, a race, a stale verdict and a crossing of tips.
The lookback of 1 with four blocks lets the accumulator's block lie in front of,
at and behind a fork point and makes a memo entry be used by a later walk; the
first governed height is 1, so genesis exercises the ungoverned case. Two
heights are enough for a candidate to be overtaken by a competing parent. Delays
of one and two seconds make two proposers collide or miss each other, by the
interleaving of `Tick`. Three heights of weight admission hold a fork, the
weight confirmed on one side of it and a longer branch that takes over; the
standoff needs a third node, because somebody else must confirm each record
first. Two failures exhaust the state machine of a stream.

Height 5 closes two epochs of two blocks, the second buried, so the rate of
restitution of the first enters a weight and a verification happens; the two
histories hold a shared restitution, a refund, a fee and a complete restitution,
and `UMax` is 12 so that the clamp is reached. The new input moves one head into the
other's cluster, and one of the histories ends with a new score that a reorganisation
takes back, so verifier and publisher read different inputs in either order. Epochs of one block in the malus
run let three heights hold an offence, its confirmation and two corrected
rounds, with the weights changing in the third; the points are chosen so that an
accumulator comes to rest exactly on the threshold. The eight blocks of the
permission run contain a grant that needs two approvals, one given twice, the
removal of the first admin, a miner who is permitted on one side of the fork only,
and branches of lengths two and three; two crashes allow one in the recovery from
the other.

The counters of crashes, pauses, glitches, restarts and reorganisations are
the only bounds on the environment. Labels and nodes are symmetric in
randao_headers_first, nodes in weight_standoff; runs with a liveness property
use no symmetry. No run checks deadlock: at the bounds every node may have
nothing left to do.

### Fairness and why the code justifies it

* `ReceiveBlock` is weakly fair per node in randao_in_order: the
  download loop of `SendMessages` asks for missing blocks of a peer's chain
  again and again.
* The mining thread (all steps but the fruitless `UpdateTime`), the clock and
  the download of a peer's active chain are weakly fair in the sortition runs:
  the loop only sleeps for bounded times, and `ScanHash` succeeds at the
  minimal difficulty these chains use. Start after a stop is *not* fair: a
  stopped node may stay away. `FirstSeenFairSpec` asks for this only in networks
  with the first-seen rule, about which alone the run claims progress.
* In the stream runs the engine's tick, mining, connecting and the
  administrators' grants are weakly fair. Relay of a create is not, and
  restarts, glitches and reorganisations are not.
* In weight_admission some `Decide`, `Mine` or `Receive` happens as long as one can
  (`Progress`), no node in particular; this is less than the loops above give.
  It is asked of networks without restarts and with parents first. Subscribing,
  registering a weight and `MineAfterWait` are not fair: the chain advances
  without them.
* In weight_epochs blocks keep coming, a thread with something to do wakes up,
  and every pass of its loop ends: the loop waits for nothing but its own calls.
  Restarts, failures and new inputs are not fair.

## 4. Properties and mutants

Each checked property is broken by a mutant of a mapped definition, such as
folding the base block twice, taking the validator's seed from its own tip,
accepting orphans, leaving out the stale-parent guard, crashing with an
unflushed tip, latching a create that threw, leaving the losing create in the
mempool, making the scope of a read exclusive or unbounded, never falling
back to native mining, a margin one block short, a gain without the restitution
added back, an epoch that corrects itself, data written before the bar is
checked, a roll-back that undoes the last row of a key instead of the first,
looking permissions up at the tip instead of the fork, or counting approvals by
rows instead of admins. The mutated operators stand next to the originals.

## 5. Proofs

TLAPS checks all of the following for arbitrary constants, under the named
assumptions of the modules (types of the constants, fractions below 1).

**RandaoBeaconProofs**, under `ParentFirst`: `BeaconTypeCorrect`,
`MemoIsSound`, `VerdictIsSound`, `StoredBlocksAreProven`, `SeedsAgree`. The
invariant `IInv` adds `DataClosed` (what is on disk is on disk down to genesis)
to the checked invariants. That is what keeps the hash fallback away: all
ancestors of a parent on disk are readable, so with a coherent memo
`GetAccumulator` returns the chain's accumulator (`AccumulatorCorrect`), what it
memoises is coherent again (`MemoStaysCoherent`), and the validator's seed is
the miner's (`SeedCorrect`). `AccumulatorCorrect` needs that the walk back ends
at a highest memoised ancestor; `BoundedSetHasMaximum` proves it from the
well-foundedness of the naturals. The run randao_headers_first shows that the
hypothesis cannot be dropped.

**SortitionMinerProofs**: `NeverEquivocates`, that is `OneProposalPerHeight`,
for all clocks, scores, delays, tie-break settings and numbers of crashes. The
inductive invariant `ProposalInv` says that everything a node has published lies
at or below its tip, and at or below the parent of its candidate while it works
on one. The in-memory guard plays no part in the argument. What carries it is
that a candidate's parent is the node's tip when the candidate is made, that the
node's own block is never above the tip after it was accepted, and that a tip's
height never decreases, which across a crash rests on the unconditional flush in
`ConnectTip`. `docs/malus-registry.md` relies on this property when it punishes
two blocks of one round as equivocation. `MinersImplementBlockTree` extends the
invariant by the closure of the relayed blocks under parents (`TreeInv`) and
shows that each action is a step of BlockTree. `TieBreakIgnoresArrival` is
`SameBlocksSameTip`, from the assumption that no two validators draw one score at
a height; its invariant `BestInv` says that a scored block as high as the tip
never beats it, and that a stopped node has no scores.

**ChainSetupProofs**, on the managed stream: `SetupTypeCorrect`, `NoEmptyWait`, `NameStaysUnique`,
for any number of nodes and admins. The three are inductive together: a latch
is warranted because a create leaves a mempool only when the chain's create has
taken the name over, and a reorganisation puts that one back.

**WeightAdmissionProofs**: `AdmissionTypeCorrect` for any constants;
`ActivationStaysFinal` and `OwnBranchIsNeverRefused`, whose statements speak of
networks in which every node reads the stream, for any number of nodes, forks
and restarts and any order of delivery; and `AdmissionImplementsBlockTree`. The
inductive invariant `ChainInv` says that every relayed block is lawful on its own
chain: each of its ancestors was mined by somebody the chain had weighted before
it, unless it had weighted nobody. It is needed because a node's verdict is about
its own chain and says nothing of the branch a foreign block is on. A miner's own
acceptance makes a new block lawful, as its parent is the tip there
(`MinedIsLawful`); a lawful block whose parent is on the active chain passes,
because the bounded read of a longer chain is the read of the prefix
(`ScopedRead`, `LawfulPasses`). weight_fork shows that the restriction to the own
branch cannot be dropped.

**WeightEpochsProofs** and **WeightPipelineProofs**: `EpochsTypeCorrect`,
`JustVerdicts`, `RegistrationsStand`, `SaldoFollowsLedger` and
`BuriedEpochsAreFinal`, for any nodes, epoch length, margin, payments, inputs and
faults, and three facts without state: `BurialTestsAgree` (the guard of
`ComputeEpochFacts` and `LastBuriedEpoch`, written independently, are one test),
`WeightsSurviveTheRecord` (a published weight is at least 1, fits its field and is
parsed back unchanged, so the truncating cast of the parser is never reached by a
computed weight) and `RestitutionWeighsLambda` (bounds of the final weight).

The inductive invariant is `EpochsInv`. A verdict compares a record with a
recomputation that happens later, on a longer or a reorganised chain, so the
invariant has to say what every record is worth at every time: it is *just*, that
is, it names a buried epoch and carries the weight its node's engine computes for
that epoch from the inputs it names (`JustRecord`). This holds of what an engine is
about to register and of what it has collected (`EngineInv`) and of every record on
the chain or in flight (`RecordsInv`). It survives each step because a block and a
reorganisation alike keep the blocks of buried epochs (`ChainStep`,
`StepKeepsTheBuried`), and facts, saldo and weight of an epoch depend on the
blocks up to its end alone (`SameFacts`, `SameSaldo`, `SameWeight`).
`RegisteredWeightStands` needs more: that no registration is mined twice (`OnceInv`),
and what a node's registrations come to while some are in flight (`StandInv`).
`LedgerInv` keeps the chain a ledger, and `SaldoFollowsLedger` follows from it: the
epochs part the chain, the sums of their credits and debits add up to the coins made
and spent, and on a ledger the spent ones are among the made.

The first module takes three facts about numbers as the hypothesis `PipelineFacts`
(weights fit their field, places of a chain have a newest one, what is read from a
chain is an input); the second proves them (`ThePipelineFacts`), so no theorem on the
states rests on a hypothesis other than the assumptions on the constants.

**MalusRegistryProofs**: all safety properties of the module, for any nodes,
validators, weights, blocks, reports, decay and epochs: `MalusTypeCorrect`,
`NothingRestsOnRefusedBlocks`, `HonestStayUnconvicted`, `FalseReportsMoveNothing`,
`CorrectionStaysBehind`, `HonestBlocksMissEvidence` and `ExclusionsEnd`. There are two
inductive invariants. `EvidenceInv` says who may have made which block (two blocks of
one validator and round are a faulty one's, items that can be accused were published
by faulty ones), what a report of each kind names, and that a node holds no block it
refused (`RefusedIsNotHeld`); it gives the first two results on reports, of which
`HonestStayUnconvicted` is the part of `FalseReportsDiscarded` that has no exception.
For delays one must know how an honest block came by its offset, long after its miner
has read other reports: `BookInv` keeps that for each block there are accumulators
made by the reports it counted (`AccBy`) under which its offset is the delay
(`SetByCount`). A reader that counted as many reports sees at least as large
accumulators of the others (`AccByMonotonic`) and thus a bar no stricter
(`MoreReportsEaseTheBar`); with an unmoved bar it sees the same one (`UnmovedBar`).
`ExclusionsEnd` shows that a decayed malus falls below any threshold
(`ClearsAtLast`), that `EpochsToClear` finds the first epoch in which it does, and
that a validator without new reports is at exactly that malus then
(`CleanEpochsDecay`).

**ArithmeticLemmas**: induction on the numbers and on the subsets of a finite set,
stated for sets; sums over finite sets (one summand taken out, equal, larger, disjoint
and partitioned sums); products, quotients and searches upwards.

**ChainSetupProofs**, on permissions: `ConsensusIsAttainable` and
`DiversityLeavesOneMiner`. Both roundings are `(n * share - 1) / granularity + 1`;
lemma `RoundedShare` puts them between 1 and n, so that a change all admins approve
goes through and mining diversity never bars everybody.

Recursive functions (the sum of the community modules, powers, the pass over the
epochs, the search of `EpochsToClear`) are treated alike: a function that satisfies
the recursion is shown to exist and to be unique, by induction stated for sets of
numbers, since the library's induction theorems over predicates are out of the
provers' reach.

Only model-checked:

* all liveness: fairness is out of this prover's reach;
* `NoBlockTooEarly` and the type invariant of SortitionMiner, which need the
  median of timestamps and the relation of each countdown to the age of its tip;
* the invariants of PermissionChain, which compare folds over blocks of a store
  whose operations are themselves folds over its rows.

## 6. Not modelled

* Cryptography, script, storage engines, sockets and the user interface: pure
  functions or I/O inherited from Bitcoin and MultiChain. A VRF reveal, a hash and
  a signature enter as what RandaoBeacon and MalusRegistry assume of them.
* Smart filters: JavaScript run by V8.
* The floating-point transforms of scores and delays (`ScoreFromVRFOutput`, the
  band of `MiningDelay`, the public argmin of Phase 2): outside TLA+'s integers. The
  models use that they are functions of miner and parent, increasing where the
  code says so.
* Off-chain chunks, handshake and address management: request and response
  protocols on which consensus does not rest; delivery of blocks is arbitrary or
  fair in the models.
* Of permissions: activate, per-entity and governance permissions, upgrades and the
  flags of blocks; the callers that read permissions outside `cs_main`.
* Of fork choice: `nCanMine` (0 where mining diversity is 0), locked and banned
  blocks.
* The thread that registers a static weight: StreamSetup's steps with a bounded
  number of attempts.
* Entity and wallet databases beyond name lookup, subscriptions and re-acceptance.

The greater part of the repository is the inherited code of the first, second and
fourth points, so the modules cover a small share of its lines and most of the
stateful code of `src/wpoa` and `src/weight_engine`.

## 7. What would come next

Effective weights that fall to zero inside WeightAdmission, that is the
composition of malus and eligibility; two branches in MalusRegistry; the
comparator with `nCanMine` as a strict weak order; proofs of PermissionChain's
`CountsAreExact` and of `NoBlockTooEarly`.
