---------------------------- MODULE WeightEpochs ----------------------------
(***************************************************************************)
(* The weight engine over several epochs: ThreadWeightEngine of            *)
(* src/src/weight_engine/weight_engine.cpp on every node, which verifies   *)
(* the weights the others published, computes its own for the newest       *)
(* buried epoch and registers it through                                   *)
(* StreamWeightRegistry::RegisterLocalWeight, while blocks are mined,      *)
(* shallow reorganisations replace the newest ones, the authority and the  *)
(* members publish new inputs and nodes restart.  The streams exist and    *)
(* are subscribed (StreamSetup is about how they get there), and a node    *)
(* lags behind the chain by when its thread reads it.                      *)
(***************************************************************************)
EXTENDS WeightPipeline

CONSTANTS
    Node,          \* the nodes that run the engine
    Skewed,        \* the ones whose local flags override a chain parameter
    InitialChains, \* the chains of the setup period: all the payments, the
                   \* first memberships and scores
    InputItems,    \* the publications of scores and memberships to come
    MaxHeight,     \* bound: height of the chain
    MaxFaults,     \* bound: reorganisations, restarts and failed calls
    MaxInputs      \* bound: how many of InputItems are published

\* What the validation of transactions and blocks sees to.  Amounts are not
\* negative, a publication moves no money, a coin is made once and spent
\* once, and only after it was made.
Money(coins) == {c \in coins : c.value # 0}

IsTransaction(tx) ==
    /\ IsFiniteSet(tx.ins) /\ IsFiniteSet(tx.outs)
    /\ \A c \in tx.ins \cup tx.outs : c.value \in Nat
    /\ tx.item # NoItem => tx.outs = {} /\ Money(tx.ins) = {}
    /\ tx.item.stream = "esg" => tx.item.score \in Nat

IsLedger(c) ==
    LET places == Places(c, 1, Len(c))
    IN  /\ \A p \in places : \A coin \in Money(At(c, p).ins) :
              \E q \in places : ~Later(q, p) /\ coin \in At(c, q).outs
        /\ \A p, q \in places : p # q =>
              /\ At(c, p).outs \cap At(c, q).outs = {}
              /\ Money(At(c, p).ins) \cap Money(At(c, q).ins) = {}

ASSUME EpochsAssumption ==
    /\ Skewed \subseteq Node
    /\ MaxHeight \in Nat
    /\ MaxFaults \in Nat
    /\ MaxInputs \in Nat

ASSUME SetupAssumption ==
    \A c \in InitialChains :
        /\ c \in Seq({c[i] : i \in DOMAIN c})
        /\ Len(c) \in 1 .. MaxHeight + 1
        /\ \A h \in 1 .. Len(c) : Len(c[h]) \in Nat
        /\ \A p \in Places(c, 1, Len(c)) :
              IsTransaction(At(c, p)) /\ At(c, p).item.stream # "weights"
        /\ IsLedger(c)

ASSUME InputsAssumption ==
    \A p \in InputItems :
        /\ p.item.stream \in {"esg", "membership"}
        /\ p.item.stream = "esg" => p.item.score \in Nat

VARIABLES
    chain,      \* the active chain
    pool,       \* publications broadcast and not confirmed
    toPublish,  \* the members of InputItems not published yet
    pc,         \* node -> where its engine thread is
    epoch,      \* node -> the local variable epoch
    seen,       \* node -> the registry read for the verification
    own,        \* node -> the weight computed, and the inputs it used
    lastPub,    \* node -> last_published_epoch
    lastVer,    \* node -> last_verified_epoch
    verdicts,   \* node -> g_verified_epoch and g_verdicts
    settled,    \* node -> the weight of its last registration, 0 if none
    raced,      \* node -> a registration met another one of its own that
                \*         was still unconfirmed
    issued,     \* node -> its registrations so far, which number them
    faults      \* reorganisations, restarts and failed calls so far

thread == <<pc, epoch, seen, own, lastPub, lastVer, verdicts>>
vars == <<chain, pool, toPublish, thread, settled, raced, issued, faults>>

Height == Len(chain) - 1
NoOwn == [weight |-> 0, basis |-> << >>]
NoVerdicts == [epoch |-> 0, of |-> << >>]

(***************************************************************************)
(* The registry as ReadAllRecords returns it: the newest confirmed record  *)
(* of each address that signed its own.                                    *)
(***************************************************************************)
GetAllNodesWeightsWithEpoch ==
    Newest(chain, {p \in Items(chain, "weights") :
                      /\ SelfAttested(At(chain, p))
                      /\ ParsedWeight(At(chain, p).item.weight) > 0})

GetNodeWeight(n) ==
    LET latest == GetAllNodesWeightsWithEpoch
    IN  IF n \in DOMAIN latest THEN ParsedWeight(latest[n].weight) ELSE 0

\* What node n's engine makes of a weight: with other parameters it comes to
\* another one.
ByEngineOf(n, weight) == IF n \in Skewed THEN (weight % UMax) + 1 ELSE weight

Computed(n, in, e) ==
    [k \in Heads(in) |-> ByEngineOf(n, WeightForEpoch(chain, in, e, k))]

RecordsOf(n, txs) == {tx \in txs : tx.item.stream = "weights" /\ tx.item.node = n}
InFlight(n) == RecordsOf(n, pool)

\* A transaction that publishes; no two registrations are the same one.
Publication(n, id, item) ==
    [txid |-> id, ins |-> {[id |-> "fuel", owner |-> n, value |-> 0]},
     outs |-> {}, item |-> item]

Init ==
    /\ chain \in InitialChains
    /\ pool = {}
    /\ toPublish = InputItems
    /\ pc = [n \in Node |-> "sleep"]
    /\ epoch = [n \in Node |-> 0]
    /\ seen = [n \in Node |-> << >>]
    /\ own = [n \in Node |-> NoOwn]
    /\ lastPub = [n \in Node |-> 0]
    /\ lastVer = [n \in Node |-> 0]
    /\ verdicts = [n \in Node |-> NoVerdicts]
    /\ settled = [n \in Node |-> 0]
    /\ raced = [n \in Node |-> FALSE]
    /\ issued = [n \in Node |-> 0]
    /\ faults = 0

(***************************************************************************)
(* The chain.                                                              *)
(***************************************************************************)
Mined(c) == {At(c, p) : p \in Places(c, 1, Len(c))}

MineBlock ==
    /\ Height < MaxHeight
    /\ \/ chain' = Append(chain, << >>) /\ pool' = pool
       \/ \E tx \in pool : chain' = Append(chain, <<tx>>) /\ pool' = pool \ {tx}
    /\ UNCHANGED <<toPublish, thread, settled, raced, issued, faults>>

\* A longer branch replaces at most Margin blocks, never the genesis block;
\* their publications return to the memory pool.
Reorg ==
    /\ faults < MaxFaults
    /\ Height < MaxHeight
    /\ \E d \in 1 .. Margin :
          LET kept == SubSeq(chain, 1, Len(chain) - d)
              back == Mined(chain) \ Mined(kept)
          IN  /\ d <= Height
              /\ \A tx \in back : tx.item # NoItem
              /\ chain' = kept \o [i \in 1 .. d + 1 |-> << >>]
              /\ pool' = pool \cup back
              /\ raced' = [n \in Node |->
                    \/ raced[n]
                    \/ \E t, u \in RecordsOf(n, pool \cup back) : t # u]
    /\ faults' = faults + 1
    /\ UNCHANGED <<toPublish, thread, settled, issued>>

\* publishesg or publishmembership: the signer broadcasts the item.
PublishInput ==
    \E p \in toPublish :
       /\ Cardinality(InputItems \ toPublish) < MaxInputs
       /\ pool' = pool \cup {Publication(p.by, 0, p.item)}
       /\ toPublish' = toPublish \ {p}
       /\ UNCHANGED <<chain, thread, settled, raced, issued, faults>>

(***************************************************************************)
(* One pass of the loop of ThreadWeightEngine.                             *)
(***************************************************************************)
\* The end of a pass, where its local variables go out of scope.
Continue(n) ==
    /\ pc' = [pc EXCEPT ![n] = "sleep"]
    /\ epoch' = [epoch EXCEPT ![n] = 0]

\* A thread that has published never looks at its own weight again.
WakeOnce(n) ==
    /\ pc[n] = "sleep"
    /\ LET e == LastBuriedEpoch(Height)
           verify == e >= 2 /\ e - 1 # lastVer[n]
       IN  /\ e >= 1
           /\ ~verify /\ lastPub[n] = 0
           /\ epoch' = [epoch EXCEPT ![n] = e]
           /\ pc' = [pc EXCEPT ![n] = IF verify THEN "collect" ELSE "compute"]
    /\ UNCHANGED <<chain, pool, toPublish, seen, own, lastPub, lastVer,
                   verdicts, settled, raced, issued, faults>>

Wake(n) ==
    /\ pc[n] = "sleep"
    /\ LET e == LastBuriedEpoch(Height)
           verify == e >= 2 /\ e - 1 # lastVer[n]
       IN  /\ e >= 1
           /\ verify \/ e # lastPub[n]
           /\ epoch' = [epoch EXCEPT ![n] = e]
           /\ pc' = [pc EXCEPT ![n] = IF verify THEN "collect" ELSE "compute"]
    /\ UNCHANGED <<chain, pool, toPublish, seen, own, lastPub, lastVer,
                   verdicts, settled, raced, issued, faults>>

Collect(n) ==
    /\ pc[n] = "collect"
    /\ seen' = [seen EXCEPT ![n] = GetAllNodesWeightsWithEpoch]
    /\ pc' = [pc EXCEPT ![n] = "verify"]
    /\ UNCHANGED <<chain, pool, toPublish, epoch, own, lastPub, lastVer,
                   verdicts, settled, raced, issued, faults>>

\* Every record compared with the epoch being verified.
VerdictUnscoped(record, e, recomputed) ==
    IF record.node \notin DOMAIN recomputed THEN "not_a_cluster"
    ELSE IF record.weight = recomputed[record.node] THEN "ok"
    ELSE "mismatch"

\* mc_VerifyPublishedWeights for one record.
Verdict(record, e, recomputed) ==
    IF record.epoch # e THEN "other_epoch"
    ELSE IF record.node \notin DOMAIN recomputed THEN "not_a_cluster"
    ELSE IF record.weight = recomputed[record.node] THEN "ok"
    ELSE "mismatch"

VerifyAndCacheEpoch(n) ==
    /\ pc[n] = "verify"
    /\ LET e == epoch[n] - 1
       IN  \E in \in {ReadInputs(chain)} : \E recomputed \in {Computed(n, in, e)} :
             /\ Buried(Height, e)
             /\ verdicts' = [verdicts EXCEPT ![n] =
                   [epoch |-> e,
                    of |-> [a \in DOMAIN seen[n] |->
                              [verdict |-> Verdict(seen[n][a], e, recomputed),
                               record |-> seen[n][a],
                               basis |-> in]]]]
             /\ lastVer' = [lastVer EXCEPT ![n] = e]
    /\ seen' = [seen EXCEPT ![n] = << >>]
    /\ \/ /\ epoch[n] # lastPub[n]
          /\ pc' = [pc EXCEPT ![n] = "compute"]
          /\ UNCHANGED epoch
       \/ /\ epoch[n] = lastPub[n]
          /\ Continue(n)
    /\ UNCHANGED <<chain, pool, toPublish, own, lastPub, settled, raced,
                   issued, faults>>

ComputeLocalWeightForEpoch(n) ==
    /\ pc[n] = "compute"
    /\ \E in \in {ReadInputs(chain)} :
          \/ /\ n \in Heads(in)
             /\ \E all \in {Computed(n, in, epoch[n])} :
                   own' = [own EXCEPT ![n] = [weight |-> all[n], basis |-> in]]
             /\ pc' = [pc EXCEPT ![n] = "register"]
             /\ UNCHANGED epoch
          \/ /\ n \notin Heads(in)
             /\ Continue(n)
             /\ UNCHANGED own
    /\ UNCHANGED <<chain, pool, toPublish, seen, lastPub, lastVer, verdicts,
                   settled, raced, issued, faults>>

\* A node that has any record publishes no other.
RegistrationOnce(n) ==
    IF GetNodeWeight(n) # 0 THEN {}
    ELSE {Publication(n, issued[n] + 1,
                      [stream |-> "weights", node |-> n,
                       weight |-> own[n].weight, epoch |-> epoch[n],
                       basis |-> own[n].basis])}

\* The weight goes out unless the newest confirmed record already has it.
Registration(n) ==
    IF GetNodeWeight(n) = own[n].weight THEN {}
    ELSE {Publication(n, issued[n] + 1,
                      [stream |-> "weights", node |-> n,
                       weight |-> own[n].weight, epoch |-> epoch[n],
                       basis |-> own[n].basis])}

RegisterLocalWeight(n) ==
    /\ pc[n] = "register"
    /\ pool' = pool \cup Registration(n)
    /\ issued' = IF Registration(n) = {} THEN issued
                 ELSE [issued EXCEPT ![n] = @ + 1]
    /\ raced' = [raced EXCEPT ![n] = InFlight(n) # {}]
    /\ settled' = [settled EXCEPT ![n] = own[n].weight]
    /\ lastPub' = [lastPub EXCEPT ![n] = epoch[n]]
    /\ own' = [own EXCEPT ![n] = NoOwn]
    /\ Continue(n)
    /\ UNCHANGED <<chain, toPublish, seen, lastVer, verdicts, faults>>

\* The registration fails: the node may not write to the stream yet, or the call
\* throws.  The marker stays and a later pass computes the weight again.
RegisterFails(n) ==
    /\ pc[n] = "register"
    /\ faults < MaxFaults
    /\ faults' = faults + 1
    /\ own' = [own EXCEPT ![n] = NoOwn]
    /\ Continue(n)
    /\ UNCHANGED <<chain, pool, toPublish, seen, lastPub, lastVer, verdicts,
                   settled, raced, issued>>

\* The thread's locals and the verdict cache live in memory only.
Restart(n) ==
    /\ faults < MaxFaults
    /\ faults' = faults + 1
    /\ Continue(n)
    /\ seen' = [seen EXCEPT ![n] = << >>]
    /\ own' = [own EXCEPT ![n] = NoOwn]
    /\ lastPub' = [lastPub EXCEPT ![n] = 0]
    /\ lastVer' = [lastVer EXCEPT ![n] = 0]
    /\ verdicts' = [verdicts EXCEPT ![n] = NoVerdicts]
    /\ UNCHANGED <<chain, pool, toPublish, settled, raced, issued>>

Engine(n) ==
    \/ Wake(n)
    \/ Collect(n)
    \/ VerifyAndCacheEpoch(n)
    \/ ComputeLocalWeightForEpoch(n)
    \/ RegisterLocalWeight(n)

Next ==
    \/ MineBlock
    \/ Reorg
    \/ PublishInput
    \/ \E n \in Node : Engine(n) \/ RegisterFails(n) \/ Restart(n)

Spec == Init /\ [][Next]_vars

\* Blocks keep coming, a sleeping thread wakes up when there is something to
\* do, and every pass of the loop comes to its end.
FairSpec ==
    /\ Spec
    /\ WF_vars(MineBlock)
    /\ \A n \in Node : WF_vars(Wake(n)) /\ []<>(pc[n] = "sleep")

(***************************************************************************)
(* Properties.                                                             *)
(***************************************************************************)

\* Every variable stays in its domain.
TypeOK ==
    /\ Len(chain) \in 1 .. MaxHeight + 1
    /\ pc \in [Node -> {"sleep", "collect", "verify", "compute", "register"}]
    /\ epoch \in [Node -> 0 .. LastBuriedEpoch(MaxHeight)]
    /\ lastPub \in [Node -> 0 .. LastBuriedEpoch(MaxHeight)]
    /\ lastVer \in [Node -> 0 .. LastBuriedEpoch(MaxHeight)]
    /\ settled \in [Node -> 0 .. UMax]
    /\ raced \in [Node -> BOOLEAN]
    /\ faults \in 0 .. MaxFaults

\* A verdict is just: a record is found wrong only if its publisher computes
\* with other parameters or the membership and scores the verifier read are
\* not the ones the publisher read, and a publisher with other parameters is
\* found out whenever its record is about the verified epoch and rests on
\* the same inputs (mc_VerifyPublishedWeights, weight_verifier.h).
VerdictsAreJust ==
    \A n \in Node \ Skewed : \A a \in DOMAIN verdicts[n].of :
        LET v == verdicts[n].of[a]
            invalid == v.verdict \in {"mismatch", "not_a_cluster"}
        IN  /\ invalid => a \in Skewed \/ v.record.basis # v.basis
            /\ (/\ a \in Skewed
                /\ v.record.epoch = verdicts[n].epoch
                /\ v.record.basis = v.basis) => invalid

\* Once none of a node's registrations is unconfirmed, the registry carries
\* the weight it registered last, unless that registration met an earlier
\* one still unconfirmed: the idempotency test of RegisterLocalWeight reads
\* confirmed records only, and nothing orders two unconfirmed ones.
RegisteredWeightStands ==
    \A n \in Node :
        settled[n] # 0 /\ InFlight(n) = {} /\ ~raced[n]
            => GetNodeWeight(n) = settled[n]

\* Whatever reorganisation of at most Margin blocks happens, the blocks of
\* an epoch LastBuriedEpoch has once returned never change, so every node
\* folds the same facts whenever its thread gets to it.
BuriedBlocksAreFinal ==
    [][\A h \in 1 .. LastHeight(LastBuriedEpoch(Height)) + 1 :
          h \in DOMAIN chain' /\ chain'[h] = chain[h]]_vars

\* The coins nobody has spent in chain c.
Utxo(c) == (UNION {tx.outs : tx \in Mined(c)})
              \ UNION {tx.ins : tx \in Mined(c)}

\* The saldo of a cluster is the balance its address has in the ledger at
\* the end of the epoch plus all it has paid to the treasury, payments it
\* signed together with others included (WeightEngine::Saldo).  Said of the
\* newest complete epoch of the chain.
SaldoIsBalancePlusReturned ==
    LET e == HeightToEpoch(Height + 1) - 1
        ledger == Utxo(SubSeq(chain, 1, LastHeight(e) + 1))
    IN  \A k \in Node :
          Saldo(chain, e, k) =
              Value(OwnedBy(ledger, k))
                + SumFunction([i \in 1 .. e |-> Restituted(chain, i, k)])

\* A node that heads a cluster again and again catches up with the chain:
\* it has registered a weight for the newest buried epoch.
EveryNodeCatchesUp ==
    \A n \in Node : []<>(\/ lastPub[n] = LastBuriedEpoch(Height)
                         \/ n \notin Heads(ReadInputs(chain)))
=============================================================================
