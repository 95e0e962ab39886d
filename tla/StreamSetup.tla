----------------------------- MODULE StreamSetup -----------------------------
(***************************************************************************)
(* How the nodes bring the stream wpoa-weights into being and put their    *)
(* weight on it: the create-and-subscribe state machine of                 *)
(* src/src/wpoa/stream_setup_state.h as StreamWeightRegistry drives it     *)
(* from the weight engine's thread (ThreadWeightEngine), one iteration of  *)
(* its loop being EnsureStreamReady followed by RegisterLocalWeight.       *)
(*                                                                         *)
(* Every node may try to create the stream; names are unique, so of two    *)
(* create transactions only one can be confirmed.  A stream is named by    *)
(* its creator, which issues one create transaction per process: the       *)
(* subscription and the published items carry the create's txid, not the   *)
(* stream's name.  One weight per node, for one epoch, is to be published. *)
(***************************************************************************)
EXTENDS Naturals, FiniteSets

CONSTANTS
    Node,
    Admin,         \* nodes that come to hold create permission and funds
    MaxFailures,   \* MC_WPOA_STREAM_SETUP_MAX_FAILURES
    Patience,      \* failed creates an admin makes before it may create
    MaxGlitches,   \* bound: subscribe calls that throw
    MaxRestarts,   \* bound: restarts of processes
    MaxReorgs,     \* bound: reorganisations that undo the create
    MaxFaults      \* bound: all of these together

ASSUME SetupAssumption ==
    /\ Admin \subseteq Node
    /\ MaxFailures \in Nat
    /\ Patience \in Nat
    /\ MaxGlitches \in Nat
    /\ MaxRestarts \in Nat
    /\ MaxReorgs \in Nat
    /\ MaxFaults \in Nat

VARIABLES
    create,      \* node -> m_Create
    subscribe,   \* node -> m_Subscribe
    subscribed,  \* node -> streams in the wallet's subscriptions
    pc,          \* node -> the call the thread makes next
    done,        \* node -> last_published_epoch is this epoch
    able,        \* node -> holds create permission and an output to spend
    granted,     \* node -> holds the stream's write permission
    due,         \* node -> the epoch is buried, a weight can be computed
    pool,        \* node -> create transaction in its mempool, at most one
    sent,        \* node -> streams its weight record was broadcast to
    chain,       \* the stream the chain has confirmed: {} or one
    seen,        \* node -> it has connected the block with that create
    landed,      \* node -> its record is confirmed
    glitches,    \* number of subscribe calls that threw
    restarts,    \* number of restarts
    reorgs       \* number of reorganisations

process == <<create, subscribe, pc, done>>
network == <<pool, sent, chain, seen, landed>>
rights == <<able, granted, due>>
bounds == <<glitches, restarts, reorgs>>
vars == <<process, subscribed, network, rights, bounds>>

(* One more fault is within the bound of all of them.                      *)
MayFail == glitches + restarts + reorgs < MaxFaults

-----------------------------------------------------------------------------
(* mc_StreamSetupState *)

Fresh == [broadcast |-> FALSE, failures |-> 0]

(* One failure too many before giving up.                                  *)
NextStepLate(s) ==
    IF s.broadcast THEN "wait"
    ELSE IF s.failures > MaxFailures THEN "give_up" ELSE "act"

NextStep(s) ==
    IF s.broadcast THEN "wait"
    ELSE IF s.failures >= MaxFailures THEN "give_up" ELSE "act"

RecordBroadcast(s) == [s EXCEPT !.broadcast = TRUE]

RecordFailure(s) == [s EXCEPT !.failures = @ + 1]

-----------------------------------------------------------------------------
(* StreamWeightRegistry *)

(* GetStreamEntity: the stream that the name resolves to at n.             *)
(* FindEntityByName also searches the mempool's entities, so the name      *)
(* resolves as soon as a create transaction is in n's mempool.             *)
GetStreamEntity(n) == IF seen[n] THEN chain ELSE pool[n]

(* What holds of the network, not of the code: an admin's permission and   *)
(* funds arrive before it has failed more than Patience times.             *)
PermissionInTime(n) == n \in Admin => create[n].failures < Patience

(* The latch set whether or not the create threw.                          *)
CreateLatchedFirst(n) ==
    /\ create' = [create EXCEPT ![n] = RecordBroadcast(@)]
    /\ pool' = IF able[n] THEN [pool EXCEPT ![n] = {n}] ELSE pool

(* createcmd and what EnsureStreamExists makes of it: it throws without    *)
(* the create permission or an output to spend.                            *)
Create(n) ==
    IF able[n]
    THEN /\ create' = [create EXCEPT ![n] = RecordBroadcast(@)]
         /\ pool' = [pool EXCEPT ![n] = {n}]
    ELSE /\ PermissionInTime(n)
         /\ create' = [create EXCEPT ![n] = RecordFailure(@)]
         /\ UNCHANGED pool

EnsureStreamExists(n) ==
    /\ IF NextStep(create[n]) = "act" THEN Create(n)
                                      ELSE UNCHANGED <<create, pool>>
    /\ UNCHANGED <<subscribe, subscribed, glitches>>

(* The call may throw for reasons outside this model, MaxGlitches times.   *)
EnsureSubscribed(n) ==
    /\ IF ~(GetStreamEntity(n) \subseteq subscribed[n])
           /\ NextStep(subscribe[n]) = "act"
       THEN \/ /\ subscribe' = [subscribe EXCEPT ![n] = RecordBroadcast(@)]
               /\ subscribed' =
                    [subscribed EXCEPT ![n] = @ \cup GetStreamEntity(n)]
               /\ UNCHANGED glitches
            \/ /\ MayFail /\ glitches < MaxGlitches
               /\ glitches' = glitches + 1
               /\ subscribe' = [subscribe EXCEPT ![n] = RecordFailure(@)]
               /\ UNCHANGED subscribed
       ELSE UNCHANGED <<subscribe, subscribed, glitches>>
    /\ UNCHANGED <<create, pool>>

EnsureStreamReady(n) ==
    IF GetStreamEntity(n) = {} THEN EnsureStreamExists(n)
                               ELSE EnsureSubscribed(n)

SetupStep(n) ==
    /\ pc[n] = "setup"
    /\ EnsureStreamReady(n)
    /\ pc' = [pc EXCEPT ![n] = "register"]
    /\ UNCHANGED <<done, sent, chain, seen, landed, rights, restarts, reorgs>>

(* The creator of a stream may write to it without a grant.                *)
MayWrite(n) == granted[n] \/ n \in GetStreamEntity(n)

(* A publish whose exception is taken for success.                         *)
PublishUnchecked(n) ==
    /\ sent' = [sent EXCEPT ![n] =
                    IF MayWrite(n) THEN @ \cup GetStreamEntity(n) ELSE @]
    /\ done' = [done EXCEPT ![n] = TRUE]

(* The end of RegisterLocalWeight: nothing to publish when the confirmed   *)
(* record already carries the weight, a publish otherwise.  The thread     *)
(* advances last_published_epoch on success.                               *)
PublishWeightRecord(n) ==
    IF landed[n] /\ seen[n]
    THEN /\ done' = [done EXCEPT ![n] = TRUE]
         /\ UNCHANGED sent
    ELSE IF MayWrite(n)
    THEN /\ sent' = [sent EXCEPT ![n] = @ \cup GetStreamEntity(n)]
         /\ done' = [done EXCEPT ![n] = TRUE]
    ELSE UNCHANGED <<sent, done>>

(* The rest of the loop's body.  A subscription made by the call counts at *)
(* once: subscribe scans the chain before it returns.                      *)
RegisterLocalWeight(n) ==
    /\ pc[n] = "register"
    /\ IF due[n] /\ ~done[n]
       THEN /\ EnsureStreamReady(n)
            /\ IF GetStreamEntity(n) # {}
                   /\ GetStreamEntity(n) \subseteq subscribed'[n]
               THEN PublishWeightRecord(n)
               ELSE UNCHANGED <<sent, done>>
       ELSE UNCHANGED <<create, pool, subscribe, subscribed, glitches, sent, done>>
    /\ pc' = [pc EXCEPT ![n] = "setup"]
    /\ UNCHANGED <<chain, seen, landed, rights, restarts, reorgs>>

Step(n) == SetupStep(n) \/ RegisterLocalWeight(n)

-----------------------------------------------------------------------------
(* The network and the administrators *)

(* A create transaction reaches a mempool where the name is free.          *)
Relay(m, n) ==
    /\ pool[m] # {} /\ GetStreamEntity(n) = {} /\ ~seen[n]
    /\ pool' = [pool EXCEPT ![n] = pool[m]]
    /\ UNCHANGED <<process, subscribed, sent, chain, seen, landed, rights,
                   bounds>>

(* m mines the create in its mempool.                                      *)
MineCreate(m) ==
    /\ chain = {} /\ pool[m] # {}
    /\ chain' = pool[m]
    /\ seen' = [seen EXCEPT ![m] = TRUE]
    /\ pool' = [pool EXCEPT ![m] = {}]
    /\ UNCHANGED <<process, subscribed, sent, landed, rights, bounds>>

(* Without the replay of the mempool.                                      *)
ConnectNoReplay(n) ==
    /\ chain # {} /\ ~seen[n]
    /\ seen' = [seen EXCEPT ![n] = TRUE]
    /\ UNCHANGED <<process, subscribed, pool, sent, chain, landed, rights,
                   bounds>>

(* n connects that block.  The replay of the mempool that follows drops    *)
(* every other create of the name.                                         *)
Connect(n) ==
    /\ chain # {} /\ ~seen[n]
    /\ seen' = [seen EXCEPT ![n] = TRUE]
    /\ pool' = [pool EXCEPT ![n] = {}]
    /\ UNCHANGED <<process, subscribed, sent, chain, landed, rights, bounds>>

(* n's record is mined, which needs its stream to be the confirmed one.    *)
MineRecord(n) ==
    /\ chain # {} /\ chain \subseteq sent[n] /\ ~landed[n]
    /\ landed' = [landed EXCEPT ![n] = TRUE]
    /\ UNCHANGED <<process, subscribed, pool, sent, chain, seen, rights, bounds>>

(* The blocks with the create and the records lose to another branch; the  *)
(* transactions go back to the mempools of the nodes that had the blocks.  *)
Reorg ==
    /\ chain # {} /\ MayFail /\ reorgs < MaxReorgs
    /\ pool' = [n \in Node |-> IF seen[n] THEN chain ELSE pool[n]]
    /\ chain' = {}
    /\ seen' = [n \in Node |-> FALSE]
    /\ landed' = [n \in Node |-> FALSE]
    /\ reorgs' = reorgs + 1
    /\ UNCHANGED <<process, subscribed, sent, rights, glitches, restarts>>

EnableCreate(n) ==
    /\ n \in Admin /\ ~able[n]
    /\ able' = [able EXCEPT ![n] = TRUE]
    /\ UNCHANGED <<process, subscribed, network, granted, due, bounds>>

GrantWrite(n) ==
    /\ chain # {} /\ ~granted[n]
    /\ granted' = [granted EXCEPT ![n] = TRUE]
    /\ UNCHANGED <<process, subscribed, network, able, due, bounds>>

BuryEpoch(n) ==
    /\ ~due[n]
    /\ due' = [due EXCEPT ![n] = TRUE]
    /\ UNCHANGED <<process, subscribed, network, able, granted, bounds>>

(* A new process: the registry object is built anew, the subscriptions are *)
(* in the wallet's database, and of the mempool the wallet brings back     *)
(* what n sent itself (ReacceptWalletTransactions).                        *)
Restart(n) ==
    /\ MayFail /\ restarts < MaxRestarts
    /\ restarts' = restarts + 1
    /\ create' = [create EXCEPT ![n] = Fresh]
    /\ subscribe' = [subscribe EXCEPT ![n] = Fresh]
    /\ pc' = [pc EXCEPT ![n] = "setup"]
    /\ done' = [done EXCEPT ![n] = FALSE]
    /\ pool' = [pool EXCEPT ![n] = @ \cap {n}]
    /\ UNCHANGED <<subscribed, sent, chain, seen, landed, rights, glitches,
                   reorgs>>

Init ==
    /\ create = [n \in Node |-> Fresh]
    /\ subscribe = [n \in Node |-> Fresh]
    /\ subscribed = [n \in Node |-> {}]
    /\ pc = [n \in Node |-> "setup"]
    /\ done = [n \in Node |-> FALSE]
    /\ able = [n \in Node |-> FALSE]
    /\ granted = [n \in Node |-> FALSE]
    /\ due = [n \in Node |-> FALSE]
    /\ pool = [n \in Node |-> {}]
    /\ sent = [n \in Node |-> {}]
    /\ chain = {}
    /\ seen = [n \in Node |-> FALSE]
    /\ landed = [n \in Node |-> FALSE]
    /\ glitches = 0
    /\ restarts = 0
    /\ reorgs = 0

Next ==
    \/ \E n \in Node : SetupStep(n) \/ RegisterLocalWeight(n)
    \/ \E m, n \in Node : Relay(m, n)
    \/ \E n \in Node : MineCreate(n) \/ Connect(n) \/ MineRecord(n)
    \/ Reorg
    \/ \E n \in Node : EnableCreate(n) \/ GrantWrite(n) \/ BuryEpoch(n)
    \/ \E n \in Node : Restart(n)

Spec == Init /\ [][Next]_vars

(* The threads keep ticking, blocks keep being mined and connected, and    *)
(* the administrators do what the documentation asks of them.              *)
FairSpec ==
    /\ Spec
    /\ \A n \in Node :
        /\ WF_vars(Step(n))
        /\ WF_vars(MineCreate(n))
        /\ WF_vars(Connect(n))
        /\ WF_vars(MineRecord(n))
        /\ WF_vars(EnableCreate(n))
        /\ WF_vars(GrantWrite(n))
        /\ WF_vars(BuryEpoch(n))

-----------------------------------------------------------------------------
(* Properties *)

(* The types of the variables; the counters of failed attempts never pass  *)
(* the bound after which the step is given up.                             *)
TypeOK ==
    /\ create \in [Node -> [broadcast : BOOLEAN, failures : 0 .. MaxFailures]]
    /\ subscribe \in [Node -> [broadcast : BOOLEAN, failures : 0 .. MaxFailures]]
    /\ subscribed \in [Node -> SUBSET Node]
    /\ pc \in [Node -> {"setup", "register"}]
    /\ done \in [Node -> BOOLEAN]
    /\ able \in [Node -> BOOLEAN]
    /\ granted \in [Node -> BOOLEAN]
    /\ due \in [Node -> BOOLEAN]
    /\ pool \in [Node -> SUBSET Node]
    /\ sent \in [Node -> SUBSET Node]
    /\ chain \in SUBSET Node
    /\ seen \in [Node -> BOOLEAN]
    /\ landed \in [Node -> BOOLEAN]
    /\ glitches \in 0 .. MaxGlitches
    /\ restarts \in 0 .. MaxRestarts
    /\ reorgs \in 0 .. MaxReorgs

(* A process that has latched its create (Next() answers MC_SSA_WAIT) is   *)
(* waiting for something that exists: the name resolves at its node, in    *)
(* the mempool or on the chain.  This is what latching only on a call that *)
(* did not throw is for: a latch without a transaction waits for ever.     *)
WaitingIsWarranted ==
    \A n \in Node : create[n].broadcast => GetStreamEntity(n) # {}

(* The name is unique: no mempool holds two creates of it, the chain has   *)
(* confirmed at most one, and a node that has connected it drops its own.  *)
NameIsUnique ==
    /\ \A n \in Node : Cardinality(pool[n]) <= 1 /\ (seen[n] => pool[n] = {})
    /\ Cardinality(chain) <= 1
    /\ (\E n \in Node : seen[n]) => chain # {}

(* Every node ends up subscribed to the confirmed stream: EnsureStreamReady *)
(* "waits for the admin's stream and subscribes to it".                     *)
EveryoneReady ==
    <>[](chain # {} /\ \A n \in Node : seen[n] /\ chain \subseteq subscribed[n])

(* A weight that RegisterLocalWeight reported as registered is confirmed   *)
(* sooner or later: it "returns true when the record is (or already was)   *)
(* in place, false while prerequisites are still pending".                 *)
SubmittedBecomesVisible == \A n \in Node : done[n] ~> landed[n]

=============================================================================
