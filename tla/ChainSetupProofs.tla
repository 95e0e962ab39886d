-------------------------- MODULE ChainSetupProofs ---------------------------
(***************************************************************************)
(* What the set-up of a chain rests on, for every number of nodes, admins  *)
(* and miners.                                                             *)
(*                                                                         *)
(* The managed stream: a process never waits for a create that does not    *)
(* exist, the name stays unique, and the types hold.                       *)
(*                                                                         *)
(* The permission store: its two roundings, for every consensus share,     *)
(* diversity and granularity.  Both are (n * share - 1) / granularity + 1, *)
(* and both must stay within n or the chain could stop: no grant would     *)
(* ever be approved, or every permitted miner would be barred.             *)
(***************************************************************************)
EXTENDS StreamSetup, Permissions, FiniteSetTheorems, TLAPS

(* A set of at most one create, without counting.                          *)
AtMostOne(S) == S = {} \/ \E x \in Node : S = {x}

(* NameIsUnique without cardinalities.                                     *)
Unique ==
    /\ \A n \in Node : AtMostOne(pool[n]) /\ (seen[n] => pool[n] = {})
    /\ AtMostOne(chain)
    /\ \A n \in Node : seen[n] => chain # {}

SetupInv == TypeOK /\ Unique /\ WaitingIsWarranted

State == [broadcast : BOOLEAN, failures : 0 .. MaxFailures]

-----------------------------------------------------------------------------
(* A call is made only below the bound, so counting its failure stays      *)
(* within it.                                                              *)
LEMMA StateMachine ==
    ASSUME NEW s \in State
    PROVE  /\ RecordBroadcast(s) \in State /\ RecordBroadcast(s).broadcast
           /\ NextStep(s) = "act" =>
                RecordFailure(s) \in State /\ ~RecordFailure(s).broadcast
           /\ Fresh \in State /\ ~Fresh.broadcast
<1>1. s.broadcast \in BOOLEAN /\ s.failures \in 0 .. MaxFailures
  BY DEF State
<1>2. RecordBroadcast(s) \in State /\ RecordBroadcast(s).broadcast
  BY DEF State, RecordBroadcast
<1>3. ASSUME NextStep(s) = "act"
      PROVE  RecordFailure(s) \in State /\ ~RecordFailure(s).broadcast
  <2>1. ~s.broadcast /\ ~(s.failures >= MaxFailures)
    BY <1>3 DEF NextStep
  <2>2. s.failures + 1 \in 0 .. MaxFailures
    BY <1>1, <2>1, SetupAssumption
  <2>3. RecordFailure(s) = [s EXCEPT !.failures = s.failures + 1]
    BY DEF RecordFailure, State
  <2> QED
    BY <2>1, <2>2, <2>3 DEF State
<1>4. Fresh \in State /\ ~Fresh.broadcast
  BY SetupAssumption DEF State, Fresh
<1> QED
  BY <1>2, <1>3, <1>4

(* EnsureStreamReady, wherever the thread calls it.                        *)
LEMMA ReadyStep ==
    ASSUME SetupInv, NEW n \in Node, EnsureStreamReady(n),
           UNCHANGED <<chain, seen>>
    PROVE  /\ create' \in [Node -> State]
           /\ subscribe' \in [Node -> State]
           /\ subscribed' \in [Node -> SUBSET Node]
           /\ pool' \in [Node -> SUBSET Node]
           /\ glitches' \in 0 .. MaxGlitches
           /\ Unique'
           /\ WaitingIsWarranted'
<1>0. /\ create \in [Node -> State] /\ subscribe \in [Node -> State]
      /\ subscribed \in [Node -> SUBSET Node]
      /\ pool \in [Node -> SUBSET Node] /\ chain \in SUBSET Node
      /\ glitches \in 0 .. MaxGlitches
      /\ seen \in [Node -> BOOLEAN]
  BY DEF SetupInv, TypeOK, State
<1>1. CASE GetStreamEntity(n) = {}
  <2>1. EnsureStreamExists(n)
    BY <1>1 DEF EnsureStreamReady
  <2>2. ~seen[n]
    BY <1>1 DEF SetupInv, Unique, GetStreamEntity
  <2>3. UNCHANGED <<subscribe, subscribed, glitches>>
    BY <2>1 DEF EnsureStreamExists
  <2>4. CASE NextStep(create[n]) # "act"
    <3>1. UNCHANGED <<create, pool>>
      BY <2>1, <2>4 DEF EnsureStreamExists
    <3> QED
      BY <1>0, <2>3, <3>1 DEF SetupInv, Unique, AtMostOne, WaitingIsWarranted,
         GetStreamEntity
  <2>5. CASE NextStep(create[n]) = "act" /\ able[n]
    <3>1. /\ create' = [create EXCEPT ![n] = RecordBroadcast(create[n])]
          /\ pool' = [pool EXCEPT ![n] = {n}]
      BY <1>0, <2>1, <2>5 DEF EnsureStreamExists, Create
    <3>2. create' \in [Node -> State] /\ pool' \in [Node -> SUBSET Node]
      BY <1>0, <3>1, StateMachine
    <3>3. Unique'
      BY <1>0, <2>2, <3>1 DEF SetupInv, Unique, AtMostOne
    <3>4. WaitingIsWarranted'
      BY <1>0, <2>2, <3>1 DEF SetupInv, WaitingIsWarranted, GetStreamEntity
    <3> QED
      BY <1>0, <2>3, <3>2, <3>3, <3>4
  <2>6. CASE NextStep(create[n]) = "act" /\ ~able[n]
    <3>1. /\ create' = [create EXCEPT ![n] = RecordFailure(create[n])]
          /\ pool' = pool
      BY <1>0, <2>1, <2>6 DEF EnsureStreamExists, Create
    <3>2. create' \in [Node -> State]
      BY <1>0, <2>6, <3>1, StateMachine
    <3>3. Unique'
      BY <3>1 DEF SetupInv, Unique, AtMostOne
    <3>4. \A m \in Node : create'[m].broadcast => create[m].broadcast
      BY <1>0, <2>6, <3>1, StateMachine
    <3>5. WaitingIsWarranted'
      BY <3>1, <3>4 DEF SetupInv, WaitingIsWarranted, GetStreamEntity
    <3> QED
      BY <1>0, <2>3, <3>1, <3>2, <3>3, <3>5
  <2> QED
    BY <2>4, <2>5, <2>6
<1>2. CASE GetStreamEntity(n) # {}
  <2>1. EnsureSubscribed(n)
    BY <1>2 DEF EnsureStreamReady
  <2>2. UNCHANGED <<create, pool>>
    BY <2>1 DEF EnsureSubscribed
  <2>3. GetStreamEntity(n) \subseteq Node
    BY <1>0 DEF GetStreamEntity
  <2>4. /\ subscribe' \in [Node -> State]
        /\ subscribed' \in [Node -> SUBSET Node]
        /\ glitches' \in 0 .. MaxGlitches
    <3>1. CASE NextStep(subscribe[n]) # "act" \/ GetStreamEntity(n) \subseteq subscribed[n]
      BY <1>0, <2>1, <3>1 DEF EnsureSubscribed
    <3>2. CASE /\ NextStep(subscribe[n]) = "act"
               /\ subscribe' = [subscribe EXCEPT ![n] = RecordBroadcast(@)]
               /\ subscribed' =
                    [subscribed EXCEPT ![n] = @ \cup GetStreamEntity(n)]
               /\ UNCHANGED glitches
      BY <1>0, <2>3, <3>2, StateMachine
    <3>3. CASE /\ NextStep(subscribe[n]) = "act"
               /\ glitches < MaxGlitches
               /\ glitches' = glitches + 1
               /\ subscribe' = [subscribe EXCEPT ![n] = RecordFailure(@)]
               /\ UNCHANGED subscribed
      BY <1>0, <3>3, StateMachine, SetupAssumption
    <3> QED
      BY <2>1, <3>1, <3>2, <3>3 DEF EnsureSubscribed
  <2>5. Unique' /\ WaitingIsWarranted'
    BY <2>2 DEF SetupInv, Unique, AtMostOne, WaitingIsWarranted, GetStreamEntity
  <2> QED
    BY <1>0, <2>2, <2>4, <2>5
<1> QED
  BY <1>1, <1>2

(* The initial state.                                                      *)
LEMMA SetupInit == Init => SetupInv
<1> SUFFICES ASSUME Init PROVE SetupInv
  OBVIOUS
<1>1. Fresh \in [broadcast : BOOLEAN, failures : 0 .. MaxFailures]
      /\ ~Fresh.broadcast
  BY SetupAssumption DEF Fresh
<1>2. TypeOK
  BY <1>1, SetupAssumption DEF Init, TypeOK
<1>3. Unique /\ WaitingIsWarranted
  BY <1>1 DEF Init, Unique, AtMostOne, WaitingIsWarranted
<1> QED
  BY <1>2, <1>3 DEF SetupInv

(* Every step keeps the invariant.                                         *)
LEMMA SetupNext == SetupInv /\ [Next]_vars => SetupInv'
<1> SUFFICES ASSUME SetupInv, [Next]_vars PROVE SetupInv'
  OBVIOUS
<1>0. TypeOK /\ Unique /\ WaitingIsWarranted
  BY DEF SetupInv
<1>1. CASE UNCHANGED vars
  BY <1>0, <1>1 DEF SetupInv, TypeOK, Unique, AtMostOne, WaitingIsWarranted,
     GetStreamEntity, vars, process, network, rights, bounds
<1>2. ASSUME NEW n \in Node, SetupStep(n) PROVE SetupInv'
  <2>1. EnsureStreamReady(n) /\ UNCHANGED <<chain, seen>>
    BY <1>2 DEF SetupStep
  <2>2. /\ create' \in [Node -> State] /\ subscribe' \in [Node -> State]
        /\ subscribed' \in [Node -> SUBSET Node]
        /\ pool' \in [Node -> SUBSET Node]
        /\ glitches' \in 0 .. MaxGlitches
        /\ Unique' /\ WaitingIsWarranted'
    BY <2>1, ReadyStep
  <2>3. TypeOK'
    BY <1>0, <1>2, <2>2 DEF TypeOK, State, SetupStep, rights
  <2> QED
    BY <2>2, <2>3 DEF SetupInv
<1>3. ASSUME NEW n \in Node, RegisterLocalWeight(n) PROVE SetupInv'
  <2>0. /\ UNCHANGED <<chain, seen, landed, rights, restarts, reorgs>>
        /\ pc' = [pc EXCEPT ![n] = "setup"]
    BY <1>3 DEF RegisterLocalWeight
  <2>1. CASE due[n] /\ ~done[n]
    <3>1. EnsureStreamReady(n)
      BY <1>3, <2>1 DEF RegisterLocalWeight
    <3>2. /\ create' \in [Node -> State] /\ subscribe' \in [Node -> State]
          /\ subscribed' \in [Node -> SUBSET Node]
          /\ pool' \in [Node -> SUBSET Node]
          /\ glitches' \in 0 .. MaxGlitches
          /\ Unique' /\ WaitingIsWarranted'
      BY <2>0, <3>1, ReadyStep
    <3>3. GetStreamEntity(n) \subseteq Node
      BY <1>0 DEF GetStreamEntity, TypeOK
    <3>4. PublishWeightRecord(n) \/ UNCHANGED <<sent, done>>
      BY <1>3, <2>1 DEF RegisterLocalWeight
    <3>5. sent' \in [Node -> SUBSET Node] /\ done' \in [Node -> BOOLEAN]
      <4>0. sent \in [Node -> SUBSET Node] /\ done \in [Node -> BOOLEAN]
        BY <1>0 DEF TypeOK
      <4>1. \/ sent' = sent
            \/ sent' = [sent EXCEPT ![n] = @ \cup GetStreamEntity(n)]
        BY <3>4 DEF PublishWeightRecord
      <4>2. done' = done \/ done' = [done EXCEPT ![n] = TRUE]
        BY <3>4 DEF PublishWeightRecord
      <4> QED
        BY <3>3, <4>0, <4>1, <4>2
    <3>6. TypeOK'
      BY <1>0, <2>0, <3>2, <3>5 DEF TypeOK, State, rights
    <3> QED
      BY <3>2, <3>6 DEF SetupInv
  <2>2. CASE ~(due[n] /\ ~done[n])
    <3>1. UNCHANGED <<create, pool, subscribe, subscribed, glitches, sent, done>>
      BY <1>3, <2>2 DEF RegisterLocalWeight
    <3>2. TypeOK'
      BY <1>0, <2>0, <3>1 DEF TypeOK, rights
    <3>3. Unique' /\ WaitingIsWarranted'
      BY <1>0, <2>0, <3>1 DEF Unique, AtMostOne, WaitingIsWarranted,
         GetStreamEntity
    <3> QED
      BY <3>2, <3>3 DEF SetupInv
  <2> QED
    BY <2>1, <2>2
<1>4. ASSUME NEW m \in Node, NEW n \in Node, Relay(m, n) PROVE SetupInv'
  <2>1. TypeOK'
    BY <1>0, <1>4 DEF Relay, TypeOK, process, rights, bounds
  <2>2. Unique'
    BY <1>0, <1>4 DEF Relay, Unique, AtMostOne, TypeOK
  <2>3. WaitingIsWarranted'
    BY <1>0, <1>4 DEF Relay, WaitingIsWarranted, GetStreamEntity, TypeOK, process
  <2> QED
    BY <2>1, <2>2, <2>3 DEF SetupInv
<1>5. ASSUME NEW m \in Node, MineCreate(m) PROVE SetupInv'
  <2>1. TypeOK'
    BY <1>0, <1>5 DEF MineCreate, TypeOK, process, rights, bounds
  <2>2. Unique'
    BY <1>0, <1>5 DEF MineCreate, Unique, AtMostOne, TypeOK
  <2>3. WaitingIsWarranted'
    BY <1>0, <1>5 DEF MineCreate, WaitingIsWarranted, GetStreamEntity, Unique,
       TypeOK, process
  <2> QED
    BY <2>1, <2>2, <2>3 DEF SetupInv
<1>6. ASSUME NEW n \in Node, Connect(n) PROVE SetupInv'
  <2>1. TypeOK'
    BY <1>0, <1>6 DEF Connect, TypeOK, process, rights, bounds
  <2>2. Unique'
    BY <1>0, <1>6 DEF Connect, Unique, AtMostOne, TypeOK
  <2>3. WaitingIsWarranted'
    BY <1>0, <1>6 DEF Connect, WaitingIsWarranted, GetStreamEntity, TypeOK,
       process
  <2> QED
    BY <2>1, <2>2, <2>3 DEF SetupInv
<1>7. ASSUME Reorg PROVE SetupInv'
  <2>1. TypeOK'
    BY <1>0, <1>7, SetupAssumption DEF Reorg, TypeOK, process, rights
  <2>2. Unique'
    BY <1>0, <1>7 DEF Reorg, Unique, AtMostOne, TypeOK
  <2>3. WaitingIsWarranted'
    BY <1>0, <1>7 DEF Reorg, WaitingIsWarranted, GetStreamEntity, TypeOK,
       process
  <2> QED
    BY <2>1, <2>2, <2>3 DEF SetupInv
<1>8. ASSUME NEW n \in Node,
             MineRecord(n) \/ EnableCreate(n) \/ GrantWrite(n) \/ BuryEpoch(n)
      PROVE  SetupInv'
  <2>1. UNCHANGED <<create, pool, chain, seen>>
    BY <1>8 DEF MineRecord, EnableCreate, GrantWrite, BuryEpoch, process, network
  <2>2. TypeOK'
    <3>1. CASE MineRecord(n)
      BY <1>0, <3>1 DEF MineRecord, TypeOK, process, rights, bounds
    <3>2. CASE EnableCreate(n)
      BY <1>0, <3>2 DEF EnableCreate, TypeOK, process, network, bounds
    <3>3. CASE GrantWrite(n)
      BY <1>0, <3>3 DEF GrantWrite, TypeOK, process, network, bounds
    <3>4. CASE BuryEpoch(n)
      BY <1>0, <3>4 DEF BuryEpoch, TypeOK, process, network, bounds
    <3> QED
      BY <1>8, <3>1, <3>2, <3>3, <3>4
  <2>3. Unique' /\ WaitingIsWarranted'
    BY <1>0, <2>1 DEF Unique, AtMostOne, WaitingIsWarranted, GetStreamEntity
  <2> QED
    BY <2>2, <2>3 DEF SetupInv
<1>9. ASSUME NEW n \in Node, Restart(n) PROVE SetupInv'
  <2>0. Fresh \in State /\ ~Fresh.broadcast
    BY SetupAssumption DEF State, Fresh
  <2>1. TypeOK'
    BY <1>0, <1>9, <2>0, SetupAssumption DEF Restart, TypeOK, State, rights
  <2>2. Unique'
    <3>1. /\ pool' = [pool EXCEPT ![n] = pool[n] \cap {n}]
          /\ UNCHANGED <<chain, seen>>
      BY <1>0, <1>9 DEF Restart, TypeOK
    <3>2. \A m \in Node : pool'[m] = pool[m] \/ pool'[m] = {n} \/ pool'[m] = {}
      BY <1>0, <3>1 DEF TypeOK
    <3>3. \A m \in Node : pool[m] = {} => pool'[m] = {}
      BY <1>0, <3>1 DEF TypeOK
    <3> QED
      BY <1>0, <3>1, <3>2, <3>3 DEF Unique, AtMostOne
  <2>3. WaitingIsWarranted'
    BY <1>0, <1>9, <2>0 DEF Restart, WaitingIsWarranted, GetStreamEntity, TypeOK
  <2> QED
    BY <2>1, <2>2, <2>3 DEF SetupInv
<1> QED
  BY <1>1, <1>2, <1>3, <1>4, <1>5, <1>6, <1>7, <1>8, <1>9 DEF Next

(* The invariant of the three results below.                               *)
LEMMA SetupInvariant == Spec => []SetupInv
BY SetupInit, SetupNext, PTL DEF Spec

(* Type correctness; no step is tried more than MaxFailures times.         *)
THEOREM SetupTypeCorrect == Spec => []TypeOK
<1>1. SetupInv => TypeOK
  BY DEF SetupInv
<1> QED
  BY <1>1, SetupInvariant, PTL

(* A process whose create is latched (MC_SSA_WAIT) always has a create     *)
(* transaction to wait for, in its node's mempool or confirmed, through    *)
(* races of admins, reorganisations and restarts.                          *)
THEOREM NoEmptyWait == Spec => []WaitingIsWarranted
<1>1. SetupInv => WaitingIsWarranted
  BY DEF SetupInv
<1> QED
  BY <1>1, SetupInvariant, PTL

(* However many admins race, no mempool and no chain ever holds two        *)
(* creates of the stream's name.                                           *)
THEOREM NameStaysUnique == Spec => []NameIsUnique
<1>1. \A S : AtMostOne(S) => Cardinality(S) <= 1
  <2> SUFFICES ASSUME NEW S, AtMostOne(S) PROVE Cardinality(S) <= 1
    OBVIOUS
  <2>1. CASE S = {}
    BY <2>1, FS_EmptySet
  <2>2. ASSUME NEW x \in Node, S = {x} PROVE Cardinality(S) <= 1
    BY <2>2, FS_Singleton
  <2> QED
    BY <2>1, <2>2 DEF AtMostOne
<1>2. SetupInv => NameIsUnique
  BY <1>1 DEF SetupInv, Unique, NameIsUnique
<1> QED
  BY <1>2, SetupInvariant, PTL

-----------------------------------------------------------------------------
\* The share of n rounded up lies between 1 and n.
LEMMA RoundedShare ==
    ASSUME NEW n \in Nat, n >= 1, NEW share \in Nat, share >= 1, share <= Gran
    PROVE  /\ (n * share - 1) \div Gran + 1 \in 1 .. n
           /\ n * share <= Gran * ((n * share - 1) \div Gran + 1)
<1>. USE PermissionsAssumption
<1>. DEFINE x == n * share - 1
            q == x \div Gran
<1>1. n * share \in Nat /\ n * share >= 1
  BY SMT
<1>2. x \in Nat
  BY <1>1
<1>3. n * share <= n * Gran
  BY SMT
<1>. HIDE DEF x
<1>4. q \in Nat /\ q * Gran <= x /\ x < q * Gran + Gran
  BY <1>2, SMT
<1>. HIDE DEF q
<1>5. q <= n - 1
  <2>. SUFFICES ASSUME n <= q PROVE FALSE
    BY <1>4
  <2>1. n * Gran <= q * Gran
    BY <1>4, SMT
  <2>2. n * Gran \in Nat /\ q * Gran \in Nat
    BY <1>4, SMT
  <2>. QED  BY <1>1, <1>3, <1>4, <2>1, <2>2 DEF x
<1>6. n * share <= Gran * (q + 1)
  <2>1. Gran * (q + 1) = q * Gran + Gran /\ q * Gran \in Nat
    BY <1>4, SMT
  <2>. QED  BY <1>1, <1>4, <2>1 DEF x
<1>. QED  BY <1>4, <1>5, <1>6 DEF q, x

\* The approvals VerifyConsensus asks for are at least one, and never more
\* than there are admins, so a change all admins approve goes through; and
\* outside the setup period they are no smaller a share of the admins than
\* adminconsensus demands (AdminConsensus, permission.cpp).
THEOREM ConsensusIsAttainable ==
    ASSUME NEW s, s.counts.admin \in Nat, s.counts.admin >= 1,
           NEW type \in {"admin", "mine"}
    PROVE  /\ AdminConsensus(s, type) \in 1 .. s.counts.admin
           /\ ~IsSetupPeriod(s)
                => s.counts.admin * Need[type] <= Gran * AdminConsensus(s, type)
<1>. USE PermissionsAssumption
<1>. DEFINE n == s.counts.admin
            share == Need[type]
<1>1. n \in Nat /\ n >= 1 /\ share \in 0 .. Gran
  OBVIOUS
<1>2. CASE share = 0
  <2>1. AdminConsensus(s, type) = 1
    BY <1>2 DEF AdminConsensus
  <2>2. n * share = 0
    BY <1>1, <1>2
  <2>. QED  BY <1>1, <2>1, <2>2
<1>3. CASE share >= 1
  <2>1. /\ (n * share - 1) \div Gran + 1 \in 1 .. n
        /\ n * share <= Gran * ((n * share - 1) \div Gran + 1)
    <3>1. n \in Nat /\ n >= 1 /\ share \in Nat /\ share >= 1 /\ share <= Gran
      BY <1>1, <1>3
    <3>. HIDE DEF n, share
    <3>. HIDE PermissionsAssumption
    <3>. QED  BY <3>1, RoundedShare
  <2>2. CASE IsSetupPeriod(s)
    BY <1>1, <2>2 DEF AdminConsensus
  <2>3. CASE ~IsSetupPeriod(s)
    <3>1. AdminConsensus(s, type) = (n * share - 1) \div Gran + 1
      BY <1>1, <1>3, <2>3 DEF AdminConsensus
    <3>. QED  BY <2>1, <2>3, <3>1
  <2>. QED  BY <2>2, <2>3
<1>. QED  BY <1>1, <1>2, <1>3

\* Mining diversity never bars everybody: of count permitted miners one has
\* not mined any of the count - 1 blocks before, and it is not barred
\* (IsBarredByDiversity, permission.cpp).
THEOREM DiversityLeavesOneMiner ==
    ASSUME NEW block \in Nat, NEW last \in Nat, NEW count \in Nat,
           last <= block - count
    PROVE  ~IsBarredByDiversity(block, last, count)
<1>. USE PermissionsAssumption
<1>1. CASE count = 0
  BY <1>1 DEF IsBarredByDiversity
<1>2. CASE count >= 1 /\ Diversity > 0
  <2>. DEFINE spacing == (count * Diversity - 1) \div Gran + 1
  <2>1. spacing \in 1 .. count
    BY <1>2, RoundedShare
  <2>. HIDE DEF spacing
  <2>2. IsBarredByDiversity(block, last, count) => block - last <= spacing - 1
    BY <1>2, <2>1 DEF IsBarredByDiversity, spacing
  <2>. QED  BY <2>1, <2>2
<1>3. CASE count >= 1 /\ ~(Diversity > 0)
  BY <1>3 DEF IsBarredByDiversity
<1>. QED  BY <1>1, <1>2, <1>3
=============================================================================
