-------------------------- MODULE PermissionChain --------------------------
(***************************************************************************)
(* One node that follows a chain under the native mining rules: blocks come *)
(* in any order, the miners of side branches are checked against a virtual  *)
(* roll-back of the permission store, the node reorganises, and it may be   *)
(* killed at any point at which what is on disk differs.  core/main.cpp     *)
(* (AcceptBlock, FindMostWorkChain, ActivateBestChainStep, ConnectTip,      *)
(* DisconnectTip, LoadBlockIndexDB) and VerifyBlockMiner of                 *)
(* protocol/multichainblock.cpp, over the store of Permissions.             *)
(*                                                                          *)
(* A chain is the sequence of its blocks above genesis; a block is named by *)
(* the chain it ends.  Every step runs under cs_main, so an activation that *)
(* has begun is left only by its own steps or by a crash.                   *)
(***************************************************************************)
EXTENDS Permissions

CONSTANTS
  Universe,     \* the chains whose last blocks may arrive; closed under prefixes
  Grants,       \* the grant transactions that may be submitted
  MaxArrivals,  \* bound on the blocks that arrive
  MaxTxs,       \* bound on the submitted transactions
  MaxCrashes    \* bound on the crashes

ASSUME ChainAssumption ==
  /\ \A c \in Universe : c # <<>> /\ (Len(c) = 1 \/ Front(c) \in Universe)
  /\ {MaxArrivals, MaxTxs, MaxCrashes} \subseteq Nat

VARIABLES
  perm,      \* the permission store, Permissions
  active,    \* chainActive, which every connection and disconnection flushes
  have,      \* blocks with BLOCK_HAVE_DATA
  failed,    \* blocks with BLOCK_FAILED_MASK
  passed,    \* blocks with fPassedMinerPrecheck, a flag held in memory only
  flushed,   \* the values of have and failed the block index on disk has
  target,    \* the chain being activated and the length of the tip it replaces
  txs,       \* grants in the transaction memory pool, in its order
  guessed,   \* blocks judged on a branch with a block not verified before them
  status,    \* "up", "down" after a crash, "corrupt" when start-up refuses the store
  used       \* arrivals, submissions and crashes so far

vars == <<perm, active, have, failed, passed, flushed, target, txs, guessed, status, used>>
NoTarget == [chain |-> <<>>, old |-> 0]

Fork(c) == LongestCommonPrefix({active, c})
Upto(c, h) == SubSeq(c, 1, h)
Branch(c) == {Upto(c, h) : h \in Len(Fork(c)) + 1 .. Len(c)}
Complete(c) == \A h \in 1 .. Len(c) : Upto(c, h) \in have

-----------------------------------------------------------------------------
(* VerifyBlockMiner *)

\* The blocks of the branch up to the fork, the store being rolled back there.
\* A block verified before is replayed from its record; one that was not is
\* judged now, against the last height of the miner of the branch's last block.
VerifyBranch(s, c) ==
  LET fork == Len(Fork(c))
      Seen(acc, h) == IF c[h].miner = c[Len(c)].miner THEN h ELSE acc.last
      Granted(acc, r) == [acc EXCEPT !.s = r.s, !.how = IF r.ok THEN "on" ELSE "reject"]
      Pass(acc, h, s2) == [acc EXCEPT !.s = s2, !.passed = @ \cup {Upto(c, h)}]
      Known(acc, h) ==
        IF acc.how # "on" THEN acc ELSE Pass(acc, h, IncrementBlock(acc.s, acc.s.info[Upto(c, h)].counts))
      Judged(acc, h) ==
        IF acc.how # "on" THEN acc ELSE Pass(acc, h, StoreBlockInfo(acc.s, c[h].miner, Upto(c, h)))
      Judge(acc, h) ==
        IF CanMineBlockOnFork(acc.s, c[h].miner, h, acc.last)
        THEN Judged(Granted(acc, AcceptGrants(acc.s, c[h].grants)), h)
        ELSE [acc EXCEPT !.how = "reject"]
      Step(acc, h) ==
        IF acc.how # "on" THEN acc
        ELSE IF h < Len(c) /\ Upto(c, h) \in DOMAIN acc.s.info
        THEN Known([Granted(acc, AcceptGrants(acc.s, acc.s.info[Upto(c, h)].grants))
                      EXCEPT !.last = Seen(acc, h)], h)
        ELSE IF h < Len(c) /\ Upto(c, h) \notin have THEN [acc EXCEPT !.how = "skip"]
        ELSE Judge(IF h = Len(c) THEN acc ELSE [acc EXCEPT !.last = Seen(acc, h), !.guess = TRUE], h)
      Result(done) ==
        [s |-> RestoreAfterMinerVerification(done.s), ok |-> done.how # "reject",
         passed |-> done.passed, guessed |-> IF done.guess THEN Branch(c) ELSE {}]
  IN Result(FoldLeft(Step, [s |-> RollBackBeforeMinerVerification(s, fork), last |-> 0,
                            passed |-> {}, guess |-> FALSE, how |-> "on"],
                     [i \in 1 .. Len(c) - fork |-> fork + i]))

\* given: the caller holds the block.  bad: the blocks that failed so far.
VerifyBlockMiner(s, c, given, bad) ==
  LET Verdict(ok, through) == [s |-> s, ok |-> ok, passed |-> through, guessed |-> {}]
  IN IF Fork(c) = c THEN Verdict(TRUE, {c})
     ELSE IF ~given /\ c \notin have THEN Verdict(TRUE, {})
     ELSE IF Branch(c) \cap bad # {} THEN Verdict(FALSE, {})
     ELSE VerifyBranch(s, c)

-----------------------------------------------------------------------------
(* Blocks and transactions arrive *)

Idle == status = "up" /\ target = NoTarget

\* AcceptBlock for a block whose header, and whose ancestors' headers, are known.
AcceptBlock(c) ==
  /\ Idle /\ used.blocks < MaxArrivals
  /\ c \notin have \cup failed /\ Front(c) \notin failed
  /\ \E v \in {VerifyBlockMiner(perm, c, TRUE, failed)} :
       /\ perm' = v.s
       /\ passed' = passed \cup v.passed
       /\ guessed' = guessed \cup v.guessed
       /\ have' = IF v.ok THEN have \cup {c} ELSE have
       /\ failed' = IF v.ok THEN failed ELSE failed \cup {c}
  /\ used' = [used EXCEPT !.blocks = @ + 1]
  /\ UNCHANGED <<active, flushed, target, txs, status>>

Confirmed(g) == \E i \in DOMAIN active : g \in Range(active[i].grants)

\* A grant transaction enters the memory pool.
AcceptTx(g) ==
  /\ Idle /\ used.txs < MaxTxs
  /\ g \notin Range(txs) /\ ~Confirmed(g) /\ CanAdmin(perm, g.admin)
  /\ perm' = SetPermission(perm, g)
  /\ txs' = Append(txs, g)
  /\ used' = [used EXCEPT !.txs = @ + 1]
  /\ UNCHANGED <<active, have, failed, passed, flushed, target, guessed, status>>

\* ReplayMemPool: transactions that no longer apply are dropped.
ReplayMemPool(s, pending) ==
  LET Replay(acc, g) == IF CanAdmin(acc.s, g.admin)
                        THEN [s |-> SetPermission(acc.s, g), txs |-> Append(acc.txs, g)] ELSE acc
  IN FoldLeft(Replay, [s |-> s, txs |-> <<>>], pending)

-----------------------------------------------------------------------------
(* The best chain is activated *)

\* setBlockIndexCandidates without the tip, which the comparator keeps on a tie.
Candidates == {c \in have \ failed : Complete(c) /\ Len(c) > Len(active)}
Longest(C) == {c \in C : \A d \in C : Len(d) <= Len(c)}
Ascending(q) == \A i, j \in DOMAIN q : i < j => Len(q[i]) <= Len(q[j])

\* FindMostWorkChain: the candidates with most work are verified first and the
\* result is ignored; then every candidate that has not passed, in order.  The
\* best that passed is the target unless a block below it failed.
FindMostWorkChain ==
  LET Add(acc, c, judge, v) ==
        [s |-> v.s, passed |-> acc.passed \cup v.passed, guessed |-> acc.guessed \cup v.guessed,
         failed |-> IF judge /\ ~v.ok THEN acc.failed \cup {c} ELSE acc.failed]
      First(acc, c) == Add(acc, c, FALSE, VerifyBlockMiner(acc.s, c, FALSE, acc.failed))
      Second(acc, c) == IF c \in acc.passed THEN acc
                        ELSE Add(acc, c, TRUE, VerifyBlockMiner(acc.s, c, FALSE, acc.failed))
      Scan(order) ==
        FoldLeft(Second,
                 FoldLeft(First, [s |-> perm, passed |-> passed, guessed |-> guessed, failed |-> failed],
                          SelectSeq(order, LAMBDA c : c \in Longest(Candidates))),
                 order)
  IN /\ Idle /\ Candidates # {}
     /\ \E done \in {Scan(order) : order \in {q \in SetToSeqs(Candidates) : Ascending(q)}} :
          LET eligible == Candidates \cap done.passed
              sound == {c \in eligible : Branch(c) \cap done.failed = {}}
              dropped == {c \in eligible \ sound : \A d \in sound : Len(d) <= Len(c)}
              children == {d \in UNION {Branch(c) : c \in dropped} :
                             \E f \in done.failed : IsPrefix(f, d)}
          IN /\ perm' = done.s /\ passed' = done.passed /\ guessed' = done.guessed
             /\ failed' = done.failed \cup children
             /\ \/ /\ sound = {} /\ UNCHANGED target
                \/ \E c \in Longest(sound) : target' = [chain |-> c, old |-> Len(active)]
  /\ UNCHANGED <<active, have, flushed, txs, status, used>>

Leaving == status = "up" /\ target # NoTarget /\ Len(active) > Len(Fork(target.chain))
Joining == status = "up" /\ target # NoTarget /\ active = Fork(target.chain)
NextBlock == target.chain[Len(active) + 1]

\* DisconnectTip: the chain is flushed, the store rolled back, the block's
\* grants go back to the front of the memory pool and all of it is replayed.
DisconnectTip ==
  /\ Leaving
  /\ \E r \in {ReplayMemPool(RollBack(perm, Len(active) - 1), Last(active).grants \o txs)} :
       perm' = r.s /\ txs' = r.txs
  /\ active' = Front(active)
  /\ flushed' = [have |-> have, failed |-> failed]
  /\ UNCHANGED <<have, failed, passed, target, guessed, status, used>>

Unconfirmed(block) == SelectSeq(txs, LAMBDA g : g \notin Range(block.grants))

\* ConnectTip and, once the node is better off than before, the end of the step.
ConnectTip ==
  /\ Joining
  /\ \E r \in {ConnectGrants(perm, NextBlock)}, next \in {Append(active, NextBlock)} :
       /\ r.ok
       /\ active' = next
       /\ flushed' = [have |-> have, failed |-> failed]
       /\ IF Len(next) > target.old
          THEN /\ target' = NoTarget
               /\ \E m \in {ReplayMemPool(ClearMemPool(Commit(r.s, NextBlock.miner, next)),
                                          Unconfirmed(NextBlock))} :
                    perm' = m.s /\ txs' = m.txs
          ELSE /\ perm' = Commit(r.s, NextBlock.miner, next)
               /\ txs' = Unconfirmed(NextBlock)
               /\ UNCHANGED target
  /\ UNCHANGED <<have, failed, passed, guessed, status, used>>

\* ConnectTip fails: the block is invalid and the node stays below it.
ConnectFails ==
  /\ Joining
  /\ \E r \in {ConnectGrants(perm, NextBlock)} :
       /\ ~r.ok
       /\ \E m \in {ReplayMemPool(ClearMemPool(r.s), txs)} : perm' = m.s /\ txs' = m.txs
  /\ failed' = failed \cup {Append(active, NextBlock)}
  /\ target' = NoTarget
  /\ UNCHANGED <<active, have, passed, flushed, guessed, status, used>>

-----------------------------------------------------------------------------
(* Crashes and start-up *)

Stopped ==
  /\ used.crashes < MaxCrashes
  /\ used' = [used EXCEPT !.crashes = @ + 1]
  /\ status' = "down" /\ target' = NoTarget /\ txs' = <<>> /\ passed' = {}
  /\ UNCHANGED guessed

\* What the block index had not flushed is forgotten.
Forget == have' = flushed.have /\ failed' = flushed.failed /\ UNCHANGED flushed

Crash ==
  /\ status = "up" /\ Stopped /\ Forget
  /\ perm' = OnDisk(perm)
  /\ UNCHANGED active

\* In ConnectTip: before the database transaction, before the counts are
\* written, and before the chain is flushed.
CrashInCommit ==
  /\ Joining /\ Stopped /\ Forget
  /\ \E r \in {ConnectGrants(perm, NextBlock)} :
       /\ r.ok
       /\ \E written \in {CommitLedger(r.s, NextBlock.miner)} :
            perm' \in {OnDisk(written), OnDisk(CommitDatabase(written)),
                      OnDisk(Commit(r.s, NextBlock.miner, Append(active, NextBlock)))}
  /\ UNCHANGED active

\* In DisconnectTip, after the chain is flushed: before the roll-back of the
\* store, and before the ledger follows the database.
CrashInRollBack ==
  /\ Leaving /\ Stopped
  /\ perm' \in {OnDisk(perm), OnDisk(RollBackDatabase(perm, Len(active) - 1))}
  /\ active' = Front(active)
  /\ flushed' = [have |-> have, failed |-> failed]
  /\ UNCHANGED <<have, failed>>

\* Initialize, then LoadBlockIndexDB rolls the store back to the chain's height.
Restart ==
  /\ status = "down"
  /\ IF Consistent(perm)
     THEN status' = "up" /\ perm' = RollBack(Initialize(perm), Len(active))
     ELSE status' = "corrupt" /\ UNCHANGED perm
  /\ UNCHANGED <<active, have, failed, passed, flushed, target, txs, guessed, used>>

Init ==
  /\ perm = Genesis /\ active = <<>>
  /\ have = {} /\ failed = {} /\ passed = {} /\ guessed = {}
  /\ flushed = [have |-> {}, failed |-> {}]
  /\ target = NoTarget /\ txs = <<>> /\ status = "up"
  /\ used = [blocks |-> 0, txs |-> 0, crashes |-> 0]

Next ==
  \/ \E c \in Universe : AcceptBlock(c)
  \/ \E g \in Grants : AcceptTx(g)
  \/ FindMostWorkChain \/ DisconnectTip \/ ConnectTip \/ ConnectFails
  \/ Crash \/ CrashInCommit \/ CrashInRollBack \/ Restart

Spec == Init /\ [][Next]_vars

-----------------------------------------------------------------------------
(* Properties *)

\* A node that connects the blocks of a chain to genesis, in order, and no others.
FreshSync ==
  LET Connected(acc, block, r, chain) ==
        IF acc.ok /\ r.ok THEN [s |-> Commit(r.s, block.miner, chain), chain |-> chain, ok |-> TRUE]
        ELSE [acc EXCEPT !.ok = FALSE]
      Add(acc, block) == Connected(acc, block, ConnectGrants(acc.s, block), Append(acc.chain, block))
  IN [c \in Universe \cup {<<>>} |-> FoldLeft(Add, [s |-> Genesis, chain |-> <<>>, ok |-> TRUE], c)]

\* The store is well formed: the rows of the memory pool continue the ledger and
\* the counts are numbers of addresses.
TypeOK ==
  /\ status \in {"up", "down", "corrupt"}
  /\ active \in Universe \cup {<<>>} /\ have \subseteq Universe
  /\ failed \subseteq Universe /\ passed \subseteq Universe /\ guessed \subseteq Universe
  /\ Range(txs) \subseteq Grants \cup UNION {Range(Last(c).grants) : c \in Universe}
  /\ perm.counts \in [admin : 0 .. Cardinality(Address), miner : 0 .. Cardinality(Address)]
  /\ \A i \in DOMAIN perm.pool : perm.pool[i].this = perm.row - Len(perm.pool) + i - 1
  /\ perm.row - Len(perm.pool) <= Len(perm.file) + 1

\* permission.cpp, RollBackInternal, CommitInternal and Initialize: whatever
\* blocks were connected, disconnected and verified before, and wherever the
\* process was killed, the store of a running node holds exactly what a node
\* has that only ever connected the active chain.
SameAsFreshSync ==
  status = "up" =>
    LET fresh == FreshSync[active].s
        InForce(s) == {k \in DOMAIN s.db : k[1] = "index" => k[2] <= s.block}
    IN /\ perm.block = fresh.block
       /\ perm.row - Len(perm.pool) = fresh.row
       /\ SubSeq(perm.file, 1, fresh.row - 1) = fresh.file
       /\ InForce(perm) = InForce(fresh)
       /\ \A k \in InForce(fresh) : perm.db[k] = fresh.db[k]
       /\ perm.head = fresh.head /\ perm.dbHead = fresh.dbHead
       /\ (IF perm.pool = <<>> THEN perm.counts ELSE perm.cleared) = fresh.counts

\* VerifyBlockMiner judges a block of a side branch without connecting it, on a
\* store that is only made to look like the fork's.  It passes the blocks whose
\* chain can be connected and fails the others, whatever chain is active, except
\* above a block it had to judge in passing (see guessed).
PrecheckAgrees ==
  \A c \in (passed \cup failed) :
    (\A d \in guessed : ~IsPrefix(d, c)) => (c \in passed <=> FreshSync[c].ok)

\* m_AdminCount and m_MinerCount are kept up to date step by step; they are the
\* numbers of addresses the store, its memory pool included, allows.
CountsAreExact ==
  status = "up" =>
    LET Holders(type) == Cardinality({a \in Address : Allowed(perm, GetPermission(perm, <<type, a>>, TRUE))})
    IN perm.counts = [admin |-> Holders("admin"), miner |-> Holders("mine")]

\* VerifyConsensus: a row of the ledger that changes the dates in force was
\* approved, since the last such row, by as many different admins as it records.
ConsensusHonoured ==
  LET Approving(r) == {w.grant.admin : w \in {x \in Range(Waiting(perm, r)) : SameDates(x.grant, r.grant)}}
      Replaced(r) == IF r.prev = 0 THEN NoRow(r.key) ELSE RowAt(perm, r.prev)
  IN status = "up" =>
       \A r \in {RowAt(perm, i) : i \in 1 .. perm.row - 1} :
         r.key \in AdminMiner =>
           IF r.consensus > 0 THEN Cardinality(Approving(r)) >= r.consensus
           ELSE SameDates(r, Replaced(r))

\* Initialize repairs a ledger that a crash left ahead of the database, by a
\* search from the end of the file.  It refuses to start only when the file
\* still holds, beyond the rows in use, an undone row of a block not above.
RefusedOnlyForStaleRows ==
  status = "corrupt" =>
    \E i \in perm.dbHead.row .. Len(perm.file) : perm.file[i].received <= perm.dbHead.block

=============================================================================
