---------------------------- MODULE Permissions ----------------------------
(***************************************************************************)
(* The permission store, class mc_Permissions of permissions/permission.cpp, *)
(* as operators over a record s that holds one object of the class together *)
(* with its two stores on disk:                                             *)
(*   s.file    rows 1, 2, ... of the ledger file; it is never truncated     *)
(*   s.head    row 0 of the ledger file: last block and next free row       *)
(*   s.db      the database: key -> dates and row of the row in force       *)
(*   s.dbHead  the row of the database with an empty key, same content      *)
(*   s.list    the adminminerlist rows of the database                      *)
(*   s.info    its BLOCK_MINER rows by block hash: miner, counts and the    *)
(*             grant transactions recorded for the block                    *)
(*   s.block, s.row, s.pool, s.counts, s.cleared, s.verif                   *)
(*             m_Block, m_Row, m_MemPool, m_AdminCount and m_MinerCount, the *)
(*             two m_Cleared counts, m_ClearedMinerCountForMinerVerification *)
(*   s.copied, s.copiedRow, s.copiedBlock, s.fork                           *)
(*             the copied memory pool and counts, m_CopiedRow,              *)
(*             m_CopiedBlock and m_ForkBlock                                *)
(* Only the admin and mine permissions of the chain (NULL entity) are kept,  *)
(* on heights that the native mining rules govern. A transaction carries    *)
(* one grant.  A block is identified by the chain of blocks it ends.        *)
(***************************************************************************)
EXTENDS Integers, Sequences, FiniteSets, SequencesExt, FiniteSetsExt, TLC

CONSTANTS
  Address,    \* addresses that may hold a permission
  Root,       \* the address the genesis block grants admin and mine to
  Setup,      \* setupfirstblocks
  Need,       \* adminconsensusadmin and adminconsensusmine, over Gran
  Diversity,  \* miningdiversity, over Gran
  Gran,       \* MC_PRM_DECIMAL_GRANULARITY
  Forever     \* the last height a grant without an end reaches

ASSUME PermissionsAssumption ==
  /\ Root \in Address
  /\ Setup \in Nat /\ Gran \in Nat \ {0} /\ Forever \in Nat
  /\ Need \in [{"admin", "mine"} -> 0 .. Gran]
  /\ Diversity \in 0 .. Gran

AdminMiner == {"admin", "mine"} \X Address
NoGrant == [type |-> "none", addr |-> Root, admin |-> Root, from |-> 0, to |-> 0, ts |-> 0]
NoCounts == [admin |-> 0, miner |-> 0]
NoCopy == [pool |-> <<>>, counts |-> NoCounts]

\* mc_PermissionLedgerRow::Zero and the fields of the key.
NoRow(key) ==
  [key |-> key, this |-> 0, prev |-> 0, from |-> 0, to |-> 0, received |-> 0,
   grant |-> NoGrant, consensus |-> 0, counts |-> NoCounts]

-----------------------------------------------------------------------------
(* Looking a permission up *)

\* The row of the database, or during a miner verification the newest row of
\* the ledger that the fork block already has.
InDatabase(s, key) ==
  LET UpTo[i \in Nat] == IF s.file[i].prev > 0 /\ s.file[i].received > s.fork
                         THEN UpTo[s.file[i].prev] ELSE s.file[i]
      Reached(row) == IF row.received > s.fork THEN NoRow(key) ELSE row
  IN IF key \notin DOMAIN s.db THEN NoRow(key)
     ELSE IF s.copiedRow = 0 \/ key[1] = "index"
     THEN [NoRow(key) EXCEPT !.from = s.db[key].from, !.to = s.db[key].to, !.this = s.db[key].row]
     ELSE Reached(UpTo[s.db[key].row])

\* The memory pool is followed row by row: each names the row it replaces.
InMemPool(s, key, row) ==
  LET Follow(last, next) == IF next.key = key /\ next.prev = last.this THEN next ELSE last
  IN FoldLeft(Follow, row, s.pool)

\* A mutant: the walk back to the fork block forgotten.
GetPermissionOfTip(s, key, checkmempool) ==
  IF checkmempool THEN InMemPool(s, key, InDatabase([s EXCEPT !.copiedRow = 0], key))
  ELSE InDatabase([s EXCEPT !.copiedRow = 0], key)

GetPermission(s, key, checkmempool) ==
  IF checkmempool THEN InMemPool(s, key, InDatabase(s, key)) ELSE InDatabase(s, key)

Allowed(s, row) == row.from <= s.block + 1 /\ s.block + 1 < row.to

IsSetupPeriod(s) == s.block + 1 < Setup

IsBarredByDiversity(block, last, count) ==
  LET spacing == IF Diversity > 0 THEN ((count * Diversity - 1) \div Gran) + 1 ELSE 1
      within == IF spacing > count THEN count ELSE spacing
  IN count > 0 /\ block >= Setup /\ block - last <= within - 1

\* The lookup reads confirmed permissions only.
CanMine(s, a) ==
  LET Barred(last) == last > 0 /\ IsBarredByDiversity(s.block + 1, last, s.cleared.miner)
  IN /\ Allowed(s, GetPermission(s, <<"mine", a>>, FALSE))
     /\ ~Barred(GetPermission(s, <<"miner", a>>, FALSE).from)

\* The two early returns.  No call of the program passes both: the rows a
\* verification adds for a block are older than the height it then asks about.
FindLastAllowedMinerRow(s, row, block, result) ==
  IF row.this < s.row - Len(s.pool) \/ row.received < block
  THEN result ELSE Assert(FALSE, "a row of the block under verification")

CanMineBlockOnFork(s, a, block, lastAfterFork) ==
  LET Permitted(row) == FindLastAllowedMinerRow(s, row, block, Allowed(s, row))
      Barred(last) == last > 0 /\ IsBarredByDiversity(block, last, s.verif)
      Mined(row) == IF row.this # 0 THEN row.from ELSE 0
  IN /\ Permitted(GetPermission(s, <<"mine", a>>, TRUE))
     /\ ~Barred(IF lastAfterFork # 0 THEN lastAfterFork
                ELSE Mined(GetPermission(s, <<"miner", a>>, FALSE)))

CanAdmin(s, a) == s.block = -1 \/ Allowed(s, GetPermission(s, <<"admin", a>>, TRUE))

Counted(s, type) ==
  Cardinality({a \in Address : /\ <<type, a>> \in s.list
                               /\ Allowed(s, GetPermission(s, <<type, a>>, TRUE))})

UpdateCounts(s) == [s EXCEPT !.counts = [admin |-> Counted(s, "admin"), miner |-> Counted(s, "mine")]]

-----------------------------------------------------------------------------
(* Granting and revoking *)

AdminConsensus(s, type) ==
  IF s.counts.admin = 0 \/ IsSetupPeriod(s) \/ Need[type] = 0 THEN 1
  ELSE ((s.counts.admin * Need[type] - 1) \div Gran) + 1

RowAt(s, i) ==
  LET first == s.row - Len(s.pool) IN IF i >= first THEN s.pool[i - first + 1] ELSE s.file[i]

\* The rows that wait for consensus, the newest first, after the row given.
Waiting(s, row) ==
  LET Back[i \in Nat] == IF i = 0 \/ RowAt(s, i).consensus > 0 THEN <<>>
                         ELSE <<RowAt(s, i)>> \o Back[RowAt(s, i).prev]
  IN <<row>> \o Back[row.prev]

SameDates(g, h) == g.from = h.from /\ g.to = h.to

\* A mutant: every waiting row is an approval, also a second one of an admin.
VerifyConsensusByRows(s, row, last) ==
  LET required == AdminConsensus(s, row.key[1])
      votes == SelectSeq(Waiting(s, row), LAMBDA r : SameDates(r.grant, row.grant))
  IN IF Len(votes) >= required THEN [row EXCEPT !.consensus = required]
     ELSE [row EXCEPT !.consensus = 0, !.from = last.from, !.to = last.to]

\* An admin counts by the newest of their waiting rows; until enough of them
\* agree the dates in force stay.
VerifyConsensus(s, row, last) ==
  LET required == AdminConsensus(s, row.key[1])
      Vote(acc, r) ==
        LET mine == {g \in acc.seen : g.admin = r.grant.admin}
            undone == Cardinality({g \in mine : SameDates(g, row.grant)})
            done == IF SameDates(r.grant, row.grant) THEN 1 ELSE 0
        IN IF acc.left = 0 \/ \E g \in mine : g.ts >= r.grant.ts THEN acc
           ELSE [left |-> acc.left + undone - done, seen |-> (acc.seen \ mine) \cup {r.grant}]
      result == FoldLeft(Vote, [left |-> required, seen |-> {}], Waiting(s, row))
  IN IF required <= 1 \/ result.left = 0 THEN [row EXCEPT !.consensus = required]
     ELSE [row EXCEPT !.consensus = 0, !.from = last.from, !.to = last.to]

\* The row a grant adds to the memory pool, after the row now in force.
GrantRow(s, g, last) ==
  VerifyConsensus(s,
    [NoRow(<<g.type, g.addr>>) EXCEPT
       !.this = s.row, !.prev = last.this, !.from = g.from, !.to = g.to, !.received = s.block + 1,
       !.grant = IF s.counts.admin > 0 THEN g ELSE [g EXCEPT !.admin = g.addr]],
    last)

\* The first row of a memory pool saves the counts of the chain, except in a
\* miner verification.
AddToMemPool(s, row) ==
  [s EXCEPT !.pool = Append(@, row), !.row = @ + 1,
            !.cleared = IF s.pool = <<>> /\ s.copiedRow = 0 THEN s.counts ELSE @,
            !.verif = IF s.pool = <<>> /\ s.copiedRow = 0 THEN s.counts.miner ELSE @]

\* A mutant: the count moves without a look at the permission before the row.
RecountUncompared(t, key, before, now) ==
  [t EXCEPT !.counts[IF key[1] = "admin" THEN "admin" ELSE "miner"] = IF now THEN @ + 1 ELSE @ - 1]

Recount(t, key, before, now) ==
  [t EXCEPT !.counts[IF key[1] = "admin" THEN "admin" ELSE "miner"] =
     IF before = now THEN @ ELSE IF before THEN @ - 1 ELSE @ + 1]

\* SetPermission, once CanAdmin holds.
SetPermission(s, g) ==
  LET key == <<g.type, g.addr>>
      Counting(last, t) == Recount(t, key, Allowed(s, last), Allowed(t, GetPermission(t, key, TRUE)))
      Added(last) == Counting(last, AddToMemPool(s, GrantRow(s, g, last)))
  IN Added(GetPermission(s, key, TRUE))

\* The grants of a block one after the other, up to the first refused.
AcceptGrants(s, grants) ==
  LET Grant(acc, g) ==
        IF ~acc.ok THEN acc
        ELSE IF CanAdmin(acc.s, g.admin) THEN [acc EXCEPT !.s = SetPermission(acc.s, g)]
        ELSE [acc EXCEPT !.ok = FALSE]
  IN FoldLeft(Grant, [s |-> s, ok |-> TRUE], grants)

-----------------------------------------------------------------------------
(* The memory pool of uncommitted rows *)

ClearMemPool(s) ==
  LET Saved(t) == [t EXCEPT !.cleared = t.counts, !.verif = t.counts.miner]
  IN Saved(IF s.pool = <<>> THEN s
           ELSE UpdateCounts([s EXCEPT !.row = @ - Len(s.pool), !.pool = <<>>]))

CopyMemPool(s) == [s EXCEPT !.copied = [pool |-> s.pool, counts |-> s.counts]]

\* The copy is dropped here; the program keeps it, and copies again before it reads it.
RestoreMemPool(s) ==
  LET Refilled(t) == [t EXCEPT !.pool = s.copied.pool, !.row = @ + Len(s.copied.pool),
                               !.counts = s.copied.counts, !.copied = NoCopy]
  IN Refilled(ClearMemPool(s))

\* One past the newest of the first n rows that block already has.
RowAfter(file, n, block) == 1 + Max({0} \cup {i \in 1 .. n : file[i].received <= block})

\* The object is made to look as it did at an earlier block; nothing is undone.
RollBackBeforeMinerVerification(s, block) ==
  LET Cleared(t) == [t EXCEPT !.counts = IF s.pool = <<>> THEN @ ELSE s.cleared,
                              !.row = @ - Len(s.pool), !.pool = <<>>]
      Marked(t) == [t EXCEPT !.copiedBlock = t.block, !.copiedRow = t.row, !.fork = block,
                             !.verif = t.counts.miner]
      At(t, counts) == [t EXCEPT !.row = RowAfter(t.file, t.row - 1, block), !.block = block,
                                 !.counts = counts, !.verif = counts.miner]
      Moved(t) == IF block = t.block THEN t
                  ELSE At(t, t.file[GetPermission(t, <<"index", block>>, TRUE).this].counts)
  IN Moved(Marked(Cleared(CopyMemPool(s))))

\* A mutant: the rows of the copied memory pool are not counted in m_Row.
RestoreAfterMinerVerificationShort(s) ==
  [s EXCEPT !.pool = s.copied.pool, !.counts = s.copied.counts, !.block = s.copiedBlock,
            !.row = s.copiedRow, !.fork = 0, !.copiedRow = 0,
            !.copiedBlock = 0, !.copied = NoCopy]

RestoreAfterMinerVerification(s) ==
  [s EXCEPT !.pool = s.copied.pool, !.counts = s.copied.counts, !.block = s.copiedBlock,
            !.row = s.copiedRow + Len(s.copied.pool), !.fork = 0, !.copiedRow = 0,
            !.copiedBlock = 0, !.copied = NoCopy]

\* The counts recorded for a block, recomputed when both are zero.
IncrementBlock(s, counts) ==
  LET Taken(t) == [t EXCEPT !.verif = IF s.copiedRow > 0 THEN t.counts.miner ELSE @]
  IN Taken(IF counts = NoCounts THEN UpdateCounts([s EXCEPT !.block = @ + 1])
           ELSE [s EXCEPT !.block = @ + 1, !.counts = counts])

GrantsOf(s, c) == IF c \in DOMAIN s.info THEN s.info[c].grants ELSE <<>>

\* The row of a block by its hash; grants recorded before stay when there are none.
PutInfo(s, miner, c, grants) ==
  [s EXCEPT !.info = (c :> [miner |-> miner, counts |-> s.counts,
                            grants |-> IF grants = <<>> THEN GrantsOf(s, c) ELSE grants]) @@ @]

\* StoreBlockInfo: who mined a verified block, the counts after it, its grants.
StoreBlockInfo(s, miner, c) ==
  LET Stored(t, rows) == PutInfo([t EXCEPT !.verif = t.counts.miner], miner, c,
                                 [i \in DOMAIN rows |-> rows[i].grant])
      Recorded(rows) ==
        Stored(UpdateCounts([s EXCEPT !.list = @ \cup {r.key : r \in Range(rows)}, !.block = @ + 1]), rows)
  IN Recorded(SelectSeq(s.pool, LAMBDA r : r.received = s.block + 1))

-----------------------------------------------------------------------------
(* Committing a block, undoing blocks, starting up *)

\* The rows of the block over what the file holds there, and row 0.
CommitLedger(s, miner) ==
  LET h == s.block + 1
      first == s.row - Len(s.pool)
      AtHeight(row) == [row EXCEPT !.from = h, !.to = h, !.received = h]
      minerRow == [AtHeight(NoRow(<<"miner", miner>>)) EXCEPT !.this = s.row,
                     !.prev = GetPermission(s, <<"miner", miner>>, TRUE).this]
      indexRow == [AtHeight(NoRow(<<"index", h>>)) EXCEPT !.this = s.row + 1, !.prev = first - 1]
      Written(rows) ==
        [s EXCEPT !.pool = rows, !.row = @ + 2, !.head = [block |-> h, row |-> s.row + 2],
                  !.file = SubSeq(@, 1, first - 1) \o rows
                             \o SubSeq(@, first + Len(rows), Len(@))]
  IN Written(s.pool \o <<minerRow, indexRow>>)

\* One transaction of the database.
CommitDatabase(s) ==
  LET Entry(r) == [from |-> r.from, to |-> r.to, row |-> r.this]
      Put(db, r) == (r.key :> Entry(r)) @@ db
  IN [s EXCEPT !.db = FoldLeft(Put, @, s.pool),
               !.list = @ \cup ({r.key : r \in Range(s.pool)} \cap AdminMiner),
               !.dbHead = [block |-> s.block + 1, row |-> s.row]]

SaveCounts(t) ==
  [t EXCEPT !.cleared = t.counts, !.verif = t.counts.miner,
            !.file[t.row - 1].counts = t.counts, !.file[t.row - 2].counts = t.counts]

\* The counts after the block, also in the two rows it added; the memory pool
\* is empty by the time the block is recorded, so its grants are not.
CommitCounts(s, miner, c) ==
  PutInfo([SaveCounts(UpdateCounts([s EXCEPT !.block = @ + 1])) EXCEPT !.pool = <<>>], miner, c, <<>>)

Commit(s, miner, c) == CommitCounts(CommitDatabase(CommitLedger(s, miner)), miner, c)

\* A mutant: a key goes back by one row, however many the undone blocks added.
UndoneByOne(t, keep, k) == Max({i \in keep .. t.row - 1 : t.file[i].key = k})

\* The first undone row of a key: the rows are undone from the last, so the key
\* ends at what this one replaced.
Undone(t, keep, k) == Min({i \in keep .. t.row - 1 : t.file[i].key = k})

\* The rows above block leave the database; a block's index row names the row
\* before the block, so its key stays behind.
RollBackDatabase(s, block) ==
  LET Entry(t, i) == [from |-> t.file[i].from, to |-> t.file[i].to, row |-> i]
      Undo(t, keep, touched, Prev(_)) ==
        [t EXCEPT !.db = [k \in {k \in DOMAIN @ : k \in touched => Prev(k) > 0} |->
                            IF k \in touched THEN Entry(t, Prev(k)) ELSE @[k]],
                  !.dbHead = [block |-> block, row |-> keep]]
      From(t, keep) == Undo(t, keep, {t.file[i].key : i \in keep .. t.row - 1},
                            LAMBDA k : t.file[Undone(t, keep, k)].prev)
      Cleared(t) == From(t, RowAfter(t.file, t.row - 1, block))
  IN Cleared(ClearMemPool(s))

\* Row 0 of the ledger and the object follow; the file keeps the undone rows.
RollBack(s, block) ==
  LET Follow(t) == UpdateCounts([t EXCEPT !.head = t.dbHead, !.block = block, !.row = t.dbHead.row])
      Saved(t) == [t EXCEPT !.cleared = t.counts]
  IN Saved(Follow(RollBackDatabase(s, block)))

\* What a stopped process leaves behind.
OnDisk(s) ==
  [s EXCEPT !.block = -1, !.row = 1, !.pool = <<>>, !.counts = NoCounts, !.cleared = NoCounts,
            !.verif = 0, !.copied = NoCopy, !.copiedRow = 0, !.copiedBlock = 0, !.fork = 0]

\* A mutant: the block of row 0 is repaired, its row is not.
RepairedHeadByHalf(d) ==
  IF d.dbHead.block < d.head.block THEN [d.head EXCEPT !.block = d.dbHead.block] ELSE d.head

\* Row 0 of the ledger as Initialize repairs it when the database is behind.
RepairedHead(d) ==
  IF d.dbHead.block < d.head.block
  THEN [block |-> d.dbHead.block, row |-> RowAfter(d.file, Len(d.file), d.dbHead.block)]
  ELSE d.head

\* Initialize refuses a store whose two halves still disagree after that.
Consistent(d) ==
  /\ RepairedHead(d) = d.dbHead
  /\ d.file[d.dbHead.row - 1].key = <<"index", d.dbHead.block>>

\* The counts of the last block's rows are written again.
Initialize(d) ==
  SaveCounts(UpdateCounts(
    [d EXCEPT !.head = d.dbHead, !.block = d.dbHead.block, !.row = d.dbHead.row]))

-----------------------------------------------------------------------------
(* Blocks *)

\* CheckBlockPermissions, with the memory pool put aside and back.
CheckBlockPermissions(s, miner) ==
  LET Checked(t) == [s |-> RestoreMemPool(t), ok |-> CanMine(t, miner)]
  IN Checked(ClearMemPool(CopyMemPool(s)))

\* ConnectBlock up to the commit.
ConnectGrants(s, block) ==
  LET Granted(check) == IF check.ok THEN AcceptGrants(ClearMemPool(check.s), block.grants) ELSE check
  IN Granted(CheckBlockPermissions(s, block.miner))

\* The store of a node that has only ever connected the genesis block.
Genesis ==
  LET empty == [file |-> <<>>, head |-> [block |-> -1, row |-> 1], db |-> << >>,
                dbHead |-> [block |-> -1, row |-> 1], list |-> {}, info |-> << >>,
                block |-> -1, row |-> 1, pool |-> <<>>, counts |-> NoCounts,
                cleared |-> NoCounts, verif |-> 0, copied |-> NoCopy, copiedRow |-> 0,
                copiedBlock |-> 0, fork |-> 0]
      ToRoot(type) == [type |-> type, addr |-> Root, admin |-> Root, from |-> 0, to |-> Forever, ts |-> 0]
  IN Commit(AcceptGrants(empty, <<ToRoot("mine"), ToRoot("admin")>>).s, Root, <<>>)

=============================================================================
