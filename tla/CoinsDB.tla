------------------------------ MODULE CoinsDB ------------------------------
(***************************************************************************)
(* The coins database and its recovery after a crash: what                 *)
(* CCoinsViewDB::BatchWrite leaves on disk when it is interrupted, and how *)
(* Chainstate::ReplayBlocks repairs it from the block and undo files.      *)
(*                                                                         *)
(* Durable state is the coins database (coins, best block, head blocks),   *)
(* the block index database and the undo files.  The block index in        *)
(* memory, the coins cache and the chain tip are lost by a crash.          *)
(*                                                                         *)
(* The coins cache of this module is one level with DIRTY flags; that a    *)
(* block-sized child cache and the FRESH optimisation are invisible above  *)
(* it is the subject of CoinsCache.  Blocks are those that pass the checks *)
(* of ConnectBlock; a block that does not leaves no trace here.            *)
(***************************************************************************)
EXTENDS Integers, Sequences, FiniteSets, SequencesExt

CONSTANTS
    Blocks,         \* the block tree, Genesis included
    Genesis,
    Parent,         \* pprev, a function on Blocks \ {Genesis}
    NoBlock,        \* the null block hash
    Outpoints,
    Settings        \* the settings considered, records with the fields below

ASSUME TreeAssumption ==
    /\ Genesis \in Blocks /\ NoBlock \notin Blocks
    /\ Parent \in [Blocks \ {Genesis} -> Blocks]
ASSUME SettingsAssumption ==
    \A s \in Settings :
        /\ DOMAIN s.body = Blocks /\ s.keep \in Nat
        /\ s.fail \subseteq {"Index", "Flush", "Sync"}

VARIABLES
    setting,  \* the setting of this behaviour
    idx,      \* m_block_index: what memory knows and stores of each block
    idxDisk,  \* the block index database
    undo,     \* contents of the undo files, one list of spent coins per block
    db,       \* the coins database: coins, DB_BEST_BLOCK, DB_HEAD_BLOCKS
    cache,    \* CoinsTip(): cached coins; NotCached where there is no entry
    dirty,    \* outpoints whose cache entry is DIRTY
    best,     \* CoinsTip().GetBestBlock()
    tip,      \* m_chain.Tip()
    pc,       \* where the thread that holds cs_main is
    batch,    \* BatchWrite in progress: entries left, kind of flush, return
    dropped,  \* entries a failed batch took from m_dirty_blockindex unwritten
    pruned    \* history: blocks pruned, since the coins were last complete
              \* (both begin anew when a start has found its tip)

vars == <<setting, idx, idxDisk, undo, db, cache, dirty, best, tip, pc, batch, dropped, pruned>>

\* The transactions of each block; MIN_BLOCKS_TO_KEEP, above every height when
\* there is no pruning; and the batches that may throw: of the block index, or
\* of the coins in a Flush or a Sync.
body == setting.body
KeepBlocks == setting.keep
FailingWrites == setting.fail
-----------------------------------------------------------------------------
(* A coin is represented by the height of the transaction that made it.    *)

NoCoin == 0
NotCached == -1

\* Blocks from the genesis block to b; nHeight is the length less one.
ChainTo[b \in Blocks] ==
    IF b = Genesis THEN <<b>> ELSE Append(ChainTo[Parent[b]], b)

Height(b) == IF b = NoBlock THEN -1 ELSE Len(ChainTo[b]) - 1

MaxHeight == CHOOSE h \in 0..Cardinality(Blocks) :
                /\ \A b \in Blocks : Height(b) <= h
                /\ \E b \in Blocks : Height(b) = h

\* LastCommonAncestor.
LastCommonAncestor(a, b) ==
    CHOOSE c \in Range(ChainTo[a]) \cap Range(ChainTo[b]) :
        \A d \in Range(ChainTo[a]) \cap Range(ChainTo[b]) : Height(d) <= Height(c)

\* CCoinsViewCache::GetCoin of the tip cache.
View == [o \in Outpoints |-> IF cache[o] = NotCached THEN db.coins[o] ELSE cache[o]]

Spend(v, outs) == [o \in Outpoints |-> IF o \in outs THEN NoCoin ELSE v[o]]
AddCoins(v, outs, h) == [o \in Outpoints |-> IF o \in outs THEN h ELSE v[o]]

\* The effect of a transaction: UpdateCoins, and the same in RollforwardBlock.
ApplyTx(v, tx, h) == AddCoins(Spend(v, tx.vin), tx.vout, h)

\* UpdateCoins for every transaction of b on view v, collecting CBlockUndo.
ConnectBlock(v, b) ==
    FoldLeft(LAMBDA acc, tx :
                [view |-> ApplyTx(acc.view, tx, Height(b)),
                 undo |-> Append(acc.undo, [o \in tx.vin |-> acc.view[o]])],
             [view |-> v, undo |-> <<>>], body[b])

\* Whether every input exists and no output overwrites a coin, in order.
Connectable(v, b) ==
    FoldLeft(LAMBDA acc, tx :
                [view |-> ApplyTx(acc.view, tx, Height(b)),
                 ok |-> /\ acc.ok
                        /\ \A o \in tx.vin : acc.view[o] # NoCoin
                        /\ \A o \in tx.vout : acc.view[o] = NoCoin],
             [view |-> v, ok |-> TRUE], body[b]).ok

RollforwardBlockMutant(v, b) ==
    FoldLeft(LAMBDA w, tx : ApplyTx(w, tx, Height(b) - 1), v, body[b])
RollforwardBlock(v, b) ==
    FoldLeft(LAMBDA w, tx : ApplyTx(w, tx, Height(b)), v, body[b])

\* One transaction of DisconnectBlock: outputs away, then ApplyTxInUndo.
UndoneTx(acc, tx, txundo, h) ==
    LET spent == Spend(acc.view, tx.vout)
    IN  [view |-> [o \in Outpoints |-> IF o \in tx.vin THEN txundo[o] ELSE spent[o]],
         clean |-> /\ acc.clean
                   /\ \A o \in tx.vout : acc.view[o] = h
                   /\ \A o \in tx.vin : spent[o] = NoCoin]

UndoOrderMutant(n) == [i \in 1..n |-> i]
\* DisconnectBlock visits the transactions last to first.
UndoOrder(n) == [i \in 1..n |-> n + 1 - i]

DisconnectBlock(v, b) ==
    FoldLeft(LAMBDA acc, i : UndoneTx(acc, body[b][i], undo[b][i], Height(b)),
             [view |-> v, clean |-> TRUE], UndoOrder(Len(body[b])))

\* Outpoints whose cache entry a block, applied or undone, makes DIRTY.
Touched(b) == UNION {tx.vin \cup tx.vout : tx \in Range(body[b])}

-----------------------------------------------------------------------------
(* The UTXO set of the chain that ends in b, by definition: the outputs    *)
(* some transaction of the chain makes and none spends.                    *)

UtxoSet(b) ==
    LET chain == IF b = NoBlock THEN {} ELSE Range(ChainTo[b])
        Makes(c, o) == \E tx \in Range(body[c]) : o \in tx.vout
        Spends(c, o) == \E tx \in Range(body[c]) : o \in tx.vin
    IN  [o \in Outpoints |->
            IF \E c \in chain : Makes(c, o) /\ ~\E d \in chain : Spends(d, o)
            THEN Height(CHOOSE c \in chain : Makes(c, o))
            ELSE NoCoin]

NoBatch == [left |-> {}, kind |-> "none", ret |-> "none"]
EmptyCache == [o \in Outpoints |-> NotCached]

\* A new node: only the genesis block, written by LoadGenesisBlock.
GenesisOnly == [b \in Blocks |-> IF b = Genesis THEN {"known", "data"} ELSE {}]

Init ==
    /\ setting \in Settings
    /\ \A b \in Blocks \ {Genesis} : Connectable(UtxoSet(Parent[b]), b)
    /\ idx = GenesisOnly /\ idxDisk = GenesisOnly
    /\ undo = [b \in Blocks |-> <<>>]
    /\ db = [coins |-> [o \in Outpoints |-> NoCoin], best |-> NoBlock, heads |-> <<>>]
    /\ cache = EmptyCache /\ dirty = {} /\ best = NoBlock /\ tip = NoBlock
    /\ pc = "idle" /\ batch = NoBatch
    /\ dropped = {} /\ pruned = {}

-----------------------------------------------------------------------------
(* Running: blocks arrive and the tip moves.                               *)

\* AcceptBlock: the block is written to a block file.
AcceptBlock(b) ==
    /\ pc = "idle"
    /\ "data" \notin idx[b]
    /\ idx[Parent[b]] # {}
    /\ idx' = [idx EXCEPT ![b] = @ \cup {"data", "known"}]
    /\ pruned' = pruned \ {b}
    /\ UNCHANGED <<setting, idxDisk, undo, db, cache, dirty, best, tip, pc, batch, dropped>>

\* The entries of a child view over the tip cache reach it: view.Flush().
ApplyView(v, b) ==
    /\ cache' = [o \in Outpoints |-> IF o \in Touched(b) THEN v[o] ELSE cache[o]]
    /\ dirty' = dirty \cup Touched(b)

\* ConnectTip up to its FlushStateToDisk: ConnectBlock with WriteBlockUndo.
ConnectTip(b) ==
    LET r == ConnectBlock(View, b)
    IN  /\ pc = "idle"
        /\ "data" \in idx[b]
        /\ tip = IF b = Genesis THEN NoBlock ELSE Parent[b]
        /\ ApplyView(r.view, b)
        /\ undo' = IF "undo" \in idx[b] \/ b = Genesis
                   THEN undo ELSE [undo EXCEPT ![b] = r.undo]
        /\ idx' = IF b = Genesis THEN idx ELSE [idx EXCEPT ![b] = @ \cup {"undo"}]
        /\ best' = b
        /\ pc' = "settip"
        /\ UNCHANGED <<setting, idxDisk, db, tip, batch, dropped, pruned>>

\* DisconnectTip up to its FlushStateToDisk.  Any failure is a FatalError of
\* ActivateBestChainStep and shuts the node down.
DisconnectTip ==
    /\ pc = "idle" /\ tip \notin {NoBlock, Genesis}
    /\ LET readable == {"data", "undo"} \subseteq idx[tip]
           r == DisconnectBlock(View, tip)
       IN  IF readable /\ r.clean
           THEN /\ ApplyView(r.view, tip) /\ best' = Parent[tip] /\ pc' = "settip"
           ELSE pc' = "shutdown1" /\ UNCHANGED <<cache, dirty, best>>
    /\ UNCHANGED <<setting, idx, idxDisk, undo, db, tip, batch, dropped, pruned>>

\* The rest of ConnectTip and DisconnectTip: m_chain.SetTip.
SetTip ==
    /\ pc \in {"settip", "flushed"}
    /\ tip' = best /\ pc' = "idle"
    /\ UNCHANGED <<setting, idx, idxDisk, undo, db, cache, dirty, best, batch, dropped, pruned>>

\* Uncache drops an entry that is not DIRTY.
Uncachable(o) == cache[o] # NotCached /\ o \notin dirty
Uncache(o) ==
    /\ pc = "idle" /\ Uncachable(o)
    /\ cache' = [cache EXCEPT ![o] = NotCached]
    /\ UNCHANGED <<setting, idx, idxDisk, undo, db, dirty, best, tip, pc, batch, dropped, pruned>>

-----------------------------------------------------------------------------
(* FlushStateToDisk.                                                       *)

\* GetPruneRange: blocks of the files that pruning may remove.
Prunable == {b \in Blocks : /\ "data" \in idx[b]
                            /\ Height(b) <= Height(tip) - KeepBlocks}

\* PruneOneBlockFile.
Pruned(P) == [b \in Blocks |-> IF b \in P THEN idx[b] \ {"data", "undo"} ELSE idx[b]]

IndexWrittenMutant(i, P) == idxDisk
\* WriteBlockIndexDB: a batch of the entries of m_dirty_blockindex.
IndexWritten(i, P) ==
    [b \in Blocks |-> IF b \in dropped \ P THEN idxDisk[b] ELSE i[b]]

\* FlushStateToDisk when should_write holds: prune, write the block index,
\* unlink, and then start BatchWrite unless the coins view is still empty.
\* ConnectTip and DisconnectTip call it with IF_NEEDED, which writes when the
\* cache is critical (Flush) or when files were pruned (Sync).
StartFlush(kind, P, ret) ==
    /\ idx' = Pruned(P)
    /\ idxDisk' = IndexWritten(idx', P)
    /\ dropped' = dropped \ P /\ pruned' = pruned \cup P
    /\ IF best = NoBlock
       THEN pc' = ret /\ UNCHANGED batch
       ELSE pc' = "batch" /\ batch' = [left |-> dirty, kind |-> kind, ret |-> ret]
    /\ UNCHANGED <<setting, undo, db, cache, dirty, best, tip>>

FlushStateToDisk ==
    \E P \in SUBSET Prunable :
        \/ pc = "idle" /\ \E kind \in {"Flush", "Sync"} : StartFlush(kind, P, "idle")
        \/ pc = "settip" /\ StartFlush("Flush", P, "flushed")
        \/ pc = "settip" /\ P # {} /\ StartFlush("Sync", P, "flushed")

\* Shutdown() forces a flush twice, before and after it stops the indexes.
\* With an empty coins view the second one writes nothing: Crash is its end.
ShutdownFlush ==
    \E P \in SUBSET Prunable :
        \/ pc = "shutdown1" /\ StartFlush("Flush", P, "shutdown2")
        \/ pc = "shutdown2" /\ best # NoBlock /\ StartFlush("Flush", P, "down")

RequestShutdown ==
    /\ pc = "idle" /\ pc' = "shutdown1"
    /\ UNCHANGED <<setting, idx, idxDisk, undo, db, cache, dirty, best, tip, batch, dropped, pruned>>

\* The old_tip of BatchWrite: in the middle of a replay it is the second head.
OldTip == IF db.best = NoBlock /\ db.heads # <<>> THEN db.heads[2] ELSE db.best

\* assert(old_heads[0] == hashBlock)
HeadsAssert == db.heads # <<>> => db.heads[1] = best

\* Memory is gone; the block index is read back from its database.
LoseMemory ==
    /\ pc' = "down" /\ batch' = NoBatch
    /\ idx' = idxDisk /\ cache' = EmptyCache /\ dirty' = {}
    /\ best' = NoBlock /\ tip' = NoBlock

\* The batch of WriteBlockIndexDB throws, in any of these flushes.  The two sets
\* of dirty entries were emptied while it was filled, nothing is unlinked, and
\* FlushStateToDisk ends in a FatalError.
IndexWriteError ==
    /\ "Index" \in FailingWrites
    /\ pc \in {"idle", "settip", "shutdown1", "shutdown2"}
    /\ \E P \in SUBSET Prunable :
        /\ {b \in Blocks : Pruned(P)[b] # idxDisk[b]} \ dropped # {}
        /\ dropped' = {b \in Blocks : Pruned(P)[b] # idxDisk[b]}
        /\ pruned' = pruned \cup P
        /\ IF pc = "shutdown2" THEN LoseMemory
           ELSE /\ idx' = Pruned(P)
                /\ pc' = IF pc = "shutdown1" THEN "shutdown2" ELSE "shutdown1"
                /\ UNCHANGED <<cache, dirty, best, tip, batch>>
    /\ UNCHANGED <<setting, idxDisk, undo, db>>

\* The markers that the first and the last batch write.
Marked(last) ==
    IF last THEN [db EXCEPT !.best = best, !.heads = <<>>]
            ELSE [db EXCEPT !.best = NoBlock, !.heads = <<best, OldTip>>]

\* What the cursor does to the entries S it has passed: Sync clears their
\* flags and erases the spent ones, Flush leaves them for clear().
Passed(S) ==
    IF batch.kind = "Sync"
    THEN /\ dirty' = dirty \ S
         /\ cache' = [o \in Outpoints |->
                        IF o \in S /\ cache[o] = NoCoin THEN NotCached ELSE cache[o]]
    ELSE UNCHANGED <<dirty, cache>>

\* A WriteBatch of the entries S: partial, or the last one.
WritePartial(S) ==
    /\ pc = "batch" /\ HeadsAssert
    /\ S # {} /\ S \subseteq batch.left
    /\ db' = [Marked(FALSE) EXCEPT !.coins = [o \in Outpoints |->
                                    IF o \in S THEN cache[o] ELSE db.coins[o]]]
    /\ Passed(S)
    /\ batch' = [batch EXCEPT !.left = @ \ S]
    /\ UNCHANGED <<setting, idx, idxDisk, undo, best, tip, pc, dropped, pruned>>

WriteFinal ==
    /\ pc = "batch" /\ HeadsAssert
    /\ db' = [Marked(TRUE) EXCEPT !.coins = [o \in Outpoints |->
                            IF o \in batch.left THEN cache[o] ELSE db.coins[o]]]
    /\ IF batch.ret = "down"
       THEN LoseMemory
       ELSE /\ IF batch.kind = "Sync" THEN Passed(batch.left)
                                     ELSE cache' = EmptyCache /\ dirty' = {}
            /\ pc' = batch.ret /\ batch' = NoBatch
            /\ UNCHANGED <<idx, best, tip>>
    /\ pruned' = {}
    /\ UNCHANGED <<setting, idxDisk, undo, dropped>>

\* WriteBatch throws dbwrapper_error: nothing of the batch is stored and
\* FlushStateToDisk ends in a FatalError (at startup, the process ends).
WriteError(S) ==
    /\ pc = "batch" /\ HeadsAssert
    /\ batch.kind \in FailingWrites /\ S \subseteq batch.left
    /\ IF batch.ret \in {"down", "load"}
       THEN LoseMemory
       ELSE /\ Passed(S)
            /\ pc' = IF batch.ret = "shutdown2" THEN "shutdown2" ELSE "shutdown1"
            /\ batch' = NoBatch
            /\ UNCHANGED <<idx, best, tip>>
    /\ UNCHANGED <<setting, idxDisk, undo, db, dropped, pruned>>

\* The process ends without further writes: a crash, or a failed assertion.
Crash ==
    /\ pc \notin {"down", "failed"}
    /\ LoseMemory
    /\ UNCHANGED <<setting, idxDisk, undo, db, dropped, pruned>>

-----------------------------------------------------------------------------
(* Startup: CompleteChainstateInitialization.                              *)

NewBranch(new, fork) == SubSeq(ChainTo[new], (IF fork = NoBlock THEN 0 ELSE Height(fork)) + 2,
                               Len(ChainTo[new]))
OldBranchMutant(old, fork) == <<>>
\* The blocks to roll back, tip first.
OldBranch(old, fork) ==
    IF old = NoBlock THEN <<>>
    ELSE Reverse(SubSeq(ChainTo[old], Height(fork) + 2, Len(ChainTo[old])))

\* The view after rolling back the old branch; DISCONNECT_UNCLEAN is accepted.
RolledBack(v, s) == FoldLeft(LAMBDA w, b : DisconnectBlock(w, b).view, v, s)
RolledForward(v, s) == FoldLeft(LAMBDA w, b : RollforwardBlock(w, b), v, s)

ReplayBlocks ==
    LET new == db.heads[1]
        old == db.heads[2]
        known == idxDisk[new] # {} /\ (old = NoBlock \/ idxDisk[old] # {})
        fork == IF old = NoBlock THEN NoBlock ELSE LastCommonAncestor(old, new)
        back == OldBranch(old, fork)
        forth == NewBranch(new, fork)
        readable == /\ \A b \in Range(back) : {"data", "undo"} \subseteq idxDisk[b]
                    /\ \A b \in Range(forth) : "data" \in idxDisk[b]
        touched == UNION {Touched(b) : b \in Range(back) \cup Range(forth)}
        v == RolledForward(RolledBack(db.coins, back), forth)
    IN  IF db.heads = <<>>
        THEN pc' = "load" /\ UNCHANGED <<cache, dirty, best, batch>>
        ELSE IF ~known \/ ~readable
        THEN pc' = "failed" /\ UNCHANGED <<cache, dirty, best, batch>>
        ELSE /\ cache' = [o \in Outpoints |-> IF o \in touched THEN v[o] ELSE NotCached]
             /\ dirty' = touched
             /\ best' = new
             /\ pc' = "batch"
             /\ batch' = [left |-> touched, kind |-> "Flush", ret |-> "load"]

Startup ==
    /\ pc = "down"
    /\ ReplayBlocks
    /\ UNCHANGED <<setting, idx, idxDisk, undo, db, tip, dropped, pruned>>

\* InitCoinsCache and LoadChainTip.
LoadChainTip ==
    /\ pc = "load"
    /\ best' = db.best
    /\ IF db.best # NoBlock /\ idx[db.best] = {}
       THEN pc' = "failed" /\ UNCHANGED <<tip, dropped, pruned>>
       ELSE pc' = "idle" /\ tip' = db.best /\ dropped' = {} /\ pruned' = {}
    /\ UNCHANGED <<setting, idx, idxDisk, undo, db, cache, dirty, batch>>

Next ==
    \/ \E b \in Blocks \ {Genesis} : AcceptBlock(b)
    \/ \E b \in Blocks : ConnectTip(b)
    \/ DisconnectTip
    \/ SetTip
    \/ \E o \in Outpoints : Uncache(o)
    \/ FlushStateToDisk
    \/ RequestShutdown
    \/ ShutdownFlush
    \/ IndexWriteError
    \/ \E S \in SUBSET batch.left : WritePartial(S)
    \/ WriteFinal
    \/ \E S \in SUBSET batch.left : WriteError(S)
    \/ Crash
    \/ Startup
    \/ LoadChainTip

Spec == Init /\ [][Next]_vars

-----------------------------------------------------------------------------
Coins == 0..MaxHeight
CoinsView == [Outpoints -> Coins]

TypeOK ==
    /\ idx \in [Blocks -> SUBSET {"known", "data", "undo"}]
    /\ idxDisk \in [Blocks -> SUBSET {"known", "data", "undo"}]
    /\ db.coins \in CoinsView /\ db.best \in Blocks \cup {NoBlock}
    /\ db.heads = <<>> \/ db.heads \in Blocks \X (Blocks \cup {NoBlock})
    /\ cache \in [Outpoints -> Coins \cup {NotCached}]
    /\ dirty \subseteq {o \in Outpoints : cache[o] # NotCached}
    /\ best \in Blocks \cup {NoBlock} /\ tip \in Blocks \cup {NoBlock}
    /\ pc \in {"idle", "settip", "flushed", "batch", "shutdown1", "shutdown2",
               "down", "load", "failed"}
    /\ batch.left \subseteq dirty
    /\ dropped \subseteq Blocks /\ pruned \subseteq Blocks

\* Whenever the database names a best block (BatchWrite's last batch "marks the
\* database as consistent with hashBlock again"), its coins are exactly the
\* UTXO set of the chain that ends in that block, through every interrupted
\* flush, reorganisation and replay.  And the assertion in BatchWrite holds
\* whenever a flush runs: the node never flushes another block on top of an
\* unfinished transition.
BestBlockConsistent ==
    /\ db.best # NoBlock => db.coins = UtxoSet(db.best)
    /\ pc = "batch" => HeadsAssert

\* The state has its type, and while the node runs, the tip's coins view is the UTXO set of the tip:
\* ConnectBlock and DisconnectBlock are inverse to each other on it and a
\* flush of either kind does not change it.
ViewIsUtxoOfTip ==
    /\ TypeOK
    /\ pc = "idle" => best = tip /\ View = UtxoSet(tip)

\* DisconnectTip never meets an inconsistency: whenever it can read the block
\* and its undo data, DisconnectBlock returns DISCONNECT_OK.
DisconnectIsClean ==
    (pc = "idle" /\ tip \notin {NoBlock, Genesis} /\ {"data", "undo"} \subseteq idx[tip])
        => DisconnectBlock(View, tip).clean

\* Startup refuses the database ("Unable to replay blocks", or a best block that
\* is not in the index) only for one of two reasons.  A block of the interrupted
\* transition itself was unlinked since the coins were last written completely:
\* what an earlier, completed flush pruned is never needed again.  Or its index
\* entry went into a batch of WriteBlockIndexDB that failed.  It is never because
\* the coins were written before the index entry or undo data they refer to.
ReplayFailsOnlyIfLost ==
    pc = "failed" =>
        IF db.heads = <<>> THEN db.best \in dropped
        ELSE LET old == db.heads[2]
                 fork == IF old = NoBlock THEN NoBlock
                         ELSE LastCommonAncestor(old, db.heads[1])
                 replayed == Range(OldBranch(old, fork)) \cup Range(NewBranch(db.heads[1], fork))
             IN \/ \E b \in replayed : b \in dropped \cup pruned /\ ~({"data", "undo"} \subseteq idxDisk[b])
                \/ \E i \in 1..2 : db.heads[i] \in dropped /\ idxDisk[db.heads[i]] = {}

=============================================================================
