------------------------------- MODULE BaseIndex -------------------------------
(***************************************************************************)
(* An index of the block chain: BaseIndex (index/base.cpp) with            *)
(* BlockFilterIndex (index/blockfilterindex.cpp) as its subclass.          *)
(*                                                                         *)
(* Three actors: validation moves the active chain with cs_main held and   *)
(* queues BlockConnected and ChainStateFlushed; the scheduler thread runs  *)
(* the queued callbacks one at a time and in order; the index's own thread *)
(* runs Sync until it has caught up.  The index database keeps every write *)
(* across a crash of the process; the node's memory and the events do not. *)
(*                                                                         *)
(* A filter is its block, a filter header is the sequence of blocks it     *)
(* commits to, and a position is the number of filters before it.          *)
(***************************************************************************)
EXTENDS Integers, Sequences, Functions

CONSTANTS
    Blocks,          \* all blocks, genesis included
    Path,            \* the blocks from genesis to each block
    NoBlock,         \* nullptr
    StartTip,        \* tip of the active chain when the index is first enabled
    MaxChainSteps,   \* bound: blocks connected and disconnected
    MaxFlushes,      \* bound: flushes of the chainstate
    MaxFaults,       \* bound: crashes, failed commits and fatal errors
    MaxRestarts      \* bound: clean shutdowns

\* The blocks are a tree: a path ends in its block, every part of it from genesis is
\* the path of a block, and all paths begin with the same genesis.
ASSUME TreeAssumption ==
    /\ NoBlock \notin Blocks /\ StartTip \in Blocks
    /\ Path \in [Blocks -> Seq(Blocks) \ {<<>>}]
    /\ \A b \in Blocks : Path[b][Len(Path[b])] = b
    /\ \A b \in Blocks : \A i \in DOMAIN Path[b] : Path[Path[b][i]] = SubSeq(Path[b], 1, i)
    /\ \A b \in Blocks : Path[b][1] = Path[StartTip][1]
ASSUME BoundAssumption == {MaxChainSteps, MaxFlushes, MaxFaults, MaxRestarts} \subseteq Nat

VARIABLES
    tip,               \* m_chainstate->m_chain.Tip()
    known,             \* block index entries in memory
    flushed,           \* chainstate and block index on disk: [tip, known]
    events,            \* ValidationInterface queue, as far as it concerns the index
    m_synced, m_best_block_index, m_interrupt,
    m_last_header, m_next_filter_pos,
    sync, callback,    \* the two threads: [pc, pindex, next]
    db,                \* index database: [height, hash, pos, best]
    file,              \* the filter file: what is at each position
    indexed,           \* history: blocks the running index has indexed or found indexed
    trouble,           \* of the running index: "none", "commit" (its last Commit
                       \* failed) or "fatal" (it gave up with FatalErrorf)
    lost,              \* history: the node went down with index state uncommitted
    node,              \* "up", "stopping", "down", or why the node stopped
    bounds             \* what is left of the bounds

chain  == <<tip, known, flushed>>
memory == <<m_best_block_index, m_last_header, m_next_filter_pos>>
disk   == <<db, file, indexed>>
faults == <<trouble, lost>>
vars   == <<chain, events, m_synced, m_interrupt, memory, sync, callback, disk, faults, node,
            bounds>>

pprev(b)  == IF Len(Path[b]) = 1 THEN NoBlock ELSE Path[b][Len(Path[b]) - 1]
Height(b) == Len(Path[b]) - 1
PathTo(b) == IF b = NoBlock THEN <<>> ELSE Path[b]
Heights   == {Height(b) : b \in Blocks}

\* GetAncestor(height of b) = b
IsAncestor(b, c) == b = NoBlock \/ (c # NoBlock /\ b \in Range(Path[c]))

Idle    == [pc |-> "idle", pindex |-> NoBlock, next |-> NoBlock]
NoEntry == [block |-> NoBlock, header |-> <<>>, pos |-> 0]

Alive == node \in {"up", "stopping"}

Use(bound) == bounds[bound] > 0 /\ bounds' = [bounds EXCEPT ![bound] = @ - 1]
-----------------------------------------------------------------------------
(* BlockFilterIndex. *)

\* ReadFilterHeader reads the height index only.
HeaderFound(b) == db.height[Height(b)].block = b

\* LookUpOne: the height index, then the hash index.
LookUpOne(b) == IF HeaderFound(b) THEN db.height[Height(b)] ELSE db.hash[b]

\* LookupFilter and LookupFilterHeader succeed, with the block's own data.
Found(b) ==
    LET e == LookUpOne(b)
    IN e.block = b /\ e.header = Path[b] /\ file[e.pos + 1] = b

\* CustomAppend and Write.  The entry is in the database before any Commit.
CustomAppend(b) ==
    LET header == Append(m_last_header, b)
        pos    == m_next_filter_pos
    IN /\ file' = IF pos < Len(file) THEN [file EXCEPT ![pos + 1] = b] ELSE Append(file, b)
       /\ db' = [db EXCEPT !.height[Height(b)] =
                              [block |-> b, header |-> header, pos |-> pos]]
       /\ m_next_filter_pos' = pos + 1
       /\ m_last_header' = header
       /\ indexed' = indexed \cup {b}

\* CustomRemove's batch: the height entry is copied to the hash index, and the
\* position is written with it.  The block was indexed at its height, so there is
\* an entry to copy.
RemovedMutant(b) == db
Removed(b) ==
    LET e == db.height[Height(b)]
    IN [db EXCEPT !.hash = IF e.block = NoBlock THEN @ ELSE [@ EXCEPT ![e.block] = e],
                  !.pos = m_next_filter_pos]

\* CustomRemove.  The header of the previous block must be in the height index
\* (Assert), or the node aborts.
CustomRemove(b) ==
    /\ db' = Removed(b)
    /\ IF HeaderFound(pprev(b))
       THEN /\ m_last_header' = db.height[Height(pprev(b))].header
            /\ UNCHANGED node
       ELSE node' = "assert" /\ UNCHANGED m_last_header
    /\ UNCHANGED <<file, indexed, m_next_filter_pos>>

\* Commit of the state with best block b: nothing if no block was indexed yet.
Committed(b) == IF b = NoBlock THEN db ELSE [db EXCEPT !.pos = m_next_filter_pos, !.best = b]

\* Commit.  CustomCommit may fail to open, sync or close the filter file: then nothing
\* is written, and no caller looks at the result.
Commit(b) ==
    \/ /\ db' = Committed(b)
       /\ trouble' = IF b # NoBlock /\ trouble = "commit" THEN "none" ELSE trouble
       /\ UNCHANGED bounds
    \/ /\ b # NoBlock /\ Use("fault")
       /\ trouble' = IF trouble = "none" THEN "commit" ELSE trouble
       /\ UNCHANGED db
-----------------------------------------------------------------------------
(* Validation, with cs_main held. *)

ConnectTip(b) ==
    /\ node = "up" /\ pprev(b) = tip /\ Use("chain")
    /\ tip' = b
    /\ known' = known \cup {b}
    /\ events' = Append(events, [type |-> "BlockConnected", block |-> b])
    /\ UNCHANGED <<flushed, m_synced, m_interrupt, memory, sync, callback, disk, faults, node>>

\* BlockDisconnected is not handled by the index.
DisconnectTip ==
    /\ node = "up" /\ pprev(tip) # NoBlock /\ Use("chain")
    /\ tip' = pprev(tip)
    /\ UNCHANGED <<known, flushed, events, m_synced, m_interrupt, memory, sync, callback,
                   disk, faults, node>>

\* FlushStateToDisk: block index and coins, and the notification.
FlushStateToDisk ==
    /\ node = "up" /\ Use("flush")
    /\ flushed' = [tip |-> tip, known |-> known]
    /\ events' = Append(events, [type |-> "ChainStateFlushed", block |-> tip])
    /\ UNCHANGED <<tip, known, m_synced, m_interrupt, memory, sync, callback, disk, faults, node>>
-----------------------------------------------------------------------------
(* Rewind and ProcessBlock, one database write at a time: thread t (sync or *)
(* callback) is at pindex and wants next, whose pprev it rewinds to first.  *)

RewindStep(t) ==
    /\ t.pc = "work" /\ pprev(t.next) # t.pindex
    /\ CustomRemove(t.pindex)
    /\ m_best_block_index' = IF pprev(t.pindex) = pprev(t.next) THEN pprev(t.next)
                             ELSE m_best_block_index

AppendStep(t) ==
    /\ t.pc = "work" /\ pprev(t.next) = t.pindex
    /\ CustomAppend(t.next)

\* FatalErrorf: Rewind or ProcessBlock has failed to read a block, its undo data or an
\* entry, or to write the filter.  The thread gives up and the node is told to shut down.
FatalErrorf(t) ==
    /\ Alive /\ t.pc = "work" /\ Use("fault")
    /\ trouble' = "fatal" /\ m_interrupt' = TRUE
-----------------------------------------------------------------------------
(* Sync. *)

\* NextSyncBlock: the block of the active chain after b, or after its fork with the
\* chain.  There is none when b is the tip or descends from it.
NextSyncBlock(b) ==
    IF IsAncestor(tip, b) THEN NoBlock
    ELSE CHOOSE c \in Range(Path[tip]) : ~IsAncestor(c, b) /\ IsAncestor(pprev(c), b)

Running == Alive /\ sync.pc # "idle"

SyncInterrupted ==
    /\ Running /\ sync.pc = "loop" /\ m_interrupt
    /\ m_best_block_index' = sync.pindex
    /\ Commit(sync.pindex)
    /\ sync' = Idle
    /\ UNCHANGED <<chain, events, m_synced, m_interrupt, m_last_header, m_next_filter_pos,
                   callback, file, indexed, lost, node>>

SyncNext ==
    /\ Running /\ sync.pc = "loop" /\ ~m_interrupt
    /\ LET next == NextSyncBlock(sync.pindex)
       IN sync' = [sync EXCEPT !.pc = IF next = NoBlock THEN "commit" ELSE "work",
                               !.next = next]
    /\ UNCHANGED <<chain, events, m_synced, m_interrupt, memory, callback, disk, faults, node,
                   bounds>>

\* Nothing is left: commit, and look again.  Also the periodic commit.
SyncCommit ==
    /\ Running /\ sync.pc \in {"commit", "periodic"}
    /\ m_best_block_index' = sync.pindex
    /\ Commit(sync.pindex)
    /\ sync' = [sync EXCEPT !.pc = IF @ = "commit" THEN "recheck" ELSE "loop"]
    /\ UNCHANGED <<chain, events, m_synced, m_interrupt, m_last_header, m_next_filter_pos,
                   callback, file, indexed, lost, node>>

\* m_synced is set with cs_main held, if the chain has not moved since.
StillAtTipMutant == TRUE
StillAtTip == NextSyncBlock(sync.pindex) = NoBlock

SyncRecheckMutant ==
    /\ Running /\ sync.pc = "recheck" /\ StillAtTip
    /\ sync' = Idle
    /\ UNCHANGED <<chain, events, m_synced, m_interrupt, memory, callback, disk, faults, node,
                   bounds>>

SyncRecheck ==
    /\ Running /\ sync.pc = "recheck"
    /\ IF StillAtTip
       THEN m_synced' = TRUE /\ sync' = Idle
       ELSE /\ sync' = [sync EXCEPT !.pc = "work", !.next = NextSyncBlock(sync.pindex)]
            /\ UNCHANGED m_synced
    /\ UNCHANGED <<chain, events, m_interrupt, memory, callback, disk, faults, node, bounds>>

SyncRewind ==
    /\ Running /\ RewindStep(sync)
    /\ sync' = [sync EXCEPT !.pindex = pprev(@)]
    /\ UNCHANGED <<chain, events, m_synced, m_interrupt, callback, faults, bounds>>

\* The periodic commit follows when the interval has passed.
SyncAppend ==
    /\ Running /\ AppendStep(sync)
    /\ \E pc \in {"loop", "periodic"} :
         sync' = [pc |-> pc, pindex |-> sync.next, next |-> NoBlock]
    /\ UNCHANGED <<chain, events, m_synced, m_interrupt, m_best_block_index, callback, faults,
                   node, bounds>>

SyncFatal ==
    /\ FatalErrorf(sync)
    /\ sync' = Idle
    /\ UNCHANGED <<chain, events, m_synced, memory, callback, disk, lost, node>>

SyncStep ==
    \/ SyncInterrupted \/ SyncNext \/ SyncCommit \/ SyncRecheck \/ SyncRewind \/ SyncAppend
    \/ SyncFatal
-----------------------------------------------------------------------------
(* The callbacks, on the scheduler thread. *)

\* A block is ignored until the index is synced, and when it does not connect to
\* an ancestor of the best block.
MustIndex(b) == m_synced /\ IsAncestor(pprev(b), m_best_block_index)

BlockConnected ==
    /\ Alive /\ callback.pc = "idle" /\ events # <<>>
    /\ Head(events).type = "BlockConnected"
    /\ LET b == Head(events).block
       IN callback' = IF MustIndex(b)
                      THEN [pc |-> "work", pindex |-> m_best_block_index, next |-> b]
                      ELSE callback
    /\ events' = Tail(events)
    /\ UNCHANGED <<chain, m_synced, m_interrupt, memory, sync, disk, faults, node, bounds>>

BlockConnectedRewind ==
    /\ Alive /\ RewindStep(callback)
    /\ callback' = [callback EXCEPT !.pindex = pprev(@)]
    /\ UNCHANGED <<chain, events, m_synced, m_interrupt, sync, faults, bounds>>

BlockConnectedAppend ==
    /\ Alive /\ AppendStep(callback)
    /\ m_best_block_index' = callback.next
    /\ callback' = Idle
    /\ UNCHANGED <<chain, events, m_synced, m_interrupt, sync, faults, node, bounds>>

BlockConnectedFatal ==
    /\ FatalErrorf(callback)
    /\ callback' = Idle
    /\ UNCHANGED <<chain, events, m_synced, memory, sync, disk, lost, node>>

ChainStateFlushed ==
    /\ Alive /\ callback.pc = "idle" /\ events # <<>>
    /\ Head(events).type = "ChainStateFlushed"
    /\ IF m_synced /\ IsAncestor(Head(events).block, m_best_block_index)
       THEN Commit(m_best_block_index) ELSE UNCHANGED <<db, trouble, bounds>>
    /\ events' = Tail(events)
    /\ UNCHANGED <<chain, m_synced, m_interrupt, memory, sync, callback, file, indexed, lost,
                   node>>

CallbackStep ==
    \/ BlockConnected \/ BlockConnectedRewind \/ BlockConnectedAppend
    \/ BlockConnectedFatal \/ ChainStateFlushed
-----------------------------------------------------------------------------
(* Shutdown, crash and start. *)

\* Interrupt(): m_interrupt of the index.  Validation may still move the chain
\* until Shutdown() gets to the flush.
InterruptIndex ==
    /\ node = "up" /\ ~m_interrupt /\ Use("restart")
    /\ m_interrupt' = TRUE
    /\ UNCHANGED <<chain, events, m_synced, memory, sync, callback, disk, faults, node>>

\* Shutdown(): validation has stopped; the chainstate is flushed ...
ShutdownFlush ==
    /\ node = "up" /\ m_interrupt
    /\ node' = "stopping"
    /\ flushed' = [tip |-> tip, known |-> known]
    /\ events' = Append(events, [type |-> "ChainStateFlushed", block |-> tip])
    /\ UNCHANGED <<tip, known, m_synced, m_interrupt, memory, sync, callback, disk, faults, bounds>>

\* ... the queue is drained, the index unregistered and its thread joined.
Stop ==
    /\ node = "stopping" /\ events = <<>> /\ callback.pc = "idle" /\ sync.pc = "idle"
    /\ node' = "down" /\ lost' = (lost \/ trouble # "none")
    /\ UNCHANGED <<chain, events, m_synced, m_interrupt, memory, sync, callback, disk, trouble,
                   bounds>>

Crash ==
    /\ Alive /\ Use("fault")
    /\ node' = "down" /\ events' = <<>> /\ sync' = Idle /\ callback' = Idle
    /\ lost' = TRUE
    /\ UNCHANGED <<chain, m_synced, m_interrupt, memory, disk, trouble>>

\* LookupBlockIndex of the locator's first entry, then CustomInit.
CanInit == db.best \in flushed.known /\ HeaderFound(db.best)

\* Init() and StartBackgroundSync on the chain the node has loaded from disk.
Start ==
    /\ node = "down"
    /\ tip' = flushed.tip /\ known' = flushed.known
    /\ m_interrupt' = FALSE /\ trouble' = "none"
    /\ IF db.best = NoBlock \/ CanInit
       THEN /\ node' = "up"
            /\ m_best_block_index' = db.best
            /\ m_next_filter_pos' = db.pos
            /\ m_last_header' = IF db.best = NoBlock THEN <<>>
                                ELSE db.height[Height(db.best)].header
            /\ m_synced' = (db.best = flushed.tip)
            /\ indexed' = Range(PathTo(db.best))
            /\ sync' = IF m_synced' THEN Idle
                       ELSE [pc |-> "loop", pindex |-> db.best, next |-> NoBlock]
       ELSE /\ node' = "initerror"
            /\ UNCHANGED <<memory, m_synced, sync, indexed>>
    /\ UNCHANGED <<flushed, events, callback, db, file, lost, bounds>>

Init ==
    /\ tip = StartTip /\ known = Range(Path[StartTip])
    /\ flushed = [tip |-> StartTip, known |-> Range(Path[StartTip])]
    /\ events = <<>> /\ m_synced = FALSE /\ m_interrupt = FALSE
    /\ m_best_block_index = NoBlock /\ m_last_header = <<>> /\ m_next_filter_pos = 0
    /\ sync = Idle /\ callback = Idle
    /\ db = [height |-> [h \in Heights |-> NoEntry], hash |-> [b \in Blocks |-> NoEntry],
             pos |-> 0, best |-> NoBlock]
    /\ file = <<>> /\ indexed = {} /\ node = "down"
    /\ trouble = "none" /\ lost = FALSE
    /\ bounds = [chain |-> MaxChainSteps, flush |-> MaxFlushes,
                 fault |-> MaxFaults, restart |-> MaxRestarts]

Next ==
    \/ \E b \in Blocks : ConnectTip(b)
    \/ DisconnectTip \/ FlushStateToDisk
    \/ SyncStep \/ CallbackStep
    \/ InterruptIndex \/ ShutdownFlush \/ Stop \/ Crash \/ Start

\* The two threads keep running and a node that is down is started; nothing is
\* owed by validation, and nobody has to stop the node.
Fairness ==
    /\ WF_vars(SyncStep) /\ WF_vars(CallbackStep)
    /\ WF_vars(ShutdownFlush) /\ WF_vars(Stop) /\ WF_vars(Start)

Spec == Init /\ [][Next]_vars /\ Fairness
-----------------------------------------------------------------------------
\* Every block the running index has indexed, or was started on, is found with its
\* own filter and header ("index cannot be corrupted by a missed commit to disk
\* for an advanced index state", index/base.cpp:212).
IndexedFound == Alive => \A b \in indexed : Found(b)

\* As long as the node has gone down only by a shutdown whose last Commit was good,
\* that is so, also after a reorg has replaced a height entry, after a Commit that
\* failed and across restarts ("so we can still find it when the height index entry
\* is overwritten", index/blockfilterindex.cpp:283).
FoundUntilLost == ~lost /\ trouble # "fatal" => IndexedFound

\* Once the index is synced, has not given up and has in the queue no block it still
\* has to index, the tip of the active chain is indexed: nothing is missed when Sync
\* hands over to the callbacks (the comment on m_synced, index/base.cpp:233).
CaughtUp ==
    Alive /\ m_synced /\ trouble # "fatal" /\ callback.pc = "idle"
      /\ (\A i \in DOMAIN events : events[i].type # "BlockConnected")
    => IsAncestor(tip, m_best_block_index)

\* The index catches up: once validation, faults and restarts are over it is
\* synced with the tip indexed, unless the node could not go on.
EventuallySynced ==
    <>[](\/ node \in {"assert", "initerror"}
         \/ m_synced /\ IsAncestor(tip, m_best_block_index))
=============================================================================
