# Verification of the Andaluzcoin node

TLA+ models of the parts of the Andaluzcoin node (a fork of Bitcoin Core) whose
correctness depends on the order in which things happen: threads, calls,
flushes, crashes. Every module is translated from the C++ under `src/src/`;
`PROJECT.json` maps each definition to the lines it stands for.

Paths below are relative to `src/src/`. To repeat a result, in this directory:

    tlc -workers 2 -config CoinsCache.cfg MCCoinsCache
    tlapm CoinsCacheProofs.tla

(every module `...Proofs`, and `ValidationSignalsDelivery`, is checked by `tlapm` on
its own; most take two to nine minutes, `ValidationSignalsDelivery` twelve and
`ChainSelectionProofs` twenty).

## 1. The system

A node keeps a tree of block headers and blocks, chooses the branch with the
most work it can use (*chain selection*), connects the blocks of that branch one
by one to the set of unspent outputs (*coins*), has their scripts verified in
parallel (*check queue*), keeps the coins in memory above a database (*coin
caches*) and writes them out now and then in several batches (*coins database*).
After a crash it repairs the database from the block files. Around this core,
peers announce transactions which the node asks for one peer at a time
(*request tracker*), a peer whose headers show too little work has to send them
twice before they are stored (*headers sync*), and other parts are told of every
change of the chain through a queue of callbacks (*validation interface*) that
the *scheduler*'s threads serve: the wallet, ZMQ, the *indexes*. RPC calls come in
through an *HTTP server* on a *thread pool*. Locks: `cs_main` for the block tree
and the coins, `m_chainstate_mutex` for the calls that change the active chain,
one mutex per queue or table.

The parts meet where one waits for another. `ActivateBestChain` waits for the
validation interface's queue, which the scheduler drains, whose callbacks take
`cs_main`, and the shutdown stops the scheduler while both may be under way:
`ValidationSignals` composes these on top of `TaskRunner`. An index reads the
active chain with `cs_main` held and is also fed by that queue: `BaseIndex`. The
event loop of the HTTP server hands requests to pool workers that hand replies
back: `HttpServer` on top of `ThreadPool`.

What Andaluzcoin changes with respect to Bitcoin Core are parameters, names and
the genesis block (`doc/chain-spec.md`); the merged mining described in other
documents is a proposal without code. The models hold for any parameters.

### Inventory

| Part | State | Operations | Hard behaviour | What must hold |
|---|---|---|---|---|
| Check queue (`checkqueue.h`) | queue, `nTodo`, `nIdle`, `nTotal`, `m_result`, two condition variables | `Add`, `Complete`, `Loop`, destructor | work outside the lock, notifications, spurious wake-ups | the verdict of a round is right, nothing survives a round, `Complete` returns |
| Coin caches (`coins.cpp`, `coins.h`) | entries with `DIRTY` and `FRESH`, best block, dirty count, at two levels | lookups, `AddCoin`, `SpendCoin`, `Flush`, `Sync`, `Uncache`, `Reset`, `EmplaceCoinInternalDANGER` | reorganisations that re-create spent coins; merging of flags | caching is invisible, nothing throws |
| Coins database (`txdb.cpp`, `validation.cpp`) | coins, `DB_BEST_BLOCK`, `DB_HEAD_BLOCKS`, block index, undo data | `ConnectTip`, `DisconnectTip`, `FlushStateToDisk`, `BatchWrite`, `ReplayBlocks` | crash between any two writes, also during recovery; pruning; failing writes | a database that names a block holds its coins; recovery works unless a block it needs was unlinked, or its index entry lost, since the coins were last written |
| Chain selection (`validation.cpp`, `node/blockstorage.cpp`) | block index flags, `setBlockIndexCandidates`, `m_blocks_unlinked`, `m_best_header`, tip | header and block arrival, `ActivateBestChain`, `InvalidateBlock`, `ReconsiderBlock`, `PreciousBlock`, pruning, load | `cs_main` is released inside the long calls | the node ends on the best usable chain, no invalid block is active |
| Request tracker (`txrequest.cpp`) | announcements in a multi-index, per-peer counters | `ReceivedInv`, `GetRequestable`, `RequestedTx`, `ReceivedResponse`, `DisconnectedPeer`, `ForgetTxHash` | loops over an index that they reorder; a clock that goes back | one request at a time, to the best candidate; nobody is asked twice |
| Scheduler, task runner (`scheduler.cpp`) | task queues, `m_are_callbacks_running` | `schedule`, `serviceQueue`, `ProcessQueue`, `insert`, `flush` | two runners scheduled at once | events run once, in order, one at a time |
| Validation interface (`validationinterface.cpp`) | list of callbacks with counts | `Register`, `Unregister`, `Iterate`, the signals | an entry unregistered while it is called; the shutdown | no callback after unregistering has returned and the queue is drained; events delivered in order, all but the one of the last flush |
| Indexes (`index/base.cpp`) | best indexed block, `m_synced`, committed locator | `Sync`, `Rewind`, `BlockConnected`, `ChainStateFlushed`, `Init` | hand-over between thread and callbacks, reorganisation, crash, failing commit | no block of the active chain is missed; what was indexed is found |
| Thread pool, HTTP (`util/threadpool.h`, `httpserver.cpp`) | work queue, workers, `m_interrupt`, open requests per connection | `Start`, `Stop`, `Submit`, `Interrupt`, `ProcessTask`; `http_request_cb`, `WriteReply`, the callbacks of libevent | stop while tasks are submitted and replies are sent | accepted requests are answered, a stop does not wait for ever for workers or open requests |
| Headers sync (`headerssync.cpp`) | phase, commitments, redownload buffer | `ProcessNextHeaders` | two passes that must agree | only headers with enough work behind them are released; bounded memory |
| Orphans, download (`node/txorphanage.cpp`, `node/txdownloadman_impl.cpp`) | announcements, work sets, usage | add, erase, limit, work | eviction while work is pending | usage is within its limits, no orphan is lost while its parent arrives |
| Mempool (`txmempool.cpp`, `txgraph.cpp`) | entries, graph with staging | add, remove, replace, reorganise | staging committed or aborted | no entry without its inputs |
| Versionbits (`versionbits.cpp`) | state per period, cache | `GetStateFor` | recursion over a cache | equals the definition without a cache |
| Ban list (`banman.cpp`) | map, dirty flag | ban, unban, dump | write outside the lock | what is dirty is written in the end |
| Address manager, net, net processing, wallet | see `PROJECT.json` | | | |

`PROJECT.json` lists all parts, with the reason for each that has no model, and
the hazards, each at the line where it bites.

## 2. The modules

| Module | Models | Extends or instantiates |
|---|---|---|
| `CheckQueue` | `CCheckQueue`, `CCheckQueueControl` | |
| `CheckQueueProofs` | the theorems about `CheckQueue` | extends `CheckQueue` |
| `CoinsCache` | `CCoinsViewCache` at the levels `CoinsTip()` and view | instantiates `UtxoStore` |
| `UtxoStore` | what the caches promise: three plain sets of unspent outputs | |
| `CoinsCacheProofs` | the theorems about `CoinsCache` | extends `CoinsCache` |
| `CoinsDB` | database, flush, crash, replay | |
| `ChainSelection` | block index, candidates, activation, invalidation | |
| `ChainSelectionProofs` | the theorems about `ChainSelection` | extends `ChainSelection` |
| `TxRequest` | `TxRequestTracker` | instantiates `TxRequestSpec` |
| `TxRequestSpec` | the rules in the comment of the class | |
| `TxRequestProofs` | the invariants of `TxRequest`, and that it implements `TxRequestSpec` | extends `TxRequest` |
| `TaskRunner` | `CScheduler`, `SerialTaskRunner` | instantiates `CallbackQueue` |
| `CallbackQueue` | what the runner promises: one callback at a time, first in first out | |
| `ValidationSignals` | `ValidationSignals`, its callers and the shutdown | extends `TaskRunner` |
| `ValidationSignalsProofs` | the theorems about `TaskRunner`, on its own and as `ValidationSignals` uses it; the places of the threads and of the events | extends `ValidationSignals` |
| `ValidationSignalsDelivery` | syncs, the list entries, the order of delivery, the silence after a sync | extends `ValidationSignalsProofs` |
| `BaseIndex` | `BaseIndex` with `BlockFilterIndex` | |
| `BaseIndexProofs` | the theorems about `BaseIndex` | extends `BaseIndex` |
| `ThreadPool` | `ThreadPool` | |
| `HttpServer` | the request path and the shutdown of `httpserver.cpp` | extends `ThreadPool` |
| `HttpServerProofs` | the invariant of the pool as `HttpServer` uses it, the tracker, the theorems about `HttpServer` | extends `HttpServer` |
| `HeadersSync` | `HeadersSyncState` and its use in `ProcessHeadersMessage` | |
| `MC...` | instances for TLC | |

Operators named `...Mutant` are plausible bugs of the definition that follows
them. They are used nowhere; putting one in place of that definition breaks the
property it is listed with in `PROJECT.json`, which shows that the property sees
the code.

### CheckQueue

A critical section of `m_mutex` is one step. The pieces between them are steps
too: the notification of `Add`, the evaluation of a batch, the notification of
the destructor. A condition variable is the set of threads that wait on it;
`notify_one` wakes any one of them, and a thread may wake on its own. Checks are
numbered in the order of addition within a round, and which of them fail is chosen
when they are added. Variables have the names of the members; `bad`, `added`,
`executed` and `verdict` are history and are reset when the control of the round is
destroyed, so rounds need no bound.

### CoinsCache and UtxoStore

A cache is a function from outpoints to an entry (coin and set of flags) or no
entry. The upper level is the short-lived view of `ConnectTip` or
`DisconnectTip`; both kinds are modelled, since a `CoinsViewOverlay` looks up
coins without filling the cache below. `AddCoin` is called as its contract
demands: without `possible_overwrite` only when the coin is not there. Every
operation is one step (all run under `cs_main`). A write to the database is
atomic in this module.

`UtxoStore` has three functions from outpoints to coins, `disk`, `tip` and
`view`, and no flags. The refinement mapping reads each level through the ones
below it. `CachesInvisible` says every operation on the caches is the obvious
operation on these functions, and lookups, `Uncache` and the choice of `Flush`
or `Sync` are invisible.

### CoinsDB

Memory (`idx`, `cache`, `dirty`, `best`, `tip`) is lost by `Crash`, which may
happen between any two steps; the database, the block index database and the
undo files survive. `BatchWrite` is a sequence of `WritePartial` steps, each of
any subset of the entries that are left, and `WriteFinal`. `Startup` is
`ReplayBlocks` followed by a flush that can be interrupted like any other, and
`LoadChainTip`. A coin is the height of the transaction that made it, so a coin
restored with a wrong height is noticed. `WriteError` is a batch of coins that
throws, `IndexWriteError` the batch of the block index; the node then shuts down,
and shutting down flushes twice more (`init.cpp`). `WriteBlockIndexDB` empties its
sets of dirty entries while it fills the batch, so the entries of a failed one
(`dropped`) are not written by these flushes, while the coins are. A *setting*,
chosen in the initial state, says what the blocks contain, how many of them pruning
keeps and whose batches may throw: those of a `Flush` or of the block index in
`coins_db_recovery`, those of a `Sync` too in `coins_db_write_error`.

`ReplayFailsOnlyIfLost` bounds the damage. A start is refused only for a block of the
interrupted transition that was pruned since the coins were last written completely
(`pruned`, emptied by `WriteFinal`) or whose index entry is among the dropped ones.

The model is of a crash of the process: what a completed write handed to the
operating system is not lost.

### ChainSelection

The block index is a set for each flag. `pc` is where the holder of
`m_chainstate_mutex` is; in the states in which that thread has released
`cs_main` every other call may run as one step. The queue of
`ReceivedBlockTransactions` is explicit (`rq`), because the order in which
waiting blocks are linked decides their sequence numbers; the entries taken from
`m_blocks_unlinked` come in any order, since the multimap keeps them in the order of
their insertion, which the model does not record. A block that arrives while its
parent is marked as failed gets no entry there (`IsValid(BLOCK_VALID_TREE)`,
`validation.cpp:3854`); the history variable `missed` holds the blocks that are on
disk without an entry for that reason, until they are pruned or the index is loaded
again. An assignment to a sort
key of a block that is in the set is undefined behaviour, and stops the model in
`pc = "undefined"`. A *scenario* (blocks, work, which of them are invalid, how many
restarts and user calls) is chosen in the initial state and stays, so one run
covers several instances.

That activation and invalidation end is not checked as a temporal property but as
a variant: `Settles` says every step of theirs lowers the tuple `ToDo` in the
lexicographic order, and that one of them can be taken until they are done.

### TxRequest and TxRequestSpec

The multi-index container is a function `ann` from transaction and peer to an
announcement. The code finds the next candidate as a neighbour in an index sorted
by transaction, state and priority; the model says what the neighbour is in that
order. `SetTimePoint` and `DisconnectedPeer` take one step per announcement, so
that their loops can be seen to end and the invariants are checked between
iterations. `TxRequestSpec` knows only candidates, requests and completed
announcements, and defines what may be requested from a peer by a formula over
all of them; under the mapping the states `DELAYED`, `READY` and `BEST` are one.

### TaskRunner, CallbackQueue and ValidationSignals

An actor is a service thread (in `serviceQueue`) or a client; `pc` says between
which two critical sections of `newTaskMutex` and `m_callbacks_mutex` it is. Of the
times in `taskQueue` only the order matters and how many tasks are due. A thread
whose timed wait ends takes the first task without looking at its time again, as
the code does. `AreThreadsServicingQueue`, `MaybeScheduleProcessQueue` and the
`schedule` after its unlock are steps of their own, which is what lets two
`ProcessQueue` tasks exist at once. `ImplementsQueue` maps this to `CallbackQueue`:
insert, begin, end.

`ValidationSignals` gives the callbacks their content. The entries of `m_list` are
numbered as they are made, and the list is the set of the numbers in it, in their
order: `Register` appends at the end. Each has a count; `Iterate` is one step per critical section, with the list
changing in between. The validator limits the queue (`LimitQueue`, which blocks in
`SyncWithValidationInterfaceQueue` without `cs_main`), then holds `cs_main`, queues a
block event and sends a direct signal. The owner of a subscriber registers it,
unregisters it and syncs before it is destroyed. `main` stops the scheduler,
joins it, flushes the chainstate, drains the callbacks itself, flushes once more and
clears the list, in the order of `Shutdown`. Nobody runs the event of that second
flush (`FlushAgain`): it is inserted after the queue was emptied and the scheduler's
threads are gone.

### BaseIndex

Validation moves the tip and queues events with `cs_main` held; the sync thread
and the callback thread interleave with it and with each other between their
critical sections and database writes. The database has height entries, hash
entries, the best block and the filter position; a batch is atomic and survives
`Crash`, memory and queued events do not. `Commit` may fail, when `CustomCommit`
cannot open, sync or close the filter file: it then writes nothing and its caller
goes on. Where `Rewind` or `ProcessBlock` fails to read something, `FatalErrorf` asks
for the shutdown and the thread or callback ends. `trouble` is the state of the
running index in this respect; `lost` is history and says that the node went down by
a crash, or by a shutdown of an index in trouble. Crashes, failed commits and fatal
errors share one budget of faults. The block tree is given by the path from
genesis to each block (`TreeAssumption`); `NextSyncBlock` is the first block of the
active chain that is not on the path of the one indexed last. `file` is what is stored at each filter
position, so an overwritten filter is noticed. `Start` is `Init` from the database and
the flushed chain.

### ThreadPool and HttpServer

`ThreadPool` has a step per critical section and per notification; the program
counters of all threads are in `pc`, and what a task does is left to the module
that uses it. In `HttpServer` the event thread submits, workers (and the controller,
which drains the queue inside `Stop`) run handlers, and `status` is how far each
request is: dispatched, tracked, accepted by the pool, its reply queued, sent, done.
libevent is external: one request of a connection at a time, one event at a time,
a close callback at any time when the loop is free.

### HeadersSync

The headers that exist form a small tree with a difficulty for each; the salted
hash is the set of headers it maps to 1, chosen when a synchronisation starts. A
message is one step. The peer sends any consecutive headers of the tree
(`AnyMessage`) or answers the last request truthfully from one tip (`HonestAnswer`),
which may grow between two answers. `ProcessNewBlockHeaders` stores the headers up to
the first one that validation refuses: it is marked as failed or its parent is, it
fails `ContextualCheckBlockHeader` (`Invalid`), or its time may still be too far in the
future (`Early`). A block of any other peer may turn out invalid at any time
(`InvalidChainFound`). `released` is what the second phase handed on.

## 3. The runs

| Run | Shows | Size |
|---|---|---|
| `check_queue` | two workers, one master, four checks a round, any number of rounds: verdict, counters, nothing left after a round, no lost notification | 240,636 states, 2 min |
| `coins_cache` | two outpoints, two coins, two blocks and an unspendable coin: flags, counts, no exception, refinement of `UtxoStore` | 28,546 states, 20 s |
| `coins_db_recovery` | two branches above a funding block with three choices of their contents, pruning, batches of a `Flush` or of the block index that fail: consistency through crashes and replays, and what a refused replay is due to | 1,338,746 states, 2 min |
| `chain` | four scenarios: two user calls; two user calls and a restart on one branch of three blocks; one user call and a restart; pruning and a restart: candidates, failures, unlinked blocks, progress, the best chain in the end | 745,441 states, 3 min |
| `tx_request` | three peers, two transactions, two clock values, three announcements | 0.1 million states, 2 min |
| `validation_signals` | two service threads, a validator with two blocks, a subscriber that stays and one that goes, the shutdown: order, counts, silence after a sync, termination, refinement of `CallbackQueue` | 142,075 states, 100 s |
| `base_index` | two branches of two blocks, four moves of the tip, a flush, a restart, and a crash, a failed commit or a fatal error: nothing missed, nothing unfindable before uncommitted state is lost, the sync ends | 523,156 states, 3 min |
| `http_server` | three requests on two connections, two workers, a queue of one: accepted requests are answered, the tracker is exact, `StopHTTPServer` gets past its waits for the workers and for the tracker | 119,540 states, 80 s |
| `headers_sync` | a chain of eight headers and two branches, messages of two, headers that are refused and a block found invalid: only earned headers are released, memory is bounded, an honest peer gets through | 33,735 states, 3 min |

`coins_db_write_error`, `chain_sequence_keys` and `base_index_crash` are expected to
end in a violation: each states what a comment of the code says and shows a
behaviour of the code that does not agree (section 5).

**Bounds.** Two workers are needed for one to finish while the other holds
checks; four checks are the fewest for which a batch of two is ever taken
(`queue.size() / (nTotal + nIdle + 1)`). Two outpoints let one entry change while
another is merged; the flags of an outpoint do not depend on others, and the
theorems below remove the bound. The block trees are the smallest with a
reorganisation of more than one block whose branches share a transaction, conflict,
or spend an output of their own block. Batches of the block index fail in a setting
of their own, with almost empty blocks: what they decide is which index entries are
there, not which coins. In the pruning scenario the second branch has
more work although it is not much longer, so that it can be pruned before it is
needed. A block stored under a failed parent that is not linked itself, and linked
by nothing after `reconsiderblock`, takes a branch of three blocks and two user calls,
the second scenario; the two with branches of different work need no third block.
`MaxSequenceId` cuts behaviours that receive blocks again and again
(`chain` also passes with 14 instead of 13: 1,108,296 states); for `MaxUnlinked`,
two entries are all a reader of the multimap can tell apart here; `MaxPrecious` is
above what the user calls can reach. Three announcements of one transaction are
what it takes to have a selected, a next and a third announcement. Restarts and
user calls are bounded because each may happen at any time.

In `validation_signals` two events are the fewest that can be out of order, and a
`QueueLimit` of 0 makes the validator wait whenever a callback is pending. The
subscriber that goes is registered once; with a second registration the same
properties hold on 512,136 states (4 minutes, not part of the runs). In `base_index`
four moves of the tip allow a reorganisation of two blocks, or of one and back, at
any point of the sync, and one fault of any kind at any point of that. In `http_server` a queue of one is full with one request, two
requests share a connection so that the second waits for the first to end, and
two workers let one take a task while the other exits. In `headers_sync` the period
of commitments is 2, the buffer 3 and the required work is reached at height 5 of chain
`m`, so that the redownload fills the buffer and passes the target, and both
adjustment heights of the difficulty rule occur; the branch `x` has the same first
headers and less work, and the salts let it agree with `m` at all, all but one, or
none of the commitments. One header is always refused, one on each long branch may be
too early, and the block of the second header may be found invalid at any time, so
that a synchronisation can go on over headers the index has refused.

**Symmetry.** `CoinsCache.cfg` permutes outpoints, coins and blocks: no operation
tells them apart, and the run has no liveness property.

**Fairness** is weak fairness of threads that can take a step: they are scheduled,
and a mutex is handed on. In `CheckQueue` nobody has to start a round, add checks or
destroy the queue, and no spurious wake-up is assumed. In `TxRequest` a call that was
begun runs on. In `ValidationSignals` every service thread and every client that is
inside a call runs on; no time passes that has to. In `BaseIndex` the sync thread, the
callback thread and a shutdown that has begun run on, and a node that is down is
started again; the chain need not move. In
`HttpServer` workers, the event loop and the controller run on, and a reply that was
sent is reported as written or its connection as closed (the write finishes or
`-rpcservertimeout` ends it); no request has to arrive and nobody has to stop the
server. `ChainSelection` and `CoinsDB` have no fairness. In `HeadersSync` an honest
peer's progress is stated without it, as a step property.

**Deadlock** is checked in `CheckQueue`, `CoinsCache` and `TxRequest`. The other
systems may really stop: a node that refuses its database (`CoinsDB`), a node that
has received everything (`ChainSelection`, `HeadersSync`), a node that has shut down
(`ValidationSignals`, `BaseIndex`, `HttpServer`); there liveness properties say that
nobody stops earlier.

## 4. The proofs

The modules `...Proofs` and `ValidationSignalsDelivery` hold the theorems, checked by
TLAPS for every value of the constants that meets the assumptions named in the
modules. These say that the markers (`NoCoin`, `NoEntry`, `NoAnn`, `NoEvent`, `NoTask`,
...) are not values of the types they are added to, that threads and clients are
different, that the sets of outpoints, peers, transactions, threads and requests are
finite, that times and limits are natural numbers, that the blocks of `BaseIndex`
and of `ChainSelection` are a finite tree with one genesis, in which a child has more
work than its parent, and that two peers do not have the same salted hash for a
transaction (the code falls back on the order of insertion in that case). TLC
evaluates all of them on its instances, and has checked every inductive invariant
below before it was proved.

Facts about cardinalities and least numbers come from the library's theorem modules,
which are brought in late in a module; lemmas before that point have them as a
hypothesis (`CountingFacts`, `LeastExists`, `TreeFacts`).

### The coin caches

| Theorem | States |
|---|---|
| `TypeCorrect`, `FlagsAreValid`, `FlagsAreSound` | the types, the four legal combinations of coin and flags, and what `DIRTY` and `FRESH` mean, at both levels |
| `NeverThrows` | `NoLogicError`: nothing throws while `AddCoin` is called as its contract demands |
| `Refinement` | `CachesInvisible`: the caches implement `UtxoStore` |
| `DirtyCountsExact` | `DirtyCountExact`: `m_dirty_count` is the number of `DIRTY` entries, at both levels |

The inductive invariant `Inv` is the type invariant, `threw = FALSE`, and for each
outpoint `Good(entry, coin below)` at both levels: the entry is a legal
combination of flags and agrees with the coin that the level below shows. The
legal combinations alone are not inductive: whether a merge in `BatchWrite`
keeps them depends on whether `FRESH` was true, and that on the coin below. The
coin below the upper level is the one seen *through* the lower level, so an
operation on the lower level must be shown not to change what is seen (a lookup,
`Uncache`, a flush to the database) or to happen when the upper level is empty.

The argument is per entry. `AddedGood`, `SpentGood`, `FetchedGood`, `SyncedGood`
and `MergedGood` say what an operation does to one entry over one coin: it stays
good, and shows the coin it should. One lemma per action lifts this to the
caches; `NextInv` and `RefinementNext` are then case distinctions over the
actions.

For the dirty count an operation on one outpoint is `OneEntryDirty`: the count
changes by the difference of two flags. `BatchWrite` merges any number of entries;
`ViewFlushDirty` counts the entries that become dirty in the lower cache
(`MergeDirties`) and those that leave it (`MergeErases`, a `FRESH` entry that is spent),
two disjoint sets, of which the second was counted before.

### The request tracker

| Theorem | States |
|---|---|
| `TypeCorrect`, `Sanity`, `CountsExact` | `TypeOK`, `SanityCheck`, `PeerInfoExact` are invariants, between the iterations of the loops too |
| `NeverAskedTwice` | `AskedOnce` |
| `Refinement` | `ImplementsRules`: the tracker implements `TxRequestSpec`, the value returned by `GetRequestable` included |

The index is a row of announcements per transaction, and every operation changes
one row. There is one lemma per row operation (`PromoteRow`,
`ReselectRow`, `MakeCompletedRow`, `DisconnectRow`, `RequestedRow`): from a row
that passes `SanityCheck` it makes one that passes it, no announcement goes back,
and what the caller can see changes as the rules say. Priorities of different
peers differ, so the neighbour in the index that `ChangeAndReselect` promotes
exists and is unique (`NextBestUnique`).

Then these are lifted to the index. `SanityCheck` is inductive together
with the types; the counters need a lemma on how the number of transactions in a
state changes with one row (`HeldNext`). For the refinement `Inv` has a fourth
conjunct, `NothingDue`: in the second loop of `SetTimePoint` nothing is left that
waits for a time that has come. With it the `READY` and `BEST` announcements are
exactly the candidates whose time has come when `GetRequestable` collects its
result, and the `BEST` one is the only one with the highest priority among them
(`BestIsRequestable`), which is how the rules define what may be requested.

### The task runner

| Theorem | States |
|---|---|
| `TaskInvariant` | the inductive invariant `TaskInv` |
| `CallbacksNotStranded` | `NotStranded`: a pending callback has a task, a running callback or an actor on its way |
| `RunnerImplementsQueue` | `ImplementsQueue`: one callback at a time, first in first out |
| `SignalsImplementQueue`, `SignalsNotStranded` | the same for `ValidationSignals` |

The first three are about `TaskSpec`, the runner by itself, whatever its clients do. `TaskInv` is the
types, `NotStranded` itself, and `OneAtATime`: at most one actor is between the two
places where `ProcessQueue` sets and resets `m_are_callbacks_running`, and the flag is
set then. The flag alone is not enough for the first part: the destructor of
`RAIICallbacksRunning` resets it in a critical section of its own, and only because at
most one actor gets there is it not reset under another. `NotStranded` is what the
`MaybeScheduleProcessQueue` in that destructor is for; `ScheduleNowAdds` and
`NotifyOneWakes` say what scheduling and waking do to the queue and the program
counters. `SignalsUseRunner` shows that every step of `ValidationSignals`, the
shutdown included, is a step of the runner or leaves its variables alone; the two
theorems about it follow.

### The validation interface

| Theorem | States |
|---|---|
| `SignalsInvariant` | the inductive invariant `SignalsInv` |
| `CountsAreExact` | `CountsExact`: an entry's count is one for its registration and one for every thread that executes it; nobody executes an entry that was erased |
| `EventsDelivered` | `DeliveredInOrder`: a subscriber that stays handles every event once and in order, and by the end of `Shutdown` all but the event of its last flush; one that comes and goes handles none twice |
| `QuietOnceSynced` | `QuietAfterSync`: after `Unregister...` and `SyncWithValidationInterfaceQueue` no queued callback reaches the subscriber |

`SignalsInv` has six parts. `Inv1` says where every client is, which events exist and
where (an event is queued once or run by one thread), and that the counts and the list
agree. `SyncInv` says that the function a client waits for is queued once, or run by
one thread, or done. `QuietInv` follows a subscriber that has been unregistered: once
the owner's function runs no entry of it is left in the list; until then, an entry
that a direct signal keeps in the list is covered by a block event that runs or is
ahead of the function. `QueueOrder` and `ExecInv` tie the numbers of the events in the
queue, the event being executed and the position of its iterator to what the permanent
subscriber has handled; `TemporaryInv` does so for the other one, which may have two
entries in its life, of which only one can still be reached.

### The check queue

| Theorem | States |
|---|---|
| `QueueInvariant` | the inductive invariant `QueueInv` |
| `VerdictIsCorrect` | `VerdictCorrect`: `Complete` returns an error exactly when a check of the round fails, and after a success all have been evaluated |
| `CountersAreExact` | `CountersExact`: `nTodo`, `nIdle`, `nTotal`, and no check in two places |
| `NothingAfterRelease` | `FinishedWhenReleased`: nothing is queued, to do or held when no round is under way |

A thread subtracts its batch from `nTodo` and hands in its error only when it takes
`m_mutex` again, so the state in between is what the invariant is about. `Counters`
counts a batch until then (`Unfinished`), and `Errors` says that while no error is known
(`m_result`, or a thread that is about to hand one in) every check of the round is
queued, held, or evaluated without an error, and that a batch is skipped only when an
error is known. The master returns when `nTodo` is 0: by `Counters` no other thread
has a batch that is not accounted for (`OthersIdle`), so by `Errors` the verdict is that
of all checks. The places in all batches are counted as a set of pairs, so that one
thread's part is a difference of two cardinalities (`PlacesAdd`). `Loop` is one critical
section with four ends: `Between` is the state after its first half, and there is one
lemma per end (`ReturnInv`, `WaitInv`, `TakeBatchInv` and the exit).

### The index

| Theorem | States |
|---|---|
| `IndexInvariant` | the inductive invariant `IndexInv` |
| `NothingMissed` | `CaughtUp`: when the index is synced, has not given up and no block is queued, the tip is indexed |
| `NothingLost` | `FoundUntilLost`: every block that was indexed is found with its own filter and header, until the node goes down by a crash or in trouble (a last commit that failed, a fatal error) |

`CaughtUp` speaks of the moment when the queue is empty; `Handover` carries it there.
It says that from the block the index is at (or will be at when the running callback
is done) the queued events *lead* to the tip: the tip is an ancestor of it, or one of the
events connects to an ancestor of it; and that every queued block leads on in the same
sense. The last part makes it inductive: when `BlockConnected` takes an event, the
events behind it lead on from its block, and when it ignores one because it does not
connect, another one does. A disconnected tip is an ancestor of what led to it before.
The theorem covers crashes and restarts, where the queue is lost and `Init` decides
from the committed block.

For `FoundUntilLost`, `FoundInv` says three things as long as nothing is lost and the
index has not given up. `Entries` says that the blocks up to the one the index is at are
in the height index, that any other block in it is also in the hash index (so an
append may overwrite it), and that all entries are good. `NextFilter` keeps the position
at the end of the file: it goes on in memory also after a commit that failed, which is
why such a commit alone does no harm. Across a clean restart the database has to hold
the position and block of the memory that is lost, unless the last commit failed
(`Commits`): a node that is stopping has the last `ChainStateFlushed` at the end of its
queue, and by `Handover` the tip is indexed when it is run, so it commits, or fails to
and is in trouble.

### The HTTP server

| Theorem | States |
|---|---|
| `ServerInvariant` | the inductive invariant `ServerInv` |
| `StopCompletes` | `StopCompletesAccepted`: after the join nothing is queued or running and each accepted request ran exactly once |
| `TrackerExact` | `QueueAndTrackerExact`: the queue stays within `-rpcworkqueue`, the tracker counts the open requests |

`StopCompletesAccepted` speaks only of the end of `Stop`; three facts carry it there.
`Phases` ties the pool's state to the place of the controller, and says that a
worker that has exited has left an empty queue to which nothing can be added:
without the second half a request accepted after the last worker's exit would be
lost. `Holding` says a thread has a task exactly while it runs it. `OnePlace`
derives from the status of a request where it is, in the queue, with one thread, or
executed, and that it is there once; `TakeMoves`, `FinishMoves`, `EnqueueAdds` and
`MovedOn` say how a request changes its place. `Submitting` keeps what
`http_request_cb` learned between its critical sections: the queue was below its
limit when it was looked at, and only workers have changed it since. For the tracker,
`TrackedAdd` and `TrackedRemove` relate the count of a connection to the requests in
service, and a reply that was sent belongs to a connection that is open.

### Chain selection

| Theorem | States |
|---|---|
| `ChainInvariant` | the inductive invariant `ChainInv` |
| `ActiveChainValid` | no block of the active chain is failed, rejected by `ConnectBlock` or not linked, also while `cs_main` is held |
| `FailuresAreExcluded` | `FailuresExcluded`, if `Orderly` |
| `ConnectReadsStored` | `ConnectHasData`: the block `ConnectTip` reads has not been pruned |
| `UnlinkedIsExact` | `UnlinkedExact`: a block that waits is in `m_blocks_unlinked` unless it was stored under a failed parent, and a block that is there waits |
| `ChoiceInvariant` | the inductive invariant about the candidates, if `PreferenceKept` |
| `CandidatesAreExact`, `TipIsTheBest`, `ProgressIsMade` | `CandidatesExact`, `TipIsBest`, `ProgressBeforeUnlock`, if `Orderly` and `PreferenceKept` |
| `PreferenceHolds` | `PreferenceKept` holds in behaviours with at most two user calls |

The properties speak of the states in which `cs_main` is free; the invariants follow
the thread that holds it. `TargetInv` says what is left of `FindMostWorkChain`'s
choice while `ActivateBestChain` works: the candidates have at least the work of the
tip, so the target is not connected already, and when `cs_main` is released the target
is still above the tip, so that pruning, which takes only blocks well below the tip's
height, cannot touch the way to it. `InvalidateInv` and `FailureInv` say which block
`InvalidateBlock` has disconnected last and that only descendants of that block may
lack the mark.

`UnlinkedInv` gives every block that is on disk, not linked and not `missed` an entry, in
`m_blocks_unlinked` or in the queue of `ReceivedBlockTransactions`, and says that an
entry *waits for* a block below it (`WaitsFor`), which is not on disk, missed, or in
that queue, with all blocks in between in `m_blocks_unlinked`. `MissedInv` says that a
missed block has no entry anywhere and is not linked. Linking hands the wait on to
the next block (`WaitsAfterLink`), pruning and `FindMostWorkChain` create one
(`WaitsAfterPrune`). `SelectionInv` then says that no candidate is worse than the tip,
and that a valid linked block is worse, a candidate, or `Held`: it waits for a block
between it and the active chain. While `cs_main` is held blocks may also be missing
that are worse than the tip before the iteration, since only the new tip's candidates
are kept. `StartInv` says that this earlier tip can be connected again, so it is among
the candidates when a target failed to connect and another is looked for
(`StartListed`): no target is worse, which is `ProgressBeforeUnlock`. `BestInv` says
that the target is the best candidate, and that the tip is when nothing runs, unless a
call of `ActivateBestChain` is due.

`Orderly` says no user call has been made or no block of the scenario can be pruned.
Without it the properties fail: `InvalidateBlock` returns when `DisconnectTip` does
not find a pruned block, after it has disconnected others, and leaves out its last
step, which marks the descendants and puts back the candidates that came meanwhile.
`PreferenceKept` says that a call of `PreciousBlock` for the tip does not raise its
sequence id; section 5 shows how it can. Neither is needed for the first, second,
fourth and fifth theorem.

### Only model-checked

Everything about `CoinsDB` and `HeadersSync`, `Settles` of `ChainSelection`, and
liveness. What the two modules compute are folds and recursive functions over blocks
and headers (the coins of a chain, the work of a sequence of headers), and what they
compute for every chain is an induction over data, which the provers cannot do here.

## 5. Where code and comments disagree

1. *Sync and a failing write* (`coins.h:290`). `Sync` clears `DIRTY` before the
   batch with the entry is written. After a write error the node shuts down and
   flushes again; if that write succeeds the database is marked consistent
   without the coins of the failed batch. `Flush` is not affected.
2. *Sort keys* (`validation.cpp:3841`). With pruning, a block can have two entries
   in `m_blocks_unlinked`; when its ancestor is downloaded again its `nSequenceId`
   is assigned while it is in `setBlockIndexCandidates`. The run `chain` stops at
   this point and checks everything that does not pass through it. It can also be
   reached by invalidating a block below the prune height.
3. *An index after a crash* (`index/base.cpp:318`). `Rewind` does not commit any more,
   while two comments still rely on its commit. A block indexed again after a
   rewind gets a new filter position that is in memory only; after a crash the next
   filter is written over it. The same happens without a crash when the commit of the
   shutdown fails, although `index/base.cpp:212` says "index cannot be corrupted by a
   missed commit to disk for an advanced index state". `FoundUntilLost` is what
   remains true.

Seen while modelling and stated by no run:

- *m_best_header after invalidateblock* (`validation.cpp:3642`). A header accepted while
  `InvalidateBlock` has released `cs_main` is not in the map it works from;
  `m_best_header` can stay behind it, which `CheckBlockIndex` (`validation.cpp:5319`)
  excludes. The next header accepted on a better chain repairs it.
- *m_blocks_unlinked after a restart* (`node/blockstorage.cpp:484`). It may hold a block
  without data, which `CheckBlockIndex` (`validation.cpp:5394`) excludes; until a restart
  it does not, as `UnlinkedExact` says.
- *A block stored under a failed parent* (`validation.cpp:3854`). Its header is accepted
  while `InvalidateBlock` has released `cs_main`, the block arrives when its parent, which
  is not linked, is marked, and it gets no entry in `m_blocks_unlinked`. After
  `reconsiderblock` and the arrival of the parent the block is on disk, valid, above a
  linked block, and linked by nothing until the index is loaded again or the block is
  pruned and downloaded. After `reconsiderblock` `CheckBlockIndex` would not find it in
  `m_blocks_unlinked`, where it requires such a block to be (`assert(foundInUnlinked)`,
  `validation.cpp:5392`).
- *A failed batch of the block index* (`node/blockstorage.cpp:515`). The dirty sets are
  empty when the batch throws; the flush of the shutdown that follows does not write
  those entries but writes the coins, whose best block can then be one the index on
  disk does not know, and the next start is refused. `ReplayFailsOnlyIfLost` allows for it.
- *The event of the last flush* (`init.cpp:373`). `Shutdown` flushes the chainstate a
  second time after it has drained the callbacks, so the `ChainStateFlushed` event of
  that flush reaches nobody.
- *invalidateblock on a pruned node* (`validation.cpp:3622`). When `DisconnectTip` fails
  because a block was pruned, the call returns without its last step: descendants with
  little work of what it has disconnected so far stay unmarked, and usable blocks that
  arrived meanwhile can be missing from the candidates (`Orderly` in section 4).
- *preciousblock twice* (`validation.cpp:3532`). The ids count down from -1 and
  start again at -1 once the tip has more work than at the last call. Calls for two
  blocks that are ahead of the tip give the second one -2; when it has become the tip
  a call for it assigns -1, so that it is no longer preferred to the first one
  (`PreferenceKept` in section 4).
- Pruned files are unlinked before the coins are written (`validation.cpp:2799` and
  `2812`), so a crash in between can make a replay impossible and a reindex
  necessary.
- `Sync` of an index commits without asking what the chainstate has flushed, so after
  a crash the committed best block can be unknown to the node
  (`index/base.cpp:318` says the committed state must never be ahead); `Init` then
  refuses to start. After a reorganisation and a crash `CustomInit` can fail
  because the height entry of the committed block was overwritten.
- With two service threads a timed wait that ends can take a task another thread
  scheduled meanwhile before its time (`scheduler.cpp:43`, `scheduler.h:49` says "at/after
  time t"). The node starts one service thread.
- The direct signals (`BlockChecked`, `NewPoWValidBlock`) run beside the queued
  callbacks; `DeliveredInOrder` and `QuietAfterSync` are about the queued ones.

## 6. What is left out

In the modelled parts: memory accounting; the loss of data the operating system
had accepted; legacy undo records and the two BIP30 exceptions; a second
chainstate (assumeutxo) and `m_best_invalid`; equal salted hashes in the request
tracker; `MockForward`, `StopWhenDrained` and exceptions of scheduled tasks; the
contents of callbacks; the subclasses of `BaseIndex` other than the block filter
index, and flushes made from inside `ConnectTip`; an exception of the index's database,
which ends the process and is a `Crash`; parsing, access control and timeouts of HTTP,
and handlers that submit again; the end of the event thread, which `StopHTTPServer`
joins after its two waits (`httpserver.cpp:476`).

In `HeadersSync`: several peers that synchronise headers at once (their states are
separate); a peer with the `NoBan` permission, whose headers count as validated
(`net_processing.cpp:3059`) and never start a synchronisation; the statistics about the
best presync peer (`net_processing.cpp:2710`), which only feed the progress report; the
disconnection of a punished peer, which ends its state; of
`IsAncestorOfBestHeaderOrTip`, the active chain, which the best header extends here; and
the rule for minimum-difficulty blocks, which permits every change of difficulty on
test networks (`pow.cpp:91`). The clamp to `powLimit` needs no model, since a header with
a target above it fails `CheckHeadersPoW`. Whether `MaybeSendGetHeaders` is held back by
a request in flight is a choice where the code's clock decides.

Whole parts without a model are in `PROJECT.json`. The ban list, transaction download,
block download, assumeutxo, versionbits and the address manager could be modelled
in the same way and are in the plan. The mempool's linearisation, script and
consensus checks, proof of work, fee estimation and key handling are computations
over bytes, amounts or 256-bit numbers that TLC cannot enumerate to any purpose;
sockets, RPC, GUI and ZMQ are input and output.

Not provable here and left to TLC: liveness (`ThreadsReturn`, `CallsReturn`,
`ShutdownCompletes`, `EventuallySynced`, `AcceptedAnswered`, `StopReturns`) and
`Settles`, which uses ENABLED; what a fold over blocks or headers computes (`CoinsDB`,
`HeadersSync`), since that is an induction over data.

## 7. Plan

1. The ban list's dump (`banman.cpp:65`), as a small module.
2. `TxOrphanage`, `TxDownload` composed with `TxRequest`.
3. Block download bookkeeping of `net_processing.cpp` over `ChainSelection`'s
   index; a second chainstate in `ChainSelection`.
4. `VersionBits` as a recursive function against a definition without a cache.
5. The address manager.
