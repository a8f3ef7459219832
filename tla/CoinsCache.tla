------------------------------ MODULE CoinsCache ------------------------------
(***************************************************************************)
(* CCoinsViewCache (coins.cpp, coins.h) at the two levels the node uses    *)
(* it: CoinsTip() over the coins database, and a view over CoinsTip(), the *)
(* CoinsViewOverlay of ConnectTip or the CCoinsViewCache of DisconnectTip. *)
(*                                                                         *)
(* A cache maps an outpoint to an entry or to NoEntry.  An entry is its    *)
(* coin, NoCoin once it is spent, and the set of its flags.  The memory    *)
(* accounting, the allocator and the linked list of flagged entries are    *)
(* left out; the list is the set of the entries with a flag.  A write to   *)
(* the database is atomic here; CoinsDB models how it is not.              *)
(***************************************************************************)
EXTENDS Integers, FiniteSets

CONSTANTS
    Outpoints,    \* transaction outputs
    Coins,        \* coins that can be stored under an outpoint
    Unspendable,  \* coins whose script IsUnspendable
    Blocks,       \* block hashes
    NoCoin,       \* a spent coin, std::nullopt
    NoEntry,      \* no entry in cacheCoins
    Null          \* the null hash

ASSUME CoinsCacheAssumption ==
    /\ NoCoin \notin Coins /\ NoCoin \notin Unspendable
    /\ Coins \cap Unspendable = {}
    /\ Null \notin Blocks
    /\ NoEntry \notin [coin : Coins \cup {NoCoin}, flags : SUBSET {"DIRTY", "FRESH"}]

VARIABLES
    db, dbBest,                        \* CCoinsViewDB: coins, best block
    tip, tipHash, tipDirtyCount,       \* CoinsTip()
    view, viewHash, viewDirtyCount,    \* the view over it
    overlay,                           \* the view is a CoinsViewOverlay
    threw                              \* a std::logic_error was thrown

tipVars  == <<tip, tipHash, tipDirtyCount>>
viewVars == <<view, viewHash, viewDirtyCount, overlay>>
dbVars   == <<db, dbBest>>
vars     == <<dbVars, tipVars, viewVars, threw>>

Flags     == {"DIRTY", "FRESH"}
Entries   == [coin : Coins \cup {NoCoin}, flags : SUBSET Flags]
Caches    == [Outpoints -> Entries \cup {NoEntry}]
EmptyCache == [o \in Outpoints |-> NoEntry]

IsDirty(e) == "DIRTY" \in e.flags
IsFresh(e) == "FRESH" \in e.flags
IsSpent(e) == e.coin = NoCoin

Clean(c) == [coin |-> c, flags |-> {}]

\* 1 if the entry is DIRTY: what m_dirty_count loses when it goes.
DirtyUnit(e) == IF e # NoEntry /\ IsDirty(e) THEN 1 ELSE 0

Init ==
    /\ db = [o \in Outpoints |-> NoCoin] /\ dbBest = Null
    /\ tip = EmptyCache /\ tipHash = Null /\ tipDirtyCount = 0
    /\ view = EmptyCache /\ viewHash = Null /\ viewDirtyCount = 0
    /\ overlay \in BOOLEAN
    /\ threw = FALSE
-----------------------------------------------------------------------------
(* Reading. *)

\* PeekCoin of a cache that holds e for the outpoint, over a base that holds c.
Seen(e, c) == IF e = NoEntry THEN c ELSE e.coin

\* PeekCoin of CoinsTip() and of the view.
TipCoin(o)  == Seen(tip[o], db[o])
ViewCoin(o) == Seen(view[o], TipCoin(o))

\* FetchCoin: a cache after a lookup of o that its base answers with c.
Fetched(cache, o, c) ==
    IF cache[o] = NoEntry /\ c # NoCoin
    THEN [cache EXCEPT ![o] = Clean(c)]
    ELSE cache

\* CoinsTip() after the view has asked it for o: FetchCoinFromBase is GetCoin
\* in a CCoinsViewCache and PeekCoin in a CoinsViewOverlay.
TipAfterViewFetch(o) ==
    IF view[o] = NoEntry /\ ~overlay THEN Fetched(tip, o, db[o]) ELSE tip

\* GetCoin, AccessCoin, HaveCoin.
TipGetCoin(o) ==
    /\ tip' = Fetched(tip, o, db[o])
    /\ UNCHANGED <<dbVars, tipHash, tipDirtyCount, viewVars, threw>>

ViewGetCoin(o) ==
    /\ view' = Fetched(view, o, TipCoin(o))
    /\ tip' = TipAfterViewFetch(o)
    /\ UNCHANGED <<dbVars, tipHash, tipDirtyCount, viewHash, viewDirtyCount,
                   overlay, threw>>

\* GetBestBlock: the hash is fetched from the base when it is null.
TipBest  == IF tipHash = Null THEN dbBest ELSE tipHash
ViewBest == IF viewHash = Null THEN TipBest ELSE viewHash

ViewGetBestBlock ==
    /\ viewHash' = ViewBest
    /\ tipHash' = IF viewHash = Null THEN TipBest ELSE tipHash
    /\ UNCHANGED <<dbVars, tip, tipDirtyCount, view, viewDirtyCount, overlay, threw>>
-----------------------------------------------------------------------------
(* Modifying the view. *)

\* The entry AddCoin leaves.
AddedMutant(e, c, possible_overwrite) ==
    [coin |-> c,
     flags |-> {"DIRTY"} \cup (IF possible_overwrite THEN {} ELSE {"FRESH"})]
Added(e, c, possible_overwrite) ==
    LET old   == IF e = NoEntry THEN {} ELSE e.flags
        fresh == ~possible_overwrite /\ "DIRTY" \notin old
    IN [coin |-> c,
        flags |-> old \cup {"DIRTY"} \cup (IF fresh THEN {"FRESH"} ELSE {})]

\* m_dirty_count after AddCoin replaced entry e.
AddedCountMutant(count, e) == count + 1
AddedCount(count, e) == count - DirtyUnit(e) + 1

\* Unspendable outputs are never stored.
Ignored(c) == c \in Unspendable

\* AddCoin.  The caller's contract is the comment at coins.h:435: without
\* possible_overwrite the view has no unspent coin (ConnectBlock checks BIP30,
\* ApplyTxInUndo calls HaveCoin).
AddCoin(o, c, possible_overwrite) ==
    /\ possible_overwrite \/ ViewCoin(o) = NoCoin
    /\ IF Ignored(c)
       THEN UNCHANGED <<view, viewDirtyCount, threw>>
       ELSE IF ~possible_overwrite /\ view[o] # NoEntry /\ ~IsSpent(view[o])
            THEN threw' = TRUE /\ UNCHANGED <<view, viewDirtyCount>>
            ELSE /\ view' = [view EXCEPT ![o] = Added(view[o], c, possible_overwrite)]
                 /\ viewDirtyCount' = AddedCount(viewDirtyCount, view[o])
                 /\ UNCHANGED threw
    /\ UNCHANGED <<dbVars, tipVars, viewHash, overlay>>

\* The entry SpendCoin leaves of an entry it found.
SpentEntry(e) ==
    IF IsFresh(e) THEN NoEntry ELSE [coin |-> NoCoin, flags |-> e.flags \cup {"DIRTY"}]

\* SpendCoin.  A lookup that finds nothing returns false.
SpendCoin(o) ==
    /\ tip' = TipAfterViewFetch(o)
    /\ LET e == Fetched(view, o, TipCoin(o))[o]
       IN IF e = NoEntry
          THEN UNCHANGED <<view, viewDirtyCount>>
          ELSE /\ view' = [view EXCEPT ![o] = SpentEntry(e)]
               /\ viewDirtyCount' =
                      viewDirtyCount - DirtyUnit(e) + (IF IsFresh(e) THEN 0 ELSE 1)
    /\ UNCHANGED <<dbVars, tipHash, tipDirtyCount, viewHash, overlay, threw>>

SetBestBlock(b) ==
    /\ viewHash' = b
    /\ UNCHANGED <<dbVars, tipVars, view, viewDirtyCount, overlay, threw>>
-----------------------------------------------------------------------------
(* Flush and Sync. *)

DirtyIn(cache) == {o \in Outpoints : cache[o] # NoEntry /\ IsDirty(cache[o])}

\* BatchWrite of CCoinsViewCache: the parent's entry pe after a DIRTY entry ce
\* of the child.
MergedMutant(pe, ce) ==
    IF pe = NoEntry /\ IsFresh(ce) /\ IsSpent(ce) THEN NoEntry
    ELSE IF pe # NoEntry /\ IsFresh(pe) /\ IsSpent(ce) THEN NoEntry
    ELSE [coin |-> ce.coin, flags |-> {"DIRTY"} \cup (ce.flags \cap {"FRESH"})]
Merged(pe, ce) ==
    IF pe = NoEntry
    THEN IF IsFresh(ce) /\ IsSpent(ce) THEN NoEntry
         ELSE [coin |-> ce.coin, flags |-> {"DIRTY"} \cup (ce.flags \cap {"FRESH"})]
    ELSE IF IsFresh(pe) /\ IsSpent(ce) THEN NoEntry
         ELSE [coin |-> ce.coin, flags |-> pe.flags \cup {"DIRTY"}]

\* The merges that count up the parent's m_dirty_count, and those that count it down.
MergeDirties(pe, ce) ==
    IF pe = NoEntry THEN ~(IsFresh(ce) /\ IsSpent(ce))
    ELSE ~(IsFresh(pe) /\ IsSpent(ce)) /\ ~IsDirty(pe)
MergeErases(pe, ce) == pe # NoEntry /\ IsFresh(pe) /\ IsSpent(ce) /\ IsDirty(pe)

\* "FRESH flag misapplied to coin that exists in parent cache".
Misapplied(pe, ce) == pe # NoEntry /\ IsFresh(ce) /\ ~IsSpent(pe)

\* NextAndMaybeErase without will_erase: what Sync leaves of an entry.
Synced(e) ==
    IF e = NoEntry \/ e.flags = {} THEN e
    ELSE IF IsSpent(e) THEN NoEntry ELSE Clean(e.coin)

\* The cache its owner keeps: Flush clears it, Sync keeps the unspent coins.
Kept(cache, erase) ==
    IF erase THEN EmptyCache ELSE [o \in Outpoints |-> Synced(cache[o])]

\* Flush and Sync of the view.  Its callers have set the best block.
ViewFlush(erase) ==
    /\ viewHash # Null
    /\ LET dirty  == DirtyIn(view)
           gained == {o \in dirty : MergeDirties(tip[o], view[o])}
           lost   == {o \in dirty : MergeErases(tip[o], view[o])}
       IN IF \E o \in dirty : Misapplied(tip[o], view[o])
          THEN /\ threw' = TRUE
               /\ UNCHANGED <<tipVars, view, viewDirtyCount>>
          ELSE /\ tip' = [o \in Outpoints |->
                             IF o \in dirty THEN Merged(tip[o], view[o]) ELSE tip[o]]
               /\ tipDirtyCount' = tipDirtyCount + Cardinality(gained) - Cardinality(lost)
               /\ tipHash' = viewHash
               /\ view' = Kept(view, erase)
               /\ viewDirtyCount' = viewDirtyCount - Cardinality(dirty)
               /\ UNCHANGED threw
    /\ UNCHANGED <<dbVars, viewHash, overlay>>

\* Reset, or the end of the view's life and the construction of the next.
DiscardView ==
    /\ view' = EmptyCache /\ viewHash' = Null /\ viewDirtyCount' = 0
    /\ overlay' \in BOOLEAN
    /\ UNCHANGED <<dbVars, tipVars, threw>>

\* FlushStateToDisk: Flush or Sync of CoinsTip(), unless the best block is null.
\* CCoinsViewDB::BatchWrite erases what is spent and writes the other DIRTY coins.
Written(e, c) == IF e # NoEntry /\ IsDirty(e) THEN e.coin ELSE c

TipFlush(erase) ==
    /\ TipBest # Null
    /\ db' = [o \in Outpoints |-> Written(tip[o], db[o])]
    /\ dbBest' = TipBest
    /\ tipHash' = TipBest
    /\ tip' = Kept(tip, erase)
    /\ tipDirtyCount' = tipDirtyCount - Cardinality(DirtyIn(tip))
    /\ UNCHANGED <<viewVars, threw>>
-----------------------------------------------------------------------------
(* CoinsTip() itself. *)

\* Uncache of a coin that is not DIRTY.
UncachableMutant(e) == ~IsFresh(e)
Uncachable(e) == ~IsDirty(e)

Uncache(o) ==
    /\ tip[o] # NoEntry /\ Uncachable(tip[o])
    /\ tip' = [tip EXCEPT ![o] = NoEntry]
    /\ UNCHANGED <<dbVars, tipHash, tipDirtyCount, viewVars, threw>>

\* EmplaceCoinInternalDANGER, while a snapshot is loaded and no view exists.
EmplaceCoin(o, c) ==
    /\ view = EmptyCache /\ viewHash = Null
    /\ tip[o] = NoEntry
    /\ tip' = [tip EXCEPT ![o] = [coin |-> c, flags |-> {"DIRTY"}]]
    /\ tipDirtyCount' = tipDirtyCount + 1
    /\ UNCHANGED <<dbVars, tipHash, viewVars, threw>>

\* The process ends without a flush and starts again.
Restart ==
    /\ tip' = EmptyCache /\ tipHash' = Null /\ tipDirtyCount' = 0
    /\ view' = EmptyCache /\ viewHash' = Null /\ viewDirtyCount' = 0
    /\ overlay' \in BOOLEAN
    /\ UNCHANGED <<dbVars, threw>>

Next ==
    \/ \E o \in Outpoints :
        \/ TipGetCoin(o) \/ ViewGetCoin(o) \/ SpendCoin(o) \/ Uncache(o)
        \/ \E c \in Coins \cup Unspendable, ow \in BOOLEAN : AddCoin(o, c, ow)
        \/ \E c \in Coins : EmplaceCoin(o, c)
    \/ \E b \in Blocks : SetBestBlock(b)
    \/ \E erase \in BOOLEAN : ViewFlush(erase) \/ TipFlush(erase)
    \/ ViewGetBestBlock \/ DiscardView \/ Restart

Spec == Init /\ [][Next]_vars
-----------------------------------------------------------------------------
TypeOK ==
    /\ db \in [Outpoints -> Coins \cup {NoCoin}] /\ dbBest \in Blocks \cup {Null}
    /\ tip \in Caches /\ tipHash \in Blocks \cup {Null}
    /\ view \in Caches /\ viewHash \in Blocks \cup {Null}
    /\ overlay \in BOOLEAN /\ threw \in BOOLEAN

\* The combinations of coin and flags listed at coins.h:103 and asserted by
\* SanityCheck (coins.cpp:356-360), for an entry of a cache.
ValidEntry(e) ==
    e # NoEntry => /\ IsSpent(e) => IsDirty(e) /\ ~IsFresh(e)
                   /\ IsFresh(e) => IsDirty(e)

\* Every entry of both caches has a valid combination of flags, after any
\* sequence of operations on either level.
ValidFlags == \A o \in Outpoints : ValidEntry(tip[o]) /\ ValidEntry(view[o])

\* DIRTY and FRESH mean what coins.h:145-162 says, for an entry whose base holds c:
\* an entry that is not DIRTY equals the base, a FRESH one is not in the base.
FlagsAgree(e, c) ==
    e # NoEntry => /\ ~IsDirty(e) => e.coin = c
                   /\ IsFresh(e) => c = NoCoin

\* "Failure to mark a coin as DIRTY [...] will cause a consensus failure",
\* "Marking a coin as FRESH when it exists unspent in the parent [...]": the
\* flags never lie, at either level.
FlagsSound ==
    \A o \in Outpoints : FlagsAgree(tip[o], db[o]) /\ FlagsAgree(view[o], TipCoin(o))

\* No operation throws std::logic_error: AddCoin never finds an unspent coin it
\* must not overwrite, BatchWrite never finds a misapplied FRESH flag.
NoLogicError == threw = FALSE

\* m_dirty_count is the number of DIRTY entries (SanityCheck, coins.cpp:379), and
\* therefore 0 after a Flush or a Sync (Assume at coins.cpp:283 and 295).
DirtyCountExact ==
    /\ tipDirtyCount = Cardinality(DirtyIn(tip))
    /\ viewDirtyCount = Cardinality(DirtyIn(view))

\* The caches cannot be observed: every operation has the effect it would have on
\* plain sets of unspent outputs.
Store == INSTANCE UtxoStore WITH
    disk <- [coins |-> db, best |-> dbBest],
    tip  <- [coins |-> [o \in Outpoints |-> TipCoin(o)], best |-> TipBest],
    view <- [coins |-> [o \in Outpoints |-> ViewCoin(o)], best |-> ViewBest]

CachesInvisible == Store!Spec
=============================================================================
