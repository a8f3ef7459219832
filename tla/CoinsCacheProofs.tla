--------------------------- MODULE CoinsCacheProofs ---------------------------
(***************************************************************************)
(* Proofs about CoinsCache, for any sets of outpoints, coins and blocks.   *)
(***************************************************************************)
EXTENDS CoinsCache, TLAPS

CoinValues == Coins \cup {NoCoin}
MaybeEntry == Entries \cup {NoEntry}

\* What an entry e of a cache over a base that holds c must satisfy.
Good(e, c) == e \in MaybeEntry /\ ValidEntry(e) /\ FlagsAgree(e, c)

\* NoEntry cannot be mistaken for an entry.
LEMMA NoEntryIsNoEntry == NoEntry \notin Entries
BY Zenon, CoinsCacheAssumption DEF Entries, Flags

-----------------------------------------------------------------------------
(* What each operation does to one entry. *)

\* AddCoin (coins.cpp:89) leaves a good entry that shows the added coin.
LEMMA AddedGood ==
    ASSUME NEW e, NEW base \in CoinValues, Good(e, base),
           NEW c \in Coins, NEW ow \in BOOLEAN,
           ow \/ Seen(e, base) = NoCoin
    PROVE  /\ Good(Added(e, c, ow), base)
           /\ Seen(Added(e, c, ow), base) = c
           /\ Added(e, c, ow) # NoEntry
<1> DEFINE new == Added(e, c, ow)
           old == IF e = NoEntry THEN {} ELSE e.flags
<1>1. old \in SUBSET Flags
  BY Zenon DEF Good, MaybeEntry, Entries
<1>2. new \in Entries /\ new.coin = c /\ "DIRTY" \in new.flags
  BY Zenon, <1>1 DEF Added, Entries, Flags
<1>3. c # NoCoin
  BY Zenon, CoinsCacheAssumption
<1>4. ASSUME "FRESH" \in new.flags PROVE base = NoCoin
  <2>1. CASE "FRESH" \in old
    BY Zenon, <2>1 DEF Good, FlagsAgree, IsFresh
  <2>2. CASE ~ow /\ "DIRTY" \notin old
    <3>1. CASE e = NoEntry
      BY Zenon, <2>2, <3>1 DEF Seen
    <3>2. CASE e # NoEntry
      BY Zenon, <2>2, <3>2 DEF Seen, Good, ValidEntry, IsSpent, IsDirty
    <3> QED BY Zenon, <3>1, <3>2
  <2> QED BY Zenon, <1>4, <2>1, <2>2 DEF Added
<1> QED
  BY Zenon, <1>2, <1>3, <1>4, NoEntryIsNoEntry
  DEF Good, MaybeEntry, ValidEntry, FlagsAgree, Seen, IsDirty, IsFresh, IsSpent

\* SpendCoin (coins.cpp:167-173) leaves a good entry, or none, that shows no coin.
LEMMA SpentGood ==
    ASSUME NEW e \in Entries, NEW base \in CoinValues, Good(e, base)
    PROVE  Good(SpentEntry(e), base) /\ Seen(SpentEntry(e), base) = NoCoin
<1>1. CASE IsFresh(e)
  BY Zenon, <1>1, NoEntryIsNoEntry
  DEF SpentEntry, Good, MaybeEntry, ValidEntry, FlagsAgree, Seen
<1>2. CASE ~IsFresh(e)
  <2>1. SpentEntry(e) = [coin |-> NoCoin, flags |-> e.flags \cup {"DIRTY"}]
    BY Zenon, <1>2 DEF SpentEntry
  <2>2. SpentEntry(e) \in Entries
    BY <2>1 DEF Entries, Flags
  <2> QED
    BY <1>2, <2>1, <2>2, NoEntryIsNoEntry
    DEF Good, MaybeEntry, ValidEntry, FlagsAgree, Seen, IsFresh, IsDirty, IsSpent
<1> QED BY Zenon, <1>1, <1>2

\* FetchCoin (coins.cpp:68) fills in a good entry and changes nothing that is seen.
LEMMA FetchedGood ==
    ASSUME NEW cache \in Caches, NEW base \in [Outpoints -> CoinValues],
           \A p \in Outpoints : Good(cache[p], base[p]),
           NEW o \in Outpoints
    PROVE  LET new == Fetched(cache, o, base[o])
           IN /\ new \in Caches
              /\ \A p \in Outpoints :
                    /\ Good(new[p], base[p])
                    /\ Seen(new[p], base[p]) = Seen(cache[p], base[p])
                    /\ p # o => new[p] = cache[p]
              /\ new[o] = NoEntry => base[o] = NoCoin
<1>1. CASE cache[o] = NoEntry /\ base[o] # NoCoin
  <2> DEFINE new == Fetched(cache, o, base[o])
  <2>1. new = [cache EXCEPT ![o] = Clean(base[o])]
    BY Zenon, <1>1 DEF Fetched
  <2>2. Clean(base[o]) \in Entries /\ Clean(base[o]) # NoEntry
    BY NoEntryIsNoEntry DEF Clean, Entries, CoinValues
  <2>3. new \in Caches /\ new[o] = Clean(base[o])
    BY Zenon, <2>1, <2>2 DEF Caches
  <2>4. Good(new[o], base[o]) /\ Seen(new[o], base[o]) = Seen(cache[o], base[o])
    BY <1>1, <2>2, <2>3
    DEF Good, MaybeEntry, ValidEntry, FlagsAgree, Seen, Clean, IsDirty, IsFresh, IsSpent
  <2>5. \A p \in Outpoints : p # o => new[p] = cache[p]
    BY Zenon, <2>1 DEF Caches
  <2> HIDE DEF new
  <2>6. \A p \in Outpoints : Good(new[p], base[p])
                             /\ Seen(new[p], base[p]) = Seen(cache[p], base[p])
    BY Zenon, <2>4, <2>5
  <2> QED BY Zenon, <2>2, <2>3, <2>5, <2>6 DEF new
<1>2. CASE ~(cache[o] = NoEntry /\ base[o] # NoCoin)
  BY Zenon, <1>2 DEF Fetched
<1> QED BY Zenon, <1>1, <1>2

\* Sync (NextAndMaybeErase, coins.h:279) leaves a good entry over a base that has
\* taken the entry over.
LEMMA SyncedGood ==
    ASSUME NEW e, NEW c \in CoinValues, Good(e, c)
    PROVE  /\ Good(Synced(e), Seen(e, c))
           /\ Seen(Synced(e), Seen(e, c)) = Seen(e, c)
<1>1. CASE e = NoEntry \/ e.flags = {}
  BY Zenon, <1>1 DEF Synced, Good, ValidEntry, FlagsAgree, Seen, IsDirty, IsFresh, IsSpent
<1>2. CASE ~(e = NoEntry \/ e.flags = {}) /\ IsSpent(e)
  BY Zenon, <1>2 DEF Synced, Good, MaybeEntry, ValidEntry, FlagsAgree, Seen
<1>3. CASE ~(e = NoEntry \/ e.flags = {}) /\ ~IsSpent(e)
  <2>1. Synced(e) = Clean(e.coin) /\ Clean(e.coin) \in Entries
    BY Zenon, <1>3 DEF Synced, Clean, Good, MaybeEntry, Entries
  <2> QED
    BY <1>3, <2>1, NoEntryIsNoEntry
    DEF Clean, Good, MaybeEntry, ValidEntry, FlagsAgree, Seen, IsDirty, IsFresh, IsSpent
<1> QED BY Zenon, <1>1, <1>2, <1>3

\* CCoinsViewDB::BatchWrite (txdb.cpp:131) stores exactly what CoinsTip() shows.
LEMMA WrittenIsSeen ==
    ASSUME NEW e, NEW c, Good(e, c)
    PROVE  Written(e, c) = Seen(e, c)
BY Zenon DEF Good, FlagsAgree, Written, Seen

\* CCoinsViewCache::BatchWrite (coins.cpp:208) leaves the parent a good entry that
\* shows the coin of the child; the exception at coins.cpp:245 is not reached.
LEMMA MergedGood ==
    ASSUME NEW pe, NEW c \in CoinValues, Good(pe, c),
           NEW ce \in Entries, Good(ce, Seen(pe, c)), IsDirty(ce)
    PROVE  /\ Good(Merged(pe, ce), c)
           /\ Seen(Merged(pe, ce), c) = ce.coin
           /\ ~Misapplied(pe, ce)
<1> DEFINE new == Merged(pe, ce)
<1>0. ce # NoEntry
  BY Zenon, NoEntryIsNoEntry
<1>1. CASE pe = NoEntry
  <2>1. ~(IsFresh(ce) /\ IsSpent(ce))
    BY Zenon, <1>0 DEF Good, ValidEntry
  <2>2. new = [coin |-> ce.coin, flags |-> {"DIRTY"} \cup (ce.flags \cap {"FRESH"})]
    BY Zenon, <1>1, <2>1 DEF Merged
  <2>3. new \in Entries
    BY <2>2 DEF Entries, Flags
  <2>4. IsFresh(new) => c = NoCoin
    BY <1>0, <1>1, <2>2 DEF Good, FlagsAgree, Seen, IsFresh
  <2> QED
    BY <1>0, <1>1, <2>1, <2>2, <2>3, <2>4, NoEntryIsNoEntry
    DEF Good, MaybeEntry, ValidEntry, FlagsAgree, Seen, IsFresh, IsDirty, IsSpent, Misapplied
<1>2. CASE pe # NoEntry /\ IsFresh(pe) /\ IsSpent(ce)
  BY Zenon, <1>0, <1>2
  DEF Merged, Good, MaybeEntry, ValidEntry, FlagsAgree, Seen, IsSpent, Misapplied
<1>3. CASE pe # NoEntry /\ ~(IsFresh(pe) /\ IsSpent(ce))
  <2>1. new = [coin |-> ce.coin, flags |-> pe.flags \cup {"DIRTY"}]
    BY Zenon, <1>3 DEF Merged
  <2>2. new \in Entries
    BY <1>3, <2>1 DEF Entries, Flags, Good, MaybeEntry
  <2>3. IsFresh(new) <=> IsFresh(pe)
    BY <2>1 DEF IsFresh
  <2>4. ~Misapplied(pe, ce)
    BY Zenon, <1>0, <1>3 DEF Misapplied, Good, FlagsAgree, Seen, IsSpent
  <2>5. IsDirty(new) /\ new.coin = ce.coin /\ new # NoEntry
    BY <2>1, <2>2, NoEntryIsNoEntry DEF IsDirty
  <2>6. ValidEntry(new) /\ FlagsAgree(new, c)
    BY Zenon, <1>3, <2>3, <2>5 DEF Good, ValidEntry, FlagsAgree, IsSpent
  <2> QED
    BY Zenon, <2>2, <2>4, <2>5, <2>6 DEF Good, MaybeEntry, Seen
<1> QED BY Zenon, <1>1, <1>2, <1>3
-----------------------------------------------------------------------------
(* The inductive invariant, and what each action does to the sets of       *)
(* unspent outputs that CoinsTip() and the view show.                      *)

Inv ==
    /\ TypeOK
    /\ \A p \in Outpoints : Good(tip[p], db[p]) /\ Good(view[p], TipCoin(p))
    /\ threw = FALSE

TipSet  == [p \in Outpoints |-> TipCoin(p)]
ViewSet == [p \in Outpoints |-> ViewCoin(p)]

\* What a cache shows is a coin or no coin.
LEMMA SeenType ==
    ASSUME NEW e \in MaybeEntry, NEW c \in CoinValues
    PROVE  Seen(e, c) \in CoinValues
BY Zenon, NoEntryIsNoEntry DEF MaybeEntry, Entries, CoinValues, Seen

\* The level CoinsTip(), read through to the database, holds coins.
LEMMA TipSetType == Inv => TipSet \in [Outpoints -> CoinValues]
<1> SUFFICES ASSUME Inv, NEW p \in Outpoints PROVE TipCoin(p) \in CoinValues
  BY Zenon DEF TipSet
<1>1. tip[p] \in MaybeEntry /\ db[p] \in CoinValues
  BY Zenon DEF Inv, TypeOK, Good, CoinValues
<1> QED BY Zenon, <1>1, SeenType DEF TipCoin

\* Nothing but the shown sets matters to the base of the view.
LEMMA ViewGoodIfTipSetSame ==
    ASSUME Inv, TipSet' = TipSet, view' = view
    PROVE  /\ \A p \in Outpoints : TipCoin(p)' = TipCoin(p)
           /\ \A p \in Outpoints : Good(view'[p], TipCoin(p)')
           /\ ViewSet' = ViewSet
<1>1. \A p \in Outpoints : TipCoin(p)' = TipCoin(p)
  <2> TAKE p \in Outpoints
  <2>1. TipSet'[p] = TipCoin(p)' /\ TipSet[p] = TipCoin(p)
    BY Zenon DEF TipSet
  <2> QED BY Zenon, <2>1
<1>2. \A p \in Outpoints : ViewCoin(p)' = ViewCoin(p)
  BY Zenon, <1>1 DEF ViewCoin
<1> QED BY Zenon, <1>1, <1>2 DEF Inv, ViewSet

\* TipGetCoin keeps the invariant.
LEMMA TipGetCoinStep ==
    ASSUME Inv, NEW o \in Outpoints, TipGetCoin(o)
    PROVE  Inv' /\ TipSet' = TipSet /\ ViewSet' = ViewSet
<1>1. /\ tip' \in Caches
      /\ \A p \in Outpoints : Good(tip'[p], db[p]) /\ Seen(tip'[p], db[p]) = Seen(tip[p], db[p])
  BY FetchedGood DEF Inv, TypeOK, CoinValues, TipGetCoin
<1>2. db' = db /\ view' = view
  BY Zenon DEF TipGetCoin, dbVars, viewVars
<1>3. TipSet' = TipSet
  BY Zenon, <1>1, <1>2 DEF TipSet, TipCoin
<1>4. TypeOK'
  BY Zenon, <1>1 DEF TipGetCoin, Inv, TypeOK, dbVars, viewVars
<1>5. threw' = FALSE
  BY Zenon DEF TipGetCoin, Inv
<1> QED BY Zenon, <1>1, <1>2, <1>3, <1>4, <1>5, ViewGoodIfTipSetSame DEF Inv

\* A lookup of the view leaves what CoinsTip() shows as it is, whether or not it
\* fills CoinsTip().
LEMMA ViewFetchKeepsTip ==
    ASSUME Inv, NEW o \in Outpoints, tip' = TipAfterViewFetch(o), db' = db
    PROVE  /\ tip' \in Caches
           /\ \A p \in Outpoints : Good(tip'[p], db'[p]) /\ TipCoin(p)' = TipCoin(p)
           /\ TipSet' = TipSet
<1>1. \/ tip' = tip
      \/ tip' = Fetched(tip, o, db[o])
  BY Zenon DEF TipAfterViewFetch
<1>2. /\ tip' \in Caches
      /\ \A p \in Outpoints : Good(tip'[p], db[p]) /\ Seen(tip'[p], db[p]) = Seen(tip[p], db[p])
  <2>1. CASE tip' = tip
    BY Zenon, <2>1 DEF Inv, TypeOK
  <2>2. CASE tip' = Fetched(tip, o, db[o])
    BY <2>2, FetchedGood DEF Inv, TypeOK, CoinValues
  <2> QED BY Zenon, <1>1, <2>1, <2>2
<1>3. \A p \in Outpoints : TipCoin(p)' = TipCoin(p)
  BY Zenon, <1>2 DEF TipCoin
<1> QED BY Zenon, <1>2, <1>3 DEF TipSet

\* The entry a lookup of the view finds.
LEMMA ViewFetched ==
    ASSUME Inv, NEW o \in Outpoints
    PROVE  LET new == Fetched(view, o, TipCoin(o))
           IN /\ new \in Caches
              /\ \A p \in Outpoints :
                    /\ Good(new[p], TipCoin(p))
                    /\ Seen(new[p], TipCoin(p)) = ViewCoin(p)
                    /\ p # o => new[p] = view[p]
              /\ new[o] = NoEntry => TipCoin(o) = NoCoin
<1>1. TipSet \in [Outpoints -> CoinValues] /\ \A p \in Outpoints : TipSet[p] = TipCoin(p)
  BY Zenon, TipSetType DEF TipSet
<1>2. view \in Caches /\ \A p \in Outpoints : Good(view[p], TipSet[p])
  BY Zenon, <1>1 DEF Inv, TypeOK
<1> HIDE DEF TipSet
<1> QED BY <1>1, <1>2, FetchedGood DEF ViewCoin

\* ViewGetCoin keeps the invariant.
LEMMA ViewGetCoinStep ==
    ASSUME Inv, NEW o \in Outpoints, ViewGetCoin(o)
    PROVE  Inv' /\ TipSet' = TipSet /\ ViewSet' = ViewSet
<1>1. db' = db /\ tip' = TipAfterViewFetch(o) /\ view' = Fetched(view, o, TipCoin(o))
  BY Zenon DEF ViewGetCoin, dbVars
<1>2. /\ tip' \in Caches /\ TipSet' = TipSet
      /\ \A p \in Outpoints : Good(tip'[p], db'[p]) /\ TipCoin(p)' = TipCoin(p)
  BY Zenon, <1>1, ViewFetchKeepsTip
<1>3. /\ view' \in Caches
      /\ \A p \in Outpoints : Good(view'[p], TipCoin(p)) /\ Seen(view'[p], TipCoin(p)) = ViewCoin(p)
  BY Zenon, <1>1, ViewFetched
<1>4. ViewSet' = ViewSet
  BY Zenon, <1>2, <1>3 DEF ViewSet, ViewCoin
<1>5. TypeOK' /\ threw' = FALSE
  BY Zenon, <1>2, <1>3 DEF ViewGetCoin, Inv, TypeOK, dbVars
<1> QED BY Zenon, <1>2, <1>3, <1>4, <1>5 DEF Inv

\* SpendCoin keeps the invariant.
LEMMA SpendCoinStep ==
    ASSUME Inv, NEW o \in Outpoints, SpendCoin(o)
    PROVE  Inv' /\ TipSet' = TipSet /\ ViewSet' = [ViewSet EXCEPT ![o] = NoCoin]
<1> DEFINE e == Fetched(view, o, TipCoin(o))[o]
<1>1. db' = db /\ tip' = TipAfterViewFetch(o)
  BY Zenon DEF SpendCoin, dbVars
<1>2. /\ tip' \in Caches /\ TipSet' = TipSet
      /\ \A p \in Outpoints : Good(tip'[p], db'[p]) /\ TipCoin(p)' = TipCoin(p)
  BY Zenon, <1>1, ViewFetchKeepsTip
<1>3. /\ Good(e, TipCoin(o)) /\ Seen(e, TipCoin(o)) = ViewCoin(o)
      /\ e = NoEntry => TipCoin(o) = NoCoin
  BY Zenon, ViewFetched
<1>4. view' = IF e = NoEntry THEN view ELSE [view EXCEPT ![o] = SpentEntry(e)]
  BY Zenon DEF SpendCoin
<1>5. TipCoin(o) \in CoinValues
  BY Zenon, TipSetType DEF TipSet
<1> HIDE DEF e
<1>6. view' \in Caches /\ Good(view'[o], TipCoin(o)) /\ Seen(view'[o], TipCoin(o)) = NoCoin
  <2>1. CASE e = NoEntry
    BY Zenon, <1>3, <1>4, <2>1 DEF Inv, TypeOK, Seen, ViewCoin
  <2>2. CASE e # NoEntry
    <3>1. e \in Entries
      BY Zenon, <1>3, <2>2 DEF Good, MaybeEntry
    <3>2. Good(SpentEntry(e), TipCoin(o)) /\ Seen(SpentEntry(e), TipCoin(o)) = NoCoin
      BY Zenon, <1>3, <1>5, <3>1, SpentGood
    <3>3. view' = [view EXCEPT ![o] = SpentEntry(e)] /\ view \in Caches
      BY Zenon, <1>4, <2>2 DEF Inv, TypeOK
    <3>4. SpentEntry(e) \in Entries \cup {NoEntry}
      BY Zenon, <3>2 DEF Good, MaybeEntry
    <3> QED BY Zenon, <3>2, <3>3, <3>4 DEF Caches
  <2> QED BY Zenon, <2>1, <2>2
<1>7. \A p \in Outpoints : p # o => view'[p] = view[p]
  BY Zenon, <1>4 DEF Inv, TypeOK, Caches
<1>8. \A p \in Outpoints : Good(view'[p], TipCoin(p)')
  BY Zenon, <1>2, <1>6, <1>7 DEF Inv
<1>9. ViewSet' = [ViewSet EXCEPT ![o] = NoCoin]
  BY Zenon, <1>2, <1>6, <1>7 DEF ViewSet, ViewCoin
<1>10. TypeOK' /\ threw' = FALSE
  BY Zenon, <1>2, <1>6 DEF SpendCoin, Inv, TypeOK, dbVars
<1> QED BY Zenon, <1>2, <1>8, <1>9, <1>10 DEF Inv

\* AddCoin keeps the invariant.
LEMMA AddCoinStep ==
    ASSUME Inv, NEW o \in Outpoints, NEW c \in Coins \cup Unspendable, NEW ow \in BOOLEAN,
           AddCoin(o, c, ow)
    PROVE  /\ Inv' /\ TipSet' = TipSet
           /\ \/ ViewSet' = ViewSet
              \/ c \in Coins /\ ViewSet' = [ViewSet EXCEPT ![o] = c]
<1>0. db' = db /\ tip' = tip /\ tipHash' = tipHash /\ viewHash' = viewHash
      /\ dbBest' = dbBest /\ overlay' = overlay
  BY Zenon DEF AddCoin, dbVars, tipVars
<1>1. TipSet' = TipSet /\ \A p \in Outpoints : TipCoin(p)' = TipCoin(p)
  BY Zenon, <1>0 DEF TipSet, TipCoin
<1>2. CASE c \in Unspendable
  <2>1. view' = view /\ threw' = threw
    BY Zenon, <1>2 DEF AddCoin, Ignored
  <2> QED BY Zenon, <1>0, <1>1, <2>1, ViewGoodIfTipSetSame DEF Inv, TypeOK
<1>3. CASE c \notin Unspendable
  <2>1. ~(~ow /\ view[o] # NoEntry /\ ~IsSpent(view[o]))
    BY Zenon DEF AddCoin, ViewCoin, Seen, IsSpent
  <2>2. view' = [view EXCEPT ![o] = Added(view[o], c, ow)] /\ threw' = threw
    BY Zenon, <1>3, <2>1 DEF AddCoin, Ignored
  <2>3. c \in Coins /\ TipCoin(o) \in CoinValues
    BY Zenon, <1>3, TipSetType DEF TipSet
  <2>4. ow \/ Seen(view[o], TipCoin(o)) = NoCoin
    BY Zenon DEF AddCoin, ViewCoin
  <2>5. /\ Good(Added(view[o], c, ow), TipCoin(o))
        /\ Seen(Added(view[o], c, ow), TipCoin(o)) = c
    BY Zenon, <2>3, <2>4, AddedGood DEF Inv
  <2>6. view' \in Caches /\ view'[o] = Added(view[o], c, ow)
        /\ \A p \in Outpoints : p # o => view'[p] = view[p]
    BY Zenon, <2>2, <2>5 DEF Inv, TypeOK, Caches, Good, MaybeEntry
  <2>7. \A p \in Outpoints : Good(view'[p], TipCoin(p)')
    BY Zenon, <1>1, <2>5, <2>6 DEF Inv
  <2>8. ViewSet' = [ViewSet EXCEPT ![o] = c]
    BY Zenon, <1>1, <2>5, <2>6 DEF ViewSet, ViewCoin
  <2> QED BY Zenon, <1>0, <1>1, <2>2, <2>3, <2>6, <2>7, <2>8 DEF Inv, TypeOK
<1> QED BY Zenon, <1>2, <1>3

\* What Flush or Sync leaves of a cache whose content the base has taken over.
LEMMA KeptGood ==
    ASSUME NEW cache \in Caches, NEW base \in [Outpoints -> CoinValues],
           \A p \in Outpoints : Good(cache[p], base[p]), NEW erase \in BOOLEAN
    PROVE  /\ Kept(cache, erase) \in Caches
           /\ \A p \in Outpoints :
                 LET seen == Seen(cache[p], base[p])
                 IN Good(Kept(cache, erase)[p], seen) /\ Seen(Kept(cache, erase)[p], seen) = seen
<1>1. CASE erase
  <2>1. Kept(cache, erase) = EmptyCache
    BY Zenon, <1>1 DEF Kept
  <2> QED
    BY Zenon, <2>1 DEF EmptyCache, Caches, Good, MaybeEntry, ValidEntry, FlagsAgree, Seen
<1>2. CASE ~erase
  <2>1. Kept(cache, erase) = [p \in Outpoints |-> Synced(cache[p])]
    BY Zenon, <1>2 DEF Kept
  <2>2. \A p \in Outpoints :
           /\ Good(Synced(cache[p]), Seen(cache[p], base[p]))
           /\ Seen(Synced(cache[p]), Seen(cache[p], base[p])) = Seen(cache[p], base[p])
    BY Zenon, SyncedGood
  <2>3. \A p \in Outpoints : Synced(cache[p]) \in Entries \cup {NoEntry}
    BY Zenon, <2>2 DEF Good, MaybeEntry
  <2> QED BY Zenon, <2>1, <2>2, <2>3 DEF Caches
<1> QED BY Zenon, <1>1, <1>2

\* ViewFlush keeps the invariant.
LEMMA ViewFlushStep ==
    ASSUME Inv, NEW erase \in BOOLEAN, ViewFlush(erase)
    PROVE  /\ Inv' /\ TipSet' = ViewSet /\ ViewSet' = ViewSet
           /\ tipHash' = viewHash /\ viewHash' = viewHash /\ viewHash # Null
<1> DEFINE dirty == DirtyIn(view)
<1>1. \A p \in Outpoints : TipCoin(p) \in CoinValues
  BY Zenon, TipSetType DEF TipSet
<1>2. ASSUME NEW p \in dirty
      PROVE  /\ p \in Outpoints
             /\ Good(Merged(tip[p], view[p]), db[p])
             /\ Seen(Merged(tip[p], view[p]), db[p]) = view[p].coin
             /\ view[p].coin = ViewCoin(p)
             /\ ~Misapplied(tip[p], view[p])
  <2>1. p \in Outpoints /\ view[p] # NoEntry /\ IsDirty(view[p])
    BY Zenon DEF DirtyIn
  <2>2. Good(tip[p], db[p]) /\ Good(view[p], Seen(tip[p], db[p])) /\ db[p] \in CoinValues
    BY Zenon, <2>1 DEF Inv, TypeOK, TipCoin, CoinValues
  <2>3. view[p] \in Entries
    BY Zenon, <2>1, <2>2 DEF Good, MaybeEntry
  <2> QED BY Zenon, <2>1, <2>2, <2>3, MergedGood DEF ViewCoin, Seen
<1>3. /\ tip' = [p \in Outpoints |-> IF p \in dirty THEN Merged(tip[p], view[p]) ELSE tip[p]]
      /\ tipHash' = viewHash /\ view' = Kept(view, erase) /\ threw' = threw
  BY Zenon, <1>2 DEF ViewFlush
<1>4. db' = db /\ dbBest' = dbBest /\ viewHash' = viewHash /\ overlay' = overlay /\ viewHash # Null
  BY Zenon DEF ViewFlush, dbVars
<1>5. \A p \in Outpoints : p \notin dirty => ViewCoin(p) = TipCoin(p)
  BY Zenon DEF DirtyIn, Inv, Good, FlagsAgree, ViewCoin, Seen
<1> HIDE DEF dirty
<1>6. \A p \in Outpoints : Good(tip'[p], db[p]) /\ Seen(tip'[p], db[p]) = ViewCoin(p)
  <2> TAKE p \in Outpoints
  <2>1. CASE p \in dirty
    BY Zenon, <1>2, <1>3, <2>1
  <2>2. CASE p \notin dirty
    BY Zenon, <1>3, <1>5, <2>2 DEF Inv, TipCoin
  <2> QED BY Zenon, <2>1, <2>2
<1>7. tip' \in Caches
  BY Zenon, <1>3, <1>6 DEF Caches, Good, MaybeEntry
<1>8. \A p \in Outpoints : TipCoin(p)' = ViewCoin(p)
  BY Zenon, <1>4, <1>6 DEF TipCoin
<1>9. TipSet' = ViewSet
  BY Zenon, <1>8 DEF TipSet, ViewSet
<1>10. /\ view' \in Caches
       /\ \A p \in Outpoints : Good(view'[p], ViewCoin(p)) /\ Seen(view'[p], ViewCoin(p)) = ViewCoin(p)
  <2>1. TipSet \in [Outpoints -> CoinValues] /\ \A p \in Outpoints : TipSet[p] = TipCoin(p)
    BY Zenon, TipSetType DEF TipSet
  <2>2. view \in Caches /\ \A p \in Outpoints : Good(view[p], TipSet[p])
    BY Zenon, <2>1 DEF Inv, TypeOK
  <2> HIDE DEF TipSet
  <2> QED BY <1>3, <2>1, <2>2, KeptGood DEF ViewCoin
<1>11. ViewSet' = ViewSet
  BY Zenon, <1>8, <1>10 DEF ViewSet, ViewCoin
<1>12. TypeOK' /\ threw' = FALSE
  BY Zenon, <1>3, <1>4, <1>7, <1>10 DEF Inv, TypeOK
<1> QED BY Zenon, <1>3, <1>4, <1>6, <1>8, <1>9, <1>10, <1>11, <1>12 DEF Inv

\* TipFlush keeps the invariant.
LEMMA TipFlushStep ==
    ASSUME Inv, NEW erase \in BOOLEAN, TipFlush(erase)
    PROVE  /\ Inv' /\ db' = TipSet /\ TipSet' = TipSet /\ ViewSet' = ViewSet
           /\ dbBest' = TipBest /\ TipBest' = TipBest /\ ViewBest' = ViewBest
<1>1. /\ TipBest # Null /\ dbBest' = TipBest /\ tipHash' = TipBest
      /\ view' = view /\ viewHash' = viewHash /\ overlay' = overlay /\ threw' = threw
      /\ tip' = Kept(tip, erase)
  BY Zenon DEF TipFlush, viewVars
<1>2. db' = TipSet
  <2>1. \A p \in Outpoints : Written(tip[p], db[p]) = TipCoin(p)
    BY Zenon, WrittenIsSeen DEF Inv, TipCoin
  <2> QED BY Zenon, <2>1 DEF TipFlush, TipSet
<1>3. db' \in [Outpoints -> Coins \cup {NoCoin}]
  BY Zenon, <1>2, TipSetType DEF CoinValues
<1>4. /\ tip' \in Caches
      /\ \A p \in Outpoints : Good(tip'[p], TipCoin(p)) /\ Seen(tip'[p], TipCoin(p)) = TipCoin(p)
  BY <1>1, KeptGood DEF Inv, TypeOK, CoinValues, TipCoin
<1>5. \A p \in Outpoints : db'[p] = TipCoin(p)
  BY Zenon, <1>2 DEF TipSet
<1>6. TipSet' = TipSet
  BY Zenon, <1>4, <1>5 DEF TipSet, TipCoin
<1>7. TypeOK' /\ threw' = FALSE
  BY Zenon, <1>1, <1>3, <1>4 DEF Inv, TypeOK, TipBest
<1>8. TipBest' = TipBest /\ ViewBest' = ViewBest
  BY Zenon, <1>1 DEF TipBest, ViewBest
<1> QED BY Zenon, <1>1, <1>2, <1>4, <1>5, <1>6, <1>7, <1>8, ViewGoodIfTipSetSame DEF Inv

\* Uncache keeps the invariant.
LEMMA UncacheStep ==
    ASSUME Inv, NEW o \in Outpoints, Uncache(o)
    PROVE  Inv' /\ TipSet' = TipSet /\ ViewSet' = ViewSet
<1>1. /\ tip' = [tip EXCEPT ![o] = NoEntry] /\ db' = db /\ view' = view
      /\ tip[o] # NoEntry /\ ~IsDirty(tip[o])
  BY Zenon DEF Uncache, Uncachable, dbVars, viewVars
<1>2. tip' \in Caches /\ tip'[o] = NoEntry /\ \A p \in Outpoints : p # o => tip'[p] = tip[p]
  BY Zenon, <1>1 DEF Inv, TypeOK, Caches
<1>3. Good(NoEntry, db[o]) /\ Seen(NoEntry, db[o]) = Seen(tip[o], db[o])
  BY Zenon, <1>1 DEF Inv, Good, MaybeEntry, ValidEntry, FlagsAgree, Seen
<1>4. \A p \in Outpoints : Good(tip'[p], db[p]) /\ Seen(tip'[p], db[p]) = Seen(tip[p], db[p])
  BY Zenon, <1>2, <1>3 DEF Inv
<1>5. TipSet' = TipSet
  BY Zenon, <1>1, <1>4 DEF TipSet, TipCoin
<1>6. TypeOK' /\ threw' = FALSE
  BY Zenon, <1>1, <1>2 DEF Uncache, Inv, TypeOK, dbVars, viewVars
<1> QED BY Zenon, <1>1, <1>4, <1>5, <1>6, ViewGoodIfTipSetSame DEF Inv

\* EmplaceCoin keeps the invariant.
LEMMA EmplaceCoinStep ==
    ASSUME Inv, NEW o \in Outpoints, NEW c \in Coins, EmplaceCoin(o, c)
    PROVE  /\ Inv' /\ ViewSet = TipSet /\ ViewBest = TipBest
           /\ TipSet' = [TipSet EXCEPT ![o] = c] /\ ViewSet' = TipSet'
<1> DEFINE e == [coin |-> c, flags |-> {"DIRTY"}]
<1>1. /\ tip' = [tip EXCEPT ![o] = e] /\ db' = db /\ view' = view
      /\ view = EmptyCache /\ viewHash = Null
  BY Zenon DEF EmplaceCoin, dbVars, viewVars
<1>2. Good(e, db[o]) /\ Seen(e, db[o]) = c /\ e \in Entries
  <2>1. e \in Entries /\ e # NoEntry
    BY NoEntryIsNoEntry DEF Entries, Flags
  <2>2. e.coin # NoCoin
    BY Zenon, CoinsCacheAssumption
  <2> QED BY Zenon, <2>1, <2>2 DEF Good, MaybeEntry, ValidEntry, FlagsAgree, Seen, IsDirty, IsFresh, IsSpent
<1> HIDE DEF e
<1>3. tip' \in Caches /\ tip'[o] = e /\ \A p \in Outpoints : p # o => tip'[p] = tip[p]
  BY Zenon, <1>1, <1>2 DEF Inv, TypeOK, Caches
<1>4. \A p \in Outpoints : Good(tip'[p], db[p])
  BY Zenon, <1>2, <1>3 DEF Inv
<1>5. TipSet' = [TipSet EXCEPT ![o] = c]
  <2>1. \A p \in Outpoints : TipCoin(p)' = IF p = o THEN c ELSE TipCoin(p)
    BY <1>1, <1>2, <1>3 DEF TipCoin
  <2> QED BY Zenon, <2>1 DEF TipSet
<1>6. \A p \in Outpoints : view'[p] = NoEntry /\ view[p] = NoEntry
  BY Zenon, <1>1 DEF EmptyCache
<1>7. ViewSet = TipSet /\ ViewSet' = TipSet'
  BY Zenon, <1>6 DEF ViewSet, TipSet, ViewCoin, Seen
<1>8. \A p \in Outpoints : Good(view'[p], TipCoin(p)')
  BY Zenon, <1>6 DEF Good, MaybeEntry, ValidEntry, FlagsAgree
<1>9. TypeOK' /\ threw' = FALSE
  BY Zenon, <1>3 DEF EmplaceCoin, Inv, TypeOK, dbVars, viewVars
<1>10. ViewBest = TipBest
  BY Zenon, <1>1 DEF ViewBest
<1> QED BY Zenon, <1>1, <1>4, <1>5, <1>7, <1>8, <1>9, <1>10 DEF Inv

\* A new cache has no entries.
LEMMA EmptyCacheType == EmptyCache \in Caches
BY Zenon DEF EmptyCache, Caches

\* DiscardView keeps the invariant.
LEMMA DiscardViewStep ==
    ASSUME Inv, DiscardView
    PROVE  /\ Inv' /\ TipSet' = TipSet /\ ViewSet' = TipSet
           /\ TipBest' = TipBest /\ ViewBest' = TipBest
<1>1. /\ view' = EmptyCache /\ viewHash' = Null /\ db' = db /\ tip' = tip
      /\ dbBest' = dbBest /\ tipHash' = tipHash /\ threw' = threw /\ overlay' \in BOOLEAN
  BY Zenon DEF DiscardView, dbVars, tipVars
<1>2. TipSet' = TipSet /\ TipBest' = TipBest /\ ViewBest' = TipBest
  BY Zenon, <1>1 DEF TipSet, TipCoin, TipBest, ViewBest
<1>3. ViewSet' = TipSet' /\ \A p \in Outpoints : Good(view'[p], TipCoin(p)')
  BY Zenon, <1>1 DEF EmptyCache, ViewSet, TipSet, ViewCoin, Seen, Good, MaybeEntry, ValidEntry, FlagsAgree
<1>4. \A p \in Outpoints : Good(tip'[p], db'[p])
  BY Zenon, <1>1 DEF Inv
<1> QED BY Zenon, <1>1, <1>2, <1>3, <1>4, EmptyCacheType DEF Inv, TypeOK

\* Restart keeps the invariant.
LEMMA RestartStep ==
    ASSUME Inv, Restart
    PROVE  /\ Inv' /\ TipSet' = db /\ ViewSet' = db /\ db' = db
           /\ dbBest' = dbBest /\ TipBest' = dbBest /\ ViewBest' = dbBest
<1>1. /\ view' = EmptyCache /\ viewHash' = Null /\ tip' = EmptyCache /\ tipHash' = Null
      /\ db' = db /\ dbBest' = dbBest /\ threw' = threw /\ overlay' \in BOOLEAN
  BY Zenon DEF Restart, dbVars
<1>2. ViewSet' = TipSet' /\ \A p \in Outpoints : Good(view'[p], TipCoin(p)')
  BY Zenon, <1>1 DEF EmptyCache, ViewSet, TipSet, ViewCoin, Seen, Good, MaybeEntry, ValidEntry, FlagsAgree
<1>3. db' \in [Outpoints -> CoinValues]
  BY Zenon, <1>1 DEF Inv, TypeOK, CoinValues
<1>4. TipSet' = db' /\ \A p \in Outpoints : Good(tip'[p], db'[p])
  BY Zenon, <1>1, <1>3 DEF EmptyCache, TipSet, TipCoin, Seen, Good, MaybeEntry, ValidEntry, FlagsAgree
<1>5. TipBest' = dbBest /\ ViewBest' = dbBest
  BY Zenon, <1>1 DEF TipBest, ViewBest
<1> QED BY Zenon, <1>1, <1>2, <1>4, <1>5, EmptyCacheType DEF Inv, TypeOK

\* The steps that change no coin.
LEMMA SetBestBlockStep ==
    ASSUME Inv, NEW b \in Blocks, SetBestBlock(b)
    PROVE  /\ Inv' /\ TipSet' = TipSet /\ ViewSet' = ViewSet
           /\ TipBest' = TipBest /\ ViewBest' = b
<1>1. /\ db' = db /\ dbBest' = dbBest /\ tip' = tip /\ tipHash' = tipHash /\ view' = view
      /\ viewHash' = b /\ overlay' = overlay /\ threw' = threw
  BY Zenon DEF SetBestBlock, dbVars, tipVars
<1>2. TipSet' = TipSet /\ TipBest' = TipBest
  BY Zenon, <1>1 DEF TipSet, TipCoin, TipBest
<1>3. ViewBest' = b
  BY Zenon, <1>1, CoinsCacheAssumption DEF ViewBest
<1> QED BY Zenon, <1>1, <1>2, <1>3, ViewGoodIfTipSetSame DEF Inv, TypeOK

\* ViewGetBestBlock keeps the invariant.
LEMMA ViewGetBestBlockStep ==
    ASSUME Inv, ViewGetBestBlock
    PROVE  /\ Inv' /\ TipSet' = TipSet /\ ViewSet' = ViewSet
           /\ TipBest' = TipBest /\ ViewBest' = ViewBest
<1>1. /\ db' = db /\ dbBest' = dbBest /\ tip' = tip /\ view' = view
      /\ overlay' = overlay /\ threw' = threw /\ viewHash' = ViewBest
      /\ tipHash' = IF viewHash = Null THEN TipBest ELSE tipHash
  BY Zenon DEF ViewGetBestBlock, dbVars
<1>2. TipSet' = TipSet /\ TipBest' = TipBest
  BY Zenon, <1>1 DEF TipSet, TipCoin, TipBest
<1>3. ViewBest' = ViewBest
  BY Zenon, <1>1, <1>2 DEF ViewBest, TipBest
<1>4. viewHash' \in Blocks \cup {Null} /\ tipHash' \in Blocks \cup {Null}
  BY Zenon, <1>1 DEF Inv, TypeOK, ViewBest, TipBest
<1> QED BY Zenon, <1>1, <1>2, <1>3, <1>4, ViewGoodIfTipSetSame DEF Inv, TypeOK

\* A step that changes nothing.
LEMMA StutterStep ==
    ASSUME Inv, UNCHANGED vars
    PROVE  /\ Inv' /\ TipSet' = TipSet /\ ViewSet' = ViewSet
           /\ TipBest' = TipBest /\ ViewBest' = ViewBest /\ db' = db /\ dbBest' = dbBest
<1>1. /\ db' = db /\ dbBest' = dbBest /\ tip' = tip /\ tipHash' = tipHash /\ view' = view
      /\ viewHash' = viewHash /\ overlay' = overlay /\ threw' = threw
  BY Zenon DEF vars, dbVars, tipVars, viewVars
<1>2. TipSet' = TipSet /\ TipBest' = TipBest /\ ViewBest' = ViewBest
  BY Zenon, <1>1 DEF TipSet, TipCoin, TipBest, ViewBest
<1> QED BY Zenon, <1>1, <1>2, ViewGoodIfTipSetSame DEF Inv, TypeOK
-----------------------------------------------------------------------------
(* The theorems. *)

\* Empty caches over an empty database.
LEMMA InitInv == Init => Inv
<1> SUFFICES ASSUME Init PROVE Inv
  BY Zenon
<1>1. /\ db \in [Outpoints -> Coins \cup {NoCoin}] /\ tip = EmptyCache /\ view = EmptyCache
  BY Zenon DEF Init
<1>2. \A p \in Outpoints : Good(tip[p], db[p]) /\ Good(view[p], TipCoin(p))
  BY Zenon, <1>1 DEF EmptyCache, Good, MaybeEntry, ValidEntry, FlagsAgree
<1> QED BY Zenon, <1>1, <1>2, EmptyCacheType DEF Init, Inv, TypeOK

\* Every operation keeps the invariant.
LEMMA NextInv == Inv /\ [Next]_vars => Inv'
<1> SUFFICES ASSUME Inv, [Next]_vars PROVE Inv'
  BY Zenon
<1>1. ASSUME NEW o \in Outpoints, TipGetCoin(o) PROVE Inv'
  BY Zenon, <1>1, TipGetCoinStep
<1>2. ASSUME NEW o \in Outpoints, ViewGetCoin(o) PROVE Inv'
  BY Zenon, <1>2, ViewGetCoinStep
<1>3. ASSUME NEW o \in Outpoints, SpendCoin(o) PROVE Inv'
  BY Zenon, <1>3, SpendCoinStep
<1>4. ASSUME NEW o \in Outpoints, Uncache(o) PROVE Inv'
  BY Zenon, <1>4, UncacheStep
<1>5. ASSUME NEW o \in Outpoints, NEW c \in Coins \cup Unspendable, NEW ow \in BOOLEAN,
             AddCoin(o, c, ow)
      PROVE  Inv'
  BY Zenon, <1>5, AddCoinStep
<1>6. ASSUME NEW o \in Outpoints, NEW c \in Coins, EmplaceCoin(o, c) PROVE Inv'
  BY Zenon, <1>6, EmplaceCoinStep
<1>7. ASSUME NEW b \in Blocks, SetBestBlock(b) PROVE Inv'
  BY Zenon, <1>7, SetBestBlockStep
<1>8. ASSUME NEW erase \in BOOLEAN, ViewFlush(erase) PROVE Inv'
  BY Zenon, <1>8, ViewFlushStep
<1>9. ASSUME NEW erase \in BOOLEAN, TipFlush(erase) PROVE Inv'
  BY Zenon, <1>9, TipFlushStep
<1>10. CASE ViewGetBestBlock
  BY Zenon, <1>10, ViewGetBestBlockStep
<1>11. CASE DiscardView
  BY Zenon, <1>11, DiscardViewStep
<1>12. CASE Restart
  BY Zenon, <1>12, RestartStep
<1>13. CASE UNCHANGED vars
  BY Zenon, <1>13, StutterStep
<1> QED
  BY Zenon, <1>1, <1>2, <1>3, <1>4, <1>5, <1>6, <1>7, <1>8, <1>9, <1>10, <1>11, <1>12, <1>13 DEF Next

\* The inductive invariant holds in every reachable state.
THEOREM Invariance == Spec => []Inv
BY InitInv, NextInv, PTL DEF Spec

\* Type correctness of the coin caches.
THEOREM TypeCorrect == Spec => []TypeOK
<1>1. Inv => TypeOK
  BY Zenon DEF Inv
<1> QED BY <1>1, Invariance, PTL

\* Every entry of both caches has one of the four combinations of coin and flags
\* that coins.h:103-107 lists.
THEOREM FlagsAreValid == Spec => []ValidFlags
<1>1. Inv => ValidFlags
  BY Zenon DEF Inv, ValidFlags, Good
<1> QED BY <1>1, Invariance, PTL

\* DIRTY and FRESH never lie about the level below, at either level.
THEOREM FlagsAreSound == Spec => []FlagsSound
<1>1. Inv => FlagsSound
  BY Zenon DEF Inv, FlagsSound, Good
<1> QED BY <1>1, Invariance, PTL

\* AddCoin and BatchWrite never throw std::logic_error.
THEOREM NeverThrows == Spec => []NoLogicError
<1>1. Inv => NoLogicError
  BY Zenon DEF Inv, NoLogicError
<1> QED BY <1>1, Invariance, PTL
-----------------------------------------------------------------------------
(* The caches implement UtxoStore. *)

\* Steps that no user of the caches can see.
LEMMA Unseen ==
    ASSUME TipSet' = TipSet, ViewSet' = ViewSet, TipBest' = TipBest, ViewBest' = ViewBest,
           db' = db, dbBest' = dbBest
    PROVE  UNCHANGED Store!vars
BY Zenon DEF Store!vars, TipSet, ViewSet

\* Updating one coin of a record of coins and best block.
LEMMA SetCoin ==
    ASSUME NEW f, NEW b, NEW o, NEW c
    PROVE  [[coins |-> f, best |-> b] EXCEPT !.coins[o] = c]
              = [coins |-> [f EXCEPT ![o] = c], best |-> b]
OBVIOUS

\* Best blocks depend on the hashes only.
LEMMA SameBest ==
    ASSUME dbBest' = dbBest, tipHash' = tipHash, viewHash' = viewHash
    PROVE  TipBest' = TipBest /\ ViewBest' = ViewBest
BY Zenon DEF TipBest, ViewBest

\* Empty caches over an empty database are three empty sets.
LEMMA RefinementInit == Init => Store!Init
<1> SUFFICES ASSUME Init PROVE Store!Init
  BY Zenon
<1>1. /\ db = [o \in Outpoints |-> NoCoin] /\ tip = EmptyCache /\ view = EmptyCache
      /\ dbBest = Null /\ tipHash = Null /\ viewHash = Null
  BY Zenon DEF Init
<1>2. \A o \in Outpoints : TipCoin(o) = NoCoin /\ ViewCoin(o) = NoCoin
  BY Zenon, <1>1 DEF EmptyCache, TipCoin, ViewCoin, Seen
<1>3. TipBest = Null /\ ViewBest = Null
  BY Zenon, <1>1 DEF TipBest, ViewBest
<1> QED BY Zenon, <1>1, <1>2, <1>3 DEF Store!Init

\* Every operation is one of UtxoStore or is not seen.
LEMMA RefinementNext == Inv /\ [Next]_vars => [Store!Next]_(Store!vars)
<1> SUFFICES ASSUME Inv, [Next]_vars PROVE Store!Next \/ UNCHANGED Store!vars
  BY Zenon
<1>1. ASSUME NEW o \in Outpoints, TipGetCoin(o) PROVE UNCHANGED Store!vars
  <2>1. /\ db' = db /\ dbBest' = dbBest /\ TipBest' = TipBest /\ ViewBest' = ViewBest
    BY Zenon, <1>1, SameBest DEF TipGetCoin, dbVars, viewVars
  <2> QED BY Zenon, <1>1, <2>1, TipGetCoinStep, Unseen
<1>2. ASSUME NEW o \in Outpoints, ViewGetCoin(o) PROVE UNCHANGED Store!vars
  <2>1. /\ db' = db /\ dbBest' = dbBest /\ TipBest' = TipBest /\ ViewBest' = ViewBest
    BY Zenon, <1>2, SameBest DEF ViewGetCoin, dbVars
  <2> QED BY Zenon, <1>2, <2>1, ViewGetCoinStep, Unseen
<1>3. ASSUME NEW o \in Outpoints, SpendCoin(o) PROVE Store!Next
  <2>1. /\ db' = db /\ dbBest' = dbBest /\ TipBest' = TipBest /\ ViewBest' = ViewBest
    BY Zenon, <1>3, SameBest DEF SpendCoin, dbVars
  <2>2. TipSet' = TipSet /\ ViewSet' = [ViewSet EXCEPT ![o] = NoCoin]
    BY Zenon, <1>3, SpendCoinStep
  <2>3. Store!SetViewCoin(o, NoCoin)
    <3>1. [coins |-> ViewSet', best |-> ViewBest']
             = [[coins |-> ViewSet, best |-> ViewBest] EXCEPT !.coins[o] = NoCoin]
      BY <2>1, <2>2, SetCoin
    <3> QED BY Zenon, <2>1, <2>2, <3>1 DEF Store!SetViewCoin, TipSet, ViewSet
  <2> QED BY Zenon, <2>3 DEF Store!Next
<1>4. ASSUME NEW o \in Outpoints, Uncache(o) PROVE UNCHANGED Store!vars
  <2>1. /\ db' = db /\ dbBest' = dbBest /\ TipBest' = TipBest /\ ViewBest' = ViewBest
    BY Zenon, <1>4, SameBest DEF Uncache, dbVars, viewVars
  <2> QED BY Zenon, <1>4, <2>1, UncacheStep, Unseen
<1>5. ASSUME NEW o \in Outpoints, NEW c \in Coins \cup Unspendable, NEW ow \in BOOLEAN,
             AddCoin(o, c, ow)
      PROVE  Store!Next \/ UNCHANGED Store!vars
  <2>1. /\ db' = db /\ dbBest' = dbBest /\ TipBest' = TipBest /\ ViewBest' = ViewBest
    BY Zenon, <1>5, SameBest DEF AddCoin, dbVars, tipVars
  <2>2. /\ TipSet' = TipSet
        /\ \/ ViewSet' = ViewSet
           \/ c \in Coins /\ ViewSet' = [ViewSet EXCEPT ![o] = c]
    BY Zenon, <1>5, AddCoinStep
  <2>3. CASE ViewSet' = ViewSet
    BY Zenon, <2>1, <2>2, <2>3, Unseen
  <2>4. CASE c \in Coins /\ ViewSet' = [ViewSet EXCEPT ![o] = c]
    <3>1. Store!SetViewCoin(o, c)
      <4>1. [coins |-> ViewSet', best |-> ViewBest']
               = [[coins |-> ViewSet, best |-> ViewBest] EXCEPT !.coins[o] = c]
        BY <2>1, <2>4, SetCoin
      <4> QED BY Zenon, <2>1, <2>2, <4>1 DEF Store!SetViewCoin, TipSet, ViewSet
    <3> QED BY Zenon, <2>4, <3>1 DEF Store!Next
  <2> QED BY Zenon, <2>2, <2>3, <2>4
<1>6. ASSUME NEW o \in Outpoints, NEW c \in Coins, EmplaceCoin(o, c) PROVE Store!Next
  <2>1. /\ db' = db /\ dbBest' = dbBest /\ TipBest' = TipBest /\ ViewBest' = ViewBest
    BY Zenon, <1>6, SameBest DEF EmplaceCoin, dbVars, viewVars
  <2>2. /\ ViewSet = TipSet /\ ViewBest = TipBest
        /\ TipSet' = [TipSet EXCEPT ![o] = c] /\ ViewSet' = TipSet'
    BY Zenon, <1>6, EmplaceCoinStep
  <2>3. Store!LoadCoin(o, c)
    <3>1. [coins |-> TipSet', best |-> TipBest']
             = [[coins |-> TipSet, best |-> TipBest] EXCEPT !.coins[o] = c]
      BY <2>1, <2>2, SetCoin
    <3>2. [coins |-> ViewSet, best |-> ViewBest] = [coins |-> TipSet, best |-> TipBest]
      BY Zenon, <2>2
    <3>3. [coins |-> ViewSet', best |-> ViewBest'] = [coins |-> TipSet', best |-> TipBest']
      BY Zenon, <2>1, <2>2
    <3> QED BY Zenon, <2>1, <3>1, <3>2, <3>3 DEF Store!LoadCoin, TipSet, ViewSet
  <2> QED BY Zenon, <2>3 DEF Store!Next
<1>7. ASSUME NEW b \in Blocks, SetBestBlock(b) PROVE Store!Next
  <2>1. db' = db /\ dbBest' = dbBest
    BY Zenon, <1>7 DEF SetBestBlock, dbVars
  <2>2. TipSet' = TipSet /\ ViewSet' = ViewSet /\ TipBest' = TipBest /\ ViewBest' = b
    BY Zenon, <1>7, SetBestBlockStep
  <2>3. Store!SetViewBest(b)
    <3>1. [coins |-> ViewSet', best |-> ViewBest']
             = [[coins |-> ViewSet, best |-> ViewBest] EXCEPT !.best = b]
      BY <2>2
    <3> QED BY Zenon, <2>1, <2>2, <3>1 DEF Store!SetViewBest, TipSet, ViewSet
  <2> QED BY Zenon, <2>3 DEF Store!Next
<1>8. ASSUME NEW erase \in BOOLEAN, ViewFlush(erase) PROVE Store!Next
  <2>1. db' = db /\ dbBest' = dbBest
    BY Zenon, <1>8 DEF ViewFlush, dbVars
  <2>2. /\ TipSet' = ViewSet /\ ViewSet' = ViewSet
        /\ tipHash' = viewHash /\ viewHash' = viewHash /\ viewHash # Null
    BY Zenon, <1>8, ViewFlushStep
  <2>3. TipBest' = ViewBest /\ ViewBest' = ViewBest
    BY Zenon, <2>2 DEF TipBest, ViewBest
  <2>4. Store!Commit
    BY Zenon, <2>1, <2>2, <2>3 DEF Store!Commit, TipSet, ViewSet
  <2> QED BY Zenon, <2>4 DEF Store!Next
<1>9. ASSUME NEW erase \in BOOLEAN, TipFlush(erase) PROVE Store!Next
  <2>1. /\ db' = TipSet /\ TipSet' = TipSet /\ ViewSet' = ViewSet
        /\ dbBest' = TipBest /\ TipBest' = TipBest /\ ViewBest' = ViewBest
    BY Zenon, <1>9, TipFlushStep
  <2>2. Store!Persist
    BY Zenon, <2>1 DEF Store!Persist, TipSet, ViewSet
  <2> QED BY Zenon, <2>2 DEF Store!Next
<1>10. ASSUME ViewGetBestBlock PROVE UNCHANGED Store!vars
  <2>1. db' = db /\ dbBest' = dbBest
    BY Zenon, <1>10 DEF ViewGetBestBlock, dbVars
  <2> QED BY Zenon, <1>10, <2>1, ViewGetBestBlockStep, Unseen
<1>11. ASSUME DiscardView PROVE Store!Next
  <2>1. db' = db /\ dbBest' = dbBest
    BY Zenon, <1>11 DEF DiscardView, dbVars
  <2>2. TipSet' = TipSet /\ ViewSet' = TipSet /\ TipBest' = TipBest /\ ViewBest' = TipBest
    BY Zenon, <1>11, DiscardViewStep
  <2>3. Store!Discard
    BY Zenon, <2>1, <2>2 DEF Store!Discard, TipSet, ViewSet
  <2> QED BY Zenon, <2>3 DEF Store!Next
<1>12. ASSUME Restart PROVE Store!Next
  <2>1. /\ TipSet' = db /\ ViewSet' = db /\ db' = db
        /\ dbBest' = dbBest /\ TipBest' = dbBest /\ ViewBest' = dbBest
    BY Zenon, <1>12, RestartStep
  <2>2. Store!Crash
    BY Zenon, <2>1 DEF Store!Crash, TipSet, ViewSet
  <2> QED BY Zenon, <2>2 DEF Store!Next
<1>13. ASSUME UNCHANGED vars PROVE UNCHANGED Store!vars
  BY Zenon, <1>13, StutterStep, Unseen
<1> QED
  BY Zenon, <1>1, <1>2, <1>3, <1>4, <1>5, <1>6, <1>7, <1>8, <1>9, <1>10, <1>11, <1>12, <1>13 DEF Next

\* No user of the coin views can tell that they are caches: the two levels and the
\* database behave as three plain sets of unspent outputs.
THEOREM Refinement == Spec => CachesInvisible
<1>1. Spec => Store!Spec
  BY Invariance, RefinementInit, RefinementNext, PTL DEF Spec, Store!Spec
<1> QED BY Zenon, <1>1 DEF CachesInvisible
-----------------------------------------------------------------------------
(* m_dirty_count.  Nothing bounds the number of outpoints: that a cache    *)
(* has finitely many DIRTY entries is part of the invariant.               *)

DirtyInv ==
    /\ IsFiniteSet(DirtyIn(tip)) /\ IsFiniteSet(DirtyIn(view))
    /\ DirtyCountExact

\* FetchCoin adds no DIRTY entry.
LEMMA FetchedDirty ==
    ASSUME NEW cache \in Caches, NEW o \in Outpoints, NEW c
    PROVE  DirtyIn(Fetched(cache, o, c)) = DirtyIn(cache)
<1>1. CASE cache[o] = NoEntry /\ c # NoCoin
  <2>1. Fetched(cache, o, c) = [cache EXCEPT ![o] = Clean(c)]
    BY Zenon, <1>1 DEF Fetched
  <2>2. \A p \in Outpoints : Fetched(cache, o, c)[p] = IF p = o THEN Clean(c) ELSE cache[p]
    BY Zenon, <2>1 DEF Caches
  <2>3. ~IsDirty(Clean(c))
    BY Zenon DEF IsDirty, Clean
  <2> QED BY Zenon, <1>1, <2>2, <2>3 DEF DirtyIn
<1>2. CASE ~(cache[o] = NoEntry /\ c # NoCoin)
  BY Zenon, <1>2 DEF Fetched
<1> QED BY Zenon, <1>1, <1>2

\* No entry of a flushed cache is DIRTY, whether it was cleared or kept.
LEMMA KeptDirty ==
    ASSUME NEW cache \in Caches, \A p \in Outpoints : ValidEntry(cache[p]), NEW erase \in BOOLEAN
    PROVE  DirtyIn(Kept(cache, erase)) = {}
<1>1. CASE erase
  BY Zenon, <1>1 DEF Kept, EmptyCache, DirtyIn
<1>2. CASE ~erase
  <2>1. \A p \in Outpoints : Kept(cache, erase)[p] = Synced(cache[p])
    BY Zenon, <1>2 DEF Kept
  <2>2. \A p \in Outpoints : Synced(cache[p]) # NoEntry => ~IsDirty(Synced(cache[p]))
    BY Zenon DEF Synced, Clean, IsDirty
  <2> QED BY Zenon, <2>1, <2>2 DEF DirtyIn
<1> QED BY Zenon, <1>1, <1>2

INSTANCE FiniteSetTheorems

\* The count of a set that gains some elements and loses others.
LEMMA CountGainLoss ==
    ASSUME NEW S, NEW gained, NEW lost, IsFiniteSet(S), IsFiniteSet(gained),
           gained \cap S = {}, lost \subseteq S, NEW T, T = (S \ lost) \cup gained
    PROVE  /\ IsFiniteSet(T)
           /\ Cardinality(T) = Cardinality(S) + Cardinality(gained) - Cardinality(lost)
<1>1. IsFiniteSet(lost)
  BY Zenon, FS_Subset
<1>2. Cardinality(S) \in Nat /\ Cardinality(gained) \in Nat /\ Cardinality(lost) \in Nat
  BY Zenon, <1>1, FS_CardinalityType
<1>3. IsFiniteSet(S \ lost) /\ Cardinality(S \ lost) = Cardinality(S) - Cardinality(S \cap lost)
  BY Zenon, FS_Difference
<1>4. S \cap lost = lost /\ (S \ lost) \cap gained = {}
  BY Zenon
<1>5. /\ IsFiniteSet(T)
      /\ Cardinality(T) =
           Cardinality(S \ lost) + Cardinality(gained) - Cardinality((S \ lost) \cap gained)
  BY Zenon, <1>3, FS_Union
<1>6. Cardinality((S \ lost) \cap gained) = 0
  BY Zenon, <1>4, FS_EmptySet
<1>7. Cardinality(S \ lost) = Cardinality(S) - Cardinality(lost)
  BY Zenon, <1>3, <1>4
<1> QED BY <1>2, <1>5, <1>6, <1>7

\* One entry of a cache is replaced: what becomes of the number of DIRTY ones.
LEMMA OneEntryDirty ==
    ASSUME NEW cache \in Caches, IsFiniteSet(DirtyIn(cache)), NEW o \in Outpoints,
           NEW e \in MaybeEntry
    PROVE  LET new == [cache EXCEPT ![o] = e]
           IN /\ IsFiniteSet(DirtyIn(new))
              /\ Cardinality(DirtyIn(new)) =
                   Cardinality(DirtyIn(cache)) - DirtyUnit(cache[o]) + DirtyUnit(e)
<1> DEFINE new  == [cache EXCEPT ![o] = e]
           S    == DirtyIn(cache)
           gained == IF DirtyUnit(e) = 1 THEN {o} ELSE {}
<1>1. \A p \in Outpoints : new[p] = IF p = o THEN e ELSE cache[p]
  BY Zenon DEF Caches
<1>2. o \in S <=> DirtyUnit(cache[o]) = 1
  BY DEF DirtyIn, DirtyUnit
<1>3. DirtyIn(new) = (S \ {o}) \cup gained
  <2> HIDE DEF new
  <2> QED BY <1>1 DEF DirtyIn, DirtyUnit
<1>4. DirtyUnit(e) \in {0, 1} /\ DirtyUnit(cache[o]) \in {0, 1}
  BY Zenon DEF DirtyUnit
<1>5. /\ IsFiniteSet(S \ {o})
      /\ Cardinality(S \ {o}) = IF o \in S THEN Cardinality(S) - 1 ELSE Cardinality(S)
      /\ Cardinality(S) \in Nat
  BY Zenon, FS_RemoveElement, FS_CardinalityType
<1>6. /\ IsFiniteSet((S \ {o}) \cup {o})
      /\ Cardinality((S \ {o}) \cup {o}) = Cardinality(S \ {o}) + 1
  BY Zenon, <1>5, FS_AddElement
<1>7. /\ IsFiniteSet(DirtyIn(new))
      /\ Cardinality(DirtyIn(new)) = Cardinality(S) - DirtyUnit(cache[o]) + DirtyUnit(e)
  <2> HIDE DEF S, new
  <2>1. CASE DirtyUnit(e) = 1
    BY <1>2, <1>3, <1>4, <1>5, <1>6, <2>1
  <2>2. CASE DirtyUnit(e) = 0
    BY <1>2, <1>3, <1>4, <1>5, <2>2
  <2> QED BY Zenon, <1>4, <2>1, <2>2
<1> QED BY Zenon, <1>7

\* BatchWrite counts m_dirty_count of CoinsTip() up and down with its entries.
LEMMA ViewFlushDirty ==
    ASSUME Inv, DirtyInv, NEW erase \in BOOLEAN, ViewFlush(erase)
    PROVE  DirtyInv'
<1> DEFINE dirty  == DirtyIn(view)
           gained == {o \in dirty : MergeDirties(tip[o], view[o])}
           lost   == {o \in dirty : MergeErases(tip[o], view[o])}
<1>1. ASSUME NEW p \in dirty
      PROVE  ~Misapplied(tip[p], view[p]) /\ ~(IsFresh(view[p]) /\ IsSpent(view[p]))
  <2>1. p \in Outpoints /\ view[p] # NoEntry /\ IsDirty(view[p])
    BY Zenon DEF DirtyIn
  <2>2. Good(tip[p], db[p]) /\ Good(view[p], Seen(tip[p], db[p])) /\ db[p] \in CoinValues
    BY Zenon, <2>1 DEF Inv, TypeOK, TipCoin, CoinValues
  <2>3. view[p] \in Entries
    BY Zenon, <2>1, <2>2 DEF Good, MaybeEntry
  <2> QED BY Zenon, <2>1, <2>2, <2>3, MergedGood DEF Good, ValidEntry
<1>2. /\ tip' = [o \in Outpoints |-> IF o \in dirty THEN Merged(tip[o], view[o]) ELSE tip[o]]
      /\ tipDirtyCount' = tipDirtyCount + Cardinality(gained) - Cardinality(lost)
      /\ view' = Kept(view, erase)
      /\ viewDirtyCount' = viewDirtyCount - Cardinality(dirty)
  BY Zenon, <1>1 DEF ViewFlush
<1>3. IsFiniteSet(dirty) /\ Cardinality(dirty) \in Nat /\ IsFiniteSet(gained)
  <2>1. IsFiniteSet(dirty)
    BY Zenon DEF DirtyInv
  <2>2. gained \subseteq dirty
    BY Zenon
  <2> HIDE DEF dirty, gained
  <2> QED BY Zenon, <2>1, <2>2, FS_Subset, FS_CardinalityType
<1>4. /\ gained \cap DirtyIn(tip) = {} /\ lost \subseteq DirtyIn(tip)
  BY Zenon DEF DirtyIn, MergeDirties, MergeErases
<1>5. ASSUME NEW o \in Outpoints
      PROVE  o \in DirtyIn(tip') <=> o \in (DirtyIn(tip) \ lost) \cup gained
  <2>1. tip'[o] = IF o \in dirty THEN Merged(tip[o], view[o]) ELSE tip[o]
    BY Zenon, <1>2
  <2>2. o \in DirtyIn(tip') <=> tip'[o] # NoEntry /\ IsDirty(tip'[o])
    BY Zenon DEF DirtyIn
  <2>3. CASE o \notin dirty
    BY Zenon, <2>1, <2>2, <2>3 DEF DirtyIn
  <2>4. CASE o \in dirty /\ MergeErases(tip[o], view[o])
    BY Zenon, <2>1, <2>2, <2>4 DEF Merged, MergeErases, MergeDirties
  <2>5. CASE o \in dirty /\ ~MergeErases(tip[o], view[o])
    <3>1. ~(tip[o] # NoEntry /\ IsFresh(tip[o]) /\ IsSpent(view[o]))
      BY Zenon, <2>5 DEF MergeErases, Inv, Good, ValidEntry
    <3>2. ~(IsFresh(view[o]) /\ IsSpent(view[o]))
      BY Zenon, <1>1, <2>5
    <3>3. Merged(tip[o], view[o]) \in Entries /\ IsDirty(Merged(tip[o], view[o]))
      <4>1. view[o] # NoEntry /\ view[o] \in Entries
        BY Zenon, <2>5 DEF Inv, Good, MaybeEntry, DirtyIn
      <4>2. tip[o] \in MaybeEntry
        BY Zenon DEF Inv, Good
      <4> QED BY Zenon, <3>1, <3>2, <4>1, <4>2 DEF Merged, IsDirty, MaybeEntry, Entries, Flags
    <3>4. o \in DirtyIn(tip')
      BY Zenon, <2>1, <2>2, <2>5, <3>3, NoEntryIsNoEntry
    <3>5. o \in DirtyIn(tip) \/ o \in gained
      BY Zenon, <2>5, <3>1, <3>2 DEF DirtyIn, MergeDirties
    <3> QED BY Zenon, <2>5, <3>4, <3>5
  <2> QED BY Zenon, <2>3, <2>4, <2>5
<1>6. DirtyIn(tip') = (DirtyIn(tip) \ lost) \cup gained
  <2>1. DirtyIn(tip') \subseteq Outpoints /\ DirtyIn(tip) \subseteq Outpoints /\ gained \subseteq Outpoints
    BY Zenon DEF DirtyIn
  <2> HIDE DEF gained, lost
  <2> QED BY Zenon, <1>5, <2>1
<1>7. /\ IsFiniteSet(DirtyIn(tip'))
      /\ Cardinality(DirtyIn(tip')) =
           Cardinality(DirtyIn(tip)) + Cardinality(gained) - Cardinality(lost)
  <2>1. IsFiniteSet(DirtyIn(tip))
    BY Zenon DEF DirtyInv
  <2>2. IsFiniteSet(gained)
    BY Zenon, <1>3
  <2> HIDE DEF gained, lost
  <2> QED BY <1>4, <1>6, <2>1, <2>2, CountGainLoss
<1>8. DirtyIn(view') = {}
  BY Zenon, <1>2, KeptDirty DEF Inv, TypeOK, Good
<1>9. viewDirtyCount' = 0
  BY <1>2, <1>3 DEF DirtyInv, DirtyCountExact
<1> QED BY Zenon, <1>2, <1>7, <1>8, <1>9, FS_EmptySet DEF DirtyInv, DirtyCountExact

\* The operations on one outpoint.
LEMMA OutpointDirty ==
    ASSUME Inv, DirtyInv, NEW o \in Outpoints,
           \/ TipGetCoin(o) \/ ViewGetCoin(o) \/ SpendCoin(o) \/ Uncache(o)
           \/ \E c \in Coins \cup Unspendable, ow \in BOOLEAN : AddCoin(o, c, ow)
           \/ \E c \in Coins : EmplaceCoin(o, c)
    PROVE  DirtyInv'
<1>0. /\ tip \in Caches /\ view \in Caches
      /\ IsFiniteSet(DirtyIn(tip)) /\ IsFiniteSet(DirtyIn(view))
      /\ tipDirtyCount = Cardinality(DirtyIn(tip)) /\ tipDirtyCount \in Nat
      /\ viewDirtyCount = Cardinality(DirtyIn(view)) /\ viewDirtyCount \in Nat
  BY Zenon, FS_CardinalityType DEF Inv, TypeOK, DirtyInv, DirtyCountExact
<1> SUFFICES /\ IsFiniteSet(DirtyIn(tip')) /\ tipDirtyCount' = Cardinality(DirtyIn(tip'))
             /\ IsFiniteSet(DirtyIn(view')) /\ viewDirtyCount' = Cardinality(DirtyIn(view'))
  BY Zenon DEF DirtyInv, DirtyCountExact
<1>1. CASE TipGetCoin(o)
  <2>1. DirtyIn(tip') = DirtyIn(tip) /\ view' = view
    BY Zenon, <1>0, <1>1, FetchedDirty DEF TipGetCoin, viewVars
  <2> QED BY Zenon, <1>0, <1>1, <2>1 DEF TipGetCoin, viewVars
<1>2. DirtyIn(TipAfterViewFetch(o)) = DirtyIn(tip)
  BY Zenon, <1>0, FetchedDirty DEF TipAfterViewFetch
<1>3. CASE ViewGetCoin(o)
  <2>1. DirtyIn(tip') = DirtyIn(tip) /\ DirtyIn(view') = DirtyIn(view)
    BY Zenon, <1>0, <1>2, <1>3, FetchedDirty DEF ViewGetCoin
  <2> QED BY Zenon, <1>0, <1>3, <2>1 DEF ViewGetCoin
<1>4. CASE SpendCoin(o)
  <2> DEFINE e == Fetched(view, o, TipCoin(o))[o]
  <2>1. DirtyIn(tip') = DirtyIn(tip) /\ tipDirtyCount' = tipDirtyCount
    BY Zenon, <1>2, <1>4 DEF SpendCoin
  <2>2. Good(e, TipCoin(o)) /\ TipCoin(o) \in CoinValues
    BY Zenon, ViewFetched, TipSetType DEF TipSet
  <2>3. DirtyUnit(e) = DirtyUnit(view[o])
    BY Zenon, <1>0 DEF Fetched, Clean, DirtyUnit, IsDirty, Caches
  <2>4. CASE e = NoEntry
    BY Zenon, <1>0, <1>4, <2>1, <2>4 DEF SpendCoin
  <2>5. CASE e # NoEntry
    <3>1. /\ view' = [view EXCEPT ![o] = SpentEntry(e)]
          /\ viewDirtyCount' = viewDirtyCount - DirtyUnit(e) + (IF IsFresh(e) THEN 0 ELSE 1)
      BY Zenon, <1>4, <2>5 DEF SpendCoin
    <3> HIDE DEF e
    <3>2. e \in Entries
      BY Zenon, <2>2, <2>5 DEF Good, MaybeEntry
    <3>3. SpentEntry(e) \in MaybeEntry
      BY Zenon, <2>2, <3>2, SpentGood DEF Good
    <3>4. DirtyUnit(SpentEntry(e)) = IF IsFresh(e) THEN 0 ELSE 1
      <4>1. CASE IsFresh(e)
        BY Zenon, <4>1 DEF SpentEntry, DirtyUnit
      <4>2. CASE ~IsFresh(e)
        <5>1. SpentEntry(e) = [coin |-> NoCoin, flags |-> e.flags \cup {"DIRTY"}]
          BY Zenon, <4>2 DEF SpentEntry
        <5>2. SpentEntry(e) \in Entries /\ IsDirty(SpentEntry(e))
          BY <3>2, <5>1 DEF Entries, Flags, IsDirty
        <5> QED BY Zenon, <4>2, <5>2, NoEntryIsNoEntry DEF DirtyUnit
      <4> QED BY Zenon, <4>1, <4>2
    <3>5. /\ IsFiniteSet(DirtyIn(view'))
          /\ Cardinality(DirtyIn(view')) =
               Cardinality(DirtyIn(view)) - DirtyUnit(view[o]) + DirtyUnit(SpentEntry(e))
      BY Zenon, <1>0, <3>1, <3>3, OneEntryDirty
    <3> QED BY Zenon, <1>0, <2>1, <2>3, <3>1, <3>4, <3>5
  <2> QED BY Zenon, <2>4, <2>5
<1>5. CASE Uncache(o)
  <2>1. tip' = [tip EXCEPT ![o] = NoEntry] /\ ~IsDirty(tip[o])
    BY Zenon, <1>5 DEF Uncache, Uncachable
  <2>2. /\ IsFiniteSet(DirtyIn(tip'))
        /\ Cardinality(DirtyIn(tip')) =
             Cardinality(DirtyIn(tip)) - DirtyUnit(tip[o]) + DirtyUnit(NoEntry)
    BY Zenon, <1>0, <2>1, OneEntryDirty DEF MaybeEntry
  <2>3. DirtyUnit(tip[o]) = 0 /\ DirtyUnit(NoEntry) = 0
    BY Zenon, <2>1 DEF DirtyUnit
  <2>4. UNCHANGED <<tipDirtyCount, view, viewDirtyCount>>
    BY Zenon, <1>5 DEF Uncache, viewVars
  <2> QED BY <1>0, <2>2, <2>3, <2>4
<1>6. ASSUME NEW c \in Coins \cup Unspendable, NEW ow \in BOOLEAN, AddCoin(o, c, ow)
      PROVE  /\ IsFiniteSet(DirtyIn(view')) /\ viewDirtyCount' = Cardinality(DirtyIn(view'))
             /\ UNCHANGED <<tip, tipDirtyCount>>
  <2>1. UNCHANGED <<tip, tipDirtyCount>>
    BY Zenon, <1>6 DEF AddCoin, tipVars
  <2>2. CASE c \in Unspendable
    BY Zenon, <1>0, <1>6, <2>1, <2>2 DEF AddCoin, Ignored
  <2>3. CASE c \notin Unspendable
    <3>1. ~(~ow /\ view[o] # NoEntry /\ ~IsSpent(view[o]))
      BY Zenon, <1>6 DEF AddCoin, ViewCoin, Seen, IsSpent
    <3>2. /\ view' = [view EXCEPT ![o] = Added(view[o], c, ow)]
          /\ viewDirtyCount' = viewDirtyCount - DirtyUnit(view[o]) + 1
      BY Zenon, <1>6, <2>3, <3>1 DEF AddCoin, Ignored, AddedCount
    <3>3. view[o] \in MaybeEntry
      BY Zenon, <1>0 DEF Caches, MaybeEntry
    <3>4. Added(view[o], c, ow) \in Entries /\ IsDirty(Added(view[o], c, ow))
      BY Zenon, <2>3, <3>3 DEF Added, MaybeEntry, Entries, Flags, IsDirty
    <3>5. DirtyUnit(Added(view[o], c, ow)) = 1
      BY Zenon, <3>4, NoEntryIsNoEntry DEF DirtyUnit
    <3>6. /\ IsFiniteSet(DirtyIn(view'))
          /\ Cardinality(DirtyIn(view')) =
               Cardinality(DirtyIn(view)) - DirtyUnit(view[o]) + DirtyUnit(Added(view[o], c, ow))
      BY Zenon, <1>0, <3>2, <3>4, OneEntryDirty DEF MaybeEntry
    <3> QED BY Zenon, <1>0, <2>1, <3>2, <3>5, <3>6
  <2> QED BY Zenon, <2>2, <2>3
<1>7. ASSUME NEW c \in Coins, EmplaceCoin(o, c)
      PROVE  /\ IsFiniteSet(DirtyIn(tip')) /\ tipDirtyCount' = Cardinality(DirtyIn(tip'))
             /\ UNCHANGED <<view, viewDirtyCount>>
  <2> DEFINE e == [coin |-> c, flags |-> {"DIRTY"}]
  <2>1. /\ tip' = [tip EXCEPT ![o] = e] /\ tip[o] = NoEntry
        /\ tipDirtyCount' = tipDirtyCount + 1 /\ UNCHANGED <<view, viewDirtyCount>>
    BY Zenon, <1>7 DEF EmplaceCoin, viewVars
  <2>2. e \in Entries /\ IsDirty(e)
    BY Zenon DEF Entries, Flags, IsDirty
  <2> HIDE DEF e
  <2>3. DirtyUnit(e) = 1 /\ DirtyUnit(tip[o]) = 0
    BY Zenon, <2>1, <2>2, NoEntryIsNoEntry DEF DirtyUnit
  <2>4. /\ IsFiniteSet(DirtyIn(tip'))
        /\ Cardinality(DirtyIn(tip')) =
             Cardinality(DirtyIn(tip)) - DirtyUnit(tip[o]) + DirtyUnit(e)
    BY <1>0, <2>1, <2>2, OneEntryDirty DEF MaybeEntry
  <2> QED BY <1>0, <2>1, <2>3, <2>4
<1> QED BY Zenon, <1>0, <1>1, <1>3, <1>4, <1>5, <1>6, <1>7

\* Every operation keeps m_dirty_count of both caches exact.
LEMMA NextDirty == Inv /\ DirtyInv /\ [Next]_vars => DirtyInv'
<1> SUFFICES ASSUME Inv, DirtyInv, [Next]_vars PROVE DirtyInv'
  BY Zenon
<1>0. /\ Cardinality({}) = 0 /\ IsFiniteSet({}) /\ DirtyIn(EmptyCache) = {}
  BY Zenon, FS_EmptySet DEF DirtyIn, EmptyCache
<1>1. ASSUME NEW erase \in BOOLEAN, TipFlush(erase) PROVE DirtyInv'
  <2>1. /\ tip' = Kept(tip, erase) /\ tipDirtyCount' = tipDirtyCount - Cardinality(DirtyIn(tip))
        /\ UNCHANGED <<view, viewDirtyCount>>
    BY Zenon, <1>1 DEF TipFlush, viewVars
  <2>2. DirtyIn(tip') = {}
    BY Zenon, <2>1, KeptDirty DEF Inv, TypeOK, Good
  <2>3. tipDirtyCount' = 0
    BY <2>1, FS_CardinalityType DEF DirtyInv, DirtyCountExact
  <2> QED BY Zenon, <1>0, <2>1, <2>2, <2>3 DEF DirtyInv, DirtyCountExact
<1>2. ASSUME DiscardView \/ Restart PROVE DirtyInv'
  <2>1. view' = EmptyCache /\ viewDirtyCount' = 0
    BY Zenon, <1>2 DEF DiscardView, Restart
  <2>2. \/ UNCHANGED <<tip, tipDirtyCount>>
        \/ tip' = EmptyCache /\ tipDirtyCount' = 0
    BY Zenon, <1>2 DEF DiscardView, Restart, tipVars
  <2> QED BY Zenon, <1>0, <2>1, <2>2 DEF DirtyInv, DirtyCountExact
<1>3. ASSUME \/ UNCHANGED vars \/ ViewGetBestBlock \/ \E b \in Blocks : SetBestBlock(b)
      PROVE  DirtyInv'
  <2>1. UNCHANGED <<tip, tipDirtyCount, view, viewDirtyCount>>
    BY Zenon, <1>3 DEF vars, tipVars, viewVars, ViewGetBestBlock, SetBestBlock
  <2> QED BY Zenon, <2>1 DEF DirtyInv, DirtyCountExact, DirtyIn
<1> QED BY Zenon, <1>1, <1>2, <1>3, OutpointDirty, ViewFlushDirty DEF Next

\* m_dirty_count is the number of DIRTY entries of each cache, after any sequence of
\* operations (SanityCheck, coins.cpp:379).
THEOREM DirtyCountsExact == Spec => []DirtyCountExact
<1>1. Init => DirtyInv
  BY Zenon, FS_EmptySet DEF Init, DirtyInv, DirtyCountExact, DirtyIn, EmptyCache
<1>2. DirtyInv => DirtyCountExact
  BY Zenon DEF DirtyInv
<1> QED BY <1>1, <1>2, NextDirty, Invariance, PTL DEF Spec
=============================================================================
