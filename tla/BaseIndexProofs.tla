--------------------------- MODULE BaseIndexProofs ----------------------------
(***************************************************************************)
(* Proofs about BaseIndex, for any tree of blocks and any bounds: nothing  *)
(* is missed when Sync hands over to the callbacks, and until the node     *)
(* goes down with index state uncommitted every block the index has        *)
(* indexed is found.                                                       *)
(***************************************************************************)
EXTENDS BaseIndex, TLAPS

MaybeBlock == Blocks \cup {NoBlock}

EventType == [type : {"BlockConnected", "ChainStateFlushed"}, block : Blocks]
SyncType  == [pc : {"idle", "loop", "work", "commit", "periodic", "recheck"},
              pindex : MaybeBlock, next : MaybeBlock]
CallbackType == [pc : {"idle", "work"}, pindex : MaybeBlock, next : MaybeBlock]

BoundsType == [{"chain", "flush", "fault", "restart"} -> Nat]
Troubles   == {"none", "commit", "fatal"}

\* The state of the chain and of the threads has its type.
TypeOK ==
    /\ tip \in Blocks /\ flushed.tip \in Blocks
    /\ events \in Seq(EventType)
    /\ m_synced \in BOOLEAN /\ m_interrupt \in BOOLEAN
    /\ m_best_block_index \in MaybeBlock
    /\ DOMAIN db = {"height", "hash", "pos", "best"} /\ db.best \in MaybeBlock
    /\ sync \in SyncType /\ callback \in CallbackType
    /\ bounds \in BoundsType /\ trouble \in Troubles /\ lost \in BOOLEAN

\* A thread that works has a block it can get to by rewinding.
Target(t) == /\ t.next \in Blocks /\ IsAncestor(pprev(t.next), t.pindex)
             /\ pprev(t.next) = NoBlock => t.pindex = NoBlock

\* Only one of the two threads works, the callbacks do nothing before the index is
\* synced and Sync is over then.  A node that has lost nothing went down without
\* trouble.
OneThread ==
    /\ sync.pc = "work" => Target(sync)
    /\ callback.pc = "work" => Target(callback) /\ m_synced
    /\ ~Alive => events = <<>> \/ node = "assert"
    /\ node = "down" => sync.pc = "idle" /\ callback.pc = "idle"
    /\ Alive /\ m_synced => sync.pc = "idle"
    /\ sync.pc = "recheck" => m_best_block_index = sync.pindex
    /\ node = "down" /\ ~lost => trouble = "none"

\* The block the index is at, or will be when the running callback is done.
Base == IF callback.pc = "work" THEN callback.next ELSE m_best_block_index

IsConnect(e) == e.type = "BlockConnected"

\* From block x the events of queue q after the first k lead to the tip t: t is an
\* ancestor of x, or one of them connects to x.
Leads(t, q, x, k) ==
    \/ IsAncestor(t, x)
    \/ \E j \in DOMAIN q :
         j > k /\ IsConnect(q[j]) /\ IsAncestor(pprev(q[j].block), x)

\* The callbacks index the blocks that are connected.
Following == Alive /\ m_synced /\ trouble # "fatal"

\* Every queued block leads on, and so does the block the index is at once it is
\* synced; genesis is never connected.
Handover ==
    /\ \A i \in DOMAIN events : IsConnect(events[i]) =>
         pprev(events[i].block) # NoBlock /\ Leads(tip, events, events[i].block, i)
    /\ Following => Leads(tip, events, Base, 0)

SyncInv == TypeOK /\ OneThread /\ Handover

\* The block whose state the index is in.
Cur == IF sync.pc # "idle" THEN sync.pindex
       ELSE IF callback.pc = "work" THEN callback.pindex ELSE m_best_block_index

\* An entry that is found has the block's own header and filter.
GoodEntry(e, b) ==
    /\ e.block = b /\ e.header = Path[b]
    /\ e.pos \in Nat /\ e.pos < Len(file) /\ file[e.pos + 1] = b

AtHeight(b) == db.height[Height(b)].block = b
AtHash(b)   == db.hash[b].block = b

DbType ==
    /\ file \in Seq(Blocks)
    /\ DOMAIN db.height = Heights /\ DOMAIN db.hash = Blocks
    /\ indexed \subseteq Blocks

\* Every entry is good.  The blocks up to the one the index is at are in the height
\* index; another block in it is in the hash index as well, so that its entry may be
\* overwritten; and what has been indexed is in one of the two.
Entries ==
    /\ \A h \in Heights : db.height[h].block \in MaybeBlock
    /\ \A h \in Heights, b \in Blocks :
         db.height[h].block = b => Height(b) = h /\ GoodEntry(db.height[h], b)
    /\ \A b \in Blocks : AtHash(b) => GoodEntry(db.hash[b], b)
    /\ \A b \in Blocks : IsAncestor(b, Cur) => AtHeight(b)
    /\ \A b \in Blocks : AtHeight(b) /\ ~IsAncestor(b, Cur) => AtHash(b)
    /\ \A b \in indexed : AtHeight(b) \/ AtHash(b)

\* The state the next filter is written with.
NextFilter ==
    /\ m_last_header = PathTo(Cur) /\ m_next_filter_pos = Len(file)
    /\ Cur = NoBlock => db.best = NoBlock /\ db.pos = 0 /\ Len(file) = 0

\* What a start would find is the state of the index, unless its Commit has failed.
IsCommitted == trouble = "none" =>
    db.best = m_best_block_index /\ db.pos = m_next_filter_pos

\* The places where nothing may be left to commit: when Sync rechecks and when it was
\* interrupted, and when the node is down.  A node that is stopping has the event that
\* commits still in the queue, as its last.
Commits ==
    /\ sync.pc = "recheck" => IsCommitted
    /\ ~m_synced /\ sync.pc = "idle" => IsCommitted
    /\ node = "down" => IsCommitted
    /\ node = "stopping" /\ events # <<>> =>
         events[Len(events)] = [type |-> "ChainStateFlushed", block |-> tip]
    /\ node = "stopping" /\ events = <<>> =>
         callback.pc = "idle" /\ (m_synced => IsCommitted)

\* Nothing has been lost, and the index has not given up.
Sound == ~lost /\ trouble # "fatal"

Consistent == DbType /\ Entries /\ NextFilter /\ Commits

FoundInv == Sound /\ node \in {"up", "stopping", "down"} => Consistent

IndexInv == SyncInv /\ FoundInv
-----------------------------------------------------------------------------
(* The tree of blocks. *)

\* A number that is not 1 has one before it.
LEMMA OneBefore ==
    ASSUME NEW n \in Nat \ {0}, n # 1
    PROVE  n - 1 \in 1..n
OBVIOUS

\* A path is a sequence of blocks, and the path of a block on it is the part of it
\* up to that block.
LEMMA PathFacts ==
    ASSUME NEW b \in Blocks
    PROVE  /\ Path[b] \in Seq(Blocks) /\ Len(Path[b]) \in Nat \ {0}
           /\ DOMAIN Path[b] = 1..Len(Path[b]) /\ Path[b][Len(Path[b])] = b
           /\ \A i \in 1..Len(Path[b]) :
                /\ Path[b][i] \in Blocks /\ Len(Path[Path[b][i]]) = i
                /\ \A j \in 1..i : Path[Path[b][i]][j] = Path[b][j]
<1>1. Path[b] \in Seq(Blocks) /\ Path[b] # <<>>
  BY Zenon, TreeAssumption
<1>2. Path[b][Len(Path[b])] = b
  BY Zenon, TreeAssumption
<1>3. \A i \in DOMAIN Path[b] : Path[Path[b][i]] = SubSeq(Path[b], 1, i)
  BY Zenon, TreeAssumption
<1> DEFINE s == Path[b]
<1>4. \A i \in 1..Len(s) : /\ s[i] \in Blocks /\ Len(SubSeq(s, 1, i)) = i
                           /\ \A j \in 1..i : SubSeq(s, 1, i)[j] = s[j]
  BY <1>1
<1>5. DOMAIN s = 1..Len(s) /\ Len(s) \in Nat \ {0}
  BY <1>1
<1>6. ASSUME NEW i \in 1..Len(Path[b])
      PROVE  /\ Path[b][i] \in Blocks /\ Len(Path[Path[b][i]]) = i
             /\ \A j \in 1..i : Path[Path[b][i]][j] = Path[b][j]
  <2>1. Path[Path[b][i]] = SubSeq(Path[b], 1, i)
    BY Zenon, <1>3, <1>5
  <2> QED BY Zenon, <2>1, <1>4
<1> QED BY Zenon, <1>1, <1>2, <1>5, <1>6

\* A block is an ancestor of another if it is at its height on the other's path.
LEMMA AncestorAt ==
    ASSUME NEW b \in Blocks, NEW c \in Blocks
    PROVE  IsAncestor(b, c) <=> Len(Path[b]) <= Len(Path[c]) /\ Path[c][Len(Path[b])] = b
<1>1. /\ DOMAIN Path[c] = 1..Len(Path[c])
      /\ \A i \in 1..Len(Path[c]) : Len(Path[Path[c][i]]) = i
      /\ Len(Path[b]) \in Nat \ {0} /\ Len(Path[c]) \in Nat \ {0}
  BY Zenon, PathFacts
<1>2. b # NoBlock /\ c # NoBlock
  BY Zenon, TreeAssumption
<1>3. IsAncestor(b, c) <=> \E i \in 1..Len(Path[c]) : Path[c][i] = b
  BY Zenon, <1>1, <1>2 DEF IsAncestor, Range
<1> HIDE DEF IsAncestor
<1> QED BY <1>1, <1>3

\* The block before b.
LEMMA PprevFacts ==
    ASSUME NEW b \in Blocks
    PROVE  /\ pprev(b) \in MaybeBlock /\ Height(b) \in Nat /\ Height(b) \in Heights
           /\ Path[b] = Append(PathTo(pprev(b)), b)
           /\ pprev(b) # NoBlock => Height(b) = Height(pprev(b)) + 1
           /\ pprev(b) = NoBlock => Len(Path[b]) = 1
           /\ \A c \in Blocks : Height(c) = Height(b) <=> Len(Path[c]) = Len(Path[b])
<1>0. NoBlock \notin Blocks
  BY Zenon, TreeAssumption
<1>1. /\ Path[b] \in Seq(Blocks) /\ Len(Path[b]) \in Nat \ {0}
      /\ Path[b][Len(Path[b])] = b
      /\ \A i \in 1..Len(Path[b]) :
           /\ Path[b][i] \in Blocks /\ Len(Path[Path[b][i]]) = i
           /\ \A j \in 1..i : Path[Path[b][i]][j] = Path[b][j]
  BY Zenon, PathFacts
<1>2. Height(b) \in Nat /\ Height(b) \in Heights
  BY <1>1 DEF Height, Heights
<1>3. \A c \in Blocks : Height(c) = Height(b) <=> Len(Path[c]) = Len(Path[b])
  <2>1. \A c \in Blocks : Len(Path[c]) \in Nat
    BY Zenon, PathFacts
  <2> QED BY <1>1, <2>1 DEF Height
<1>4. CASE Len(Path[b]) = 1
  <2>1. pprev(b) = NoBlock
    BY Zenon, <1>4 DEF pprev
  <2>2. PathTo(pprev(b)) = <<>>
    BY Zenon, <2>1 DEF PathTo
  <2>3. Path[b] = Append(<<>>, b)
    BY <1>1, <1>4
  <2> QED BY Zenon, <1>2, <1>3, <1>4, <2>1, <2>2, <2>3 DEF MaybeBlock
<1>5. CASE Len(Path[b]) # 1
  <2> DEFINE p == Path[b][Len(Path[b]) - 1]
  <2>1. pprev(b) = p
    BY Zenon, <1>5 DEF pprev
  <2>2. p \in Blocks /\ Len(Path[p]) = Len(Path[b]) - 1 /\ \A j \in 1..(Len(Path[b]) - 1) : Path[p][j] = Path[b][j]
    <3> DEFINE m == Len(Path[b]) - 1
    <3>1. m \in 1..Len(Path[b])
      <4>1. Len(Path[b]) \in Nat \ {0} /\ Len(Path[b]) # 1
        BY Zenon, <1>1, <1>5
      <4> QED BY Zenon, <4>1, OneBefore
    <3> HIDE DEF m
    <3> QED BY Zenon, <1>1, <3>1 DEF m
  <2>3. Path[p] \in Seq(Blocks)
    BY Zenon, <2>2, PathFacts
  <2> HIDE DEF p
  <2>4. Path[b] = Append(Path[p], b)
    <3> DEFINE s == Path[b]
               t == Path[p]
    <3>1. /\ s \in Seq(Blocks) /\ t \in Seq(Blocks) /\ Len(s) \in Nat \ {0}
          /\ Len(t) = Len(s) - 1 /\ s[Len(s)] = b
          /\ \A j \in 1..(Len(s) - 1) : t[j] = s[j]
      BY Zenon, <1>1, <2>2, <2>3
    <3> HIDE DEF s, t
    <3>2. s = Append(t, b)
      BY <3>1
    <3> QED BY Zenon, <3>2 DEF s, t
  <2>5. Height(b) = Height(p) + 1
    BY <1>1, <2>2 DEF Height
  <2> QED BY Zenon, <1>0, <1>2, <1>3, <2>1, <2>2, <2>4, <2>5 DEF MaybeBlock, PathTo
<1> QED BY Zenon, <1>4, <1>5

\* The blocks with no block before them are genesis, the ancestor of all.
LEMMA GenesisFacts ==
    ASSUME NEW b \in Blocks, NEW c \in Blocks, pprev(b) = NoBlock
    PROVE  IsAncestor(b, c)
<1>1. Len(Path[b]) = 1 /\ Path[b][1] = b
  BY Zenon, PprevFacts, PathFacts
<1>2. Path[c][1] = Path[b][1] /\ Len(Path[c]) \in Nat \ {0}
  <2>1. Path[c][1] = Path[StartTip][1] /\ Path[b][1] = Path[StartTip][1]
    BY Zenon, TreeAssumption
  <2> QED BY Zenon, <2>1, PathFacts
<1>3. Len(Path[b]) <= Len(Path[c]) /\ Path[c][Len(Path[b])] = b
  BY <1>1, <1>2
<1> QED BY Zenon, <1>3, AncestorAt

\* Being an ancestor is reflexive and transitive.
LEMMA AncestorOrder ==
    ASSUME NEW b \in MaybeBlock, NEW c \in MaybeBlock, NEW d \in MaybeBlock
    PROVE  /\ IsAncestor(b, b) /\ IsAncestor(NoBlock, b)
           /\ IsAncestor(b, c) /\ IsAncestor(c, d) => IsAncestor(b, d)
           /\ IsAncestor(b, NoBlock) => b = NoBlock
<1>1. IsAncestor(NoBlock, b) /\ (IsAncestor(b, NoBlock) => b = NoBlock)
  BY Zenon DEF IsAncestor
<1>2. IsAncestor(b, b)
  <2>1. ASSUME b \in Blocks PROVE Len(Path[b]) <= Len(Path[b]) /\ Path[b][Len(Path[b])] = b
    <3>1. Path[b][Len(Path[b])] = b /\ Len(Path[b]) \in Nat
      BY Zenon, <2>1, PathFacts
    <3> QED BY <3>1
  <2>2. ASSUME b \in Blocks PROVE IsAncestor(b, b)
    BY Zenon, <2>1, <2>2, AncestorAt
  <2> QED BY Zenon, <1>1, <2>2 DEF MaybeBlock
<1>3. ASSUME b \in Blocks, c \in Blocks, d \in Blocks, IsAncestor(b, c), IsAncestor(c, d)
      PROVE  IsAncestor(b, d)
  <2>1. /\ Len(Path[b]) <= Len(Path[c]) /\ Path[c][Len(Path[b])] = b
        /\ Len(Path[c]) <= Len(Path[d]) /\ Path[d][Len(Path[c])] = c
    BY Zenon, <1>3, AncestorAt
  <2>2. /\ Len(Path[b]) \in Nat \ {0} /\ Len(Path[c]) \in Nat \ {0} /\ Len(Path[d]) \in Nat \ {0}
        /\ \A i \in 1..Len(Path[d]) : \A j \in 1..i : Path[Path[d][i]][j] = Path[d][j]
    BY Zenon, <1>3, PathFacts
  <2>3. Len(Path[b]) <= Len(Path[d]) /\ Path[d][Len(Path[b])] = b
    BY <2>1, <2>2
  <2> QED BY Zenon, <1>3, <2>3, AncestorAt
<1>4. ASSUME c = NoBlock, IsAncestor(b, c) PROVE b = NoBlock
  BY Zenon, <1>4 DEF IsAncestor
<1>5. ASSUME d = NoBlock, IsAncestor(c, d) PROVE c = NoBlock
  BY Zenon, <1>5 DEF IsAncestor
<1>6. IsAncestor(NoBlock, d)
  BY Zenon DEF IsAncestor
<1> QED BY Zenon, <1>1, <1>2, <1>3, <1>4, <1>5, <1>6 DEF MaybeBlock

\* The ancestors of b are b and those of the block before it.
LEMMA AncestorStep ==
    ASSUME NEW b \in Blocks, NEW c \in MaybeBlock
    PROVE  /\ IsAncestor(pprev(b), b)
           /\ IsAncestor(c, b) /\ c # b => IsAncestor(c, pprev(b))
<1>0. NoBlock \notin Blocks
  BY Zenon, TreeAssumption
<1>1. CASE pprev(b) = NoBlock
  <2>1. ASSUME c \in Blocks, IsAncestor(c, b) PROVE c = b
    <3>1. Len(Path[b]) = 1 /\ Path[b][Len(Path[b])] = b /\ Len(Path[c]) \in Nat \ {0}
      BY Zenon, <1>1, <2>1, PprevFacts, PathFacts
    <3>2. Len(Path[c]) <= Len(Path[b]) /\ Path[b][Len(Path[c])] = c
      BY Zenon, <2>1, AncestorAt
    <3> QED BY <3>1, <3>2
  <2> QED BY Zenon, <1>1, <2>1 DEF IsAncestor, MaybeBlock
<1>2. CASE pprev(b) # NoBlock
  <2>1. pprev(b) \in Blocks /\ Len(Path[b]) # 1 /\ pprev(b) = Path[b][Len(Path[b]) - 1]
    BY Zenon, <1>2, PprevFacts DEF pprev, MaybeBlock
  <2>2. /\ Len(Path[b]) \in Nat \ {0} /\ Path[b][Len(Path[b])] = b
        /\ \A i \in 1..Len(Path[b]) :
             Len(Path[Path[b][i]]) = i /\ \A j \in 1..i : Path[Path[b][i]][j] = Path[b][j]
    BY Zenon, PathFacts
  <2> DEFINE p == pprev(b)
  <2> HIDE DEF p
  <2>3. /\ p \in Blocks /\ Len(Path[p]) = Len(Path[b]) - 1 /\ Path[b][Len(Path[p])] = p
        /\ \A j \in 1..Len(Path[p]) : Path[p][j] = Path[b][j]
    <3> DEFINE m == Len(Path[b]) - 1
    <3>1. m \in 1..Len(Path[b])
      <4>1. Len(Path[b]) \in Nat \ {0} /\ Len(Path[b]) # 1
        BY Zenon, <2>1, <2>2
      <4> QED BY Zenon, <4>1, OneBefore
    <3> HIDE DEF m
    <3>2. p = Path[b][m]
      BY Zenon, <2>1 DEF m, p
    <3>3. /\ Len(Path[p]) = m
          /\ \A j \in 1..m : Path[p][j] = Path[b][j]
      BY Zenon, <2>2, <3>1, <3>2
    <3> QED BY Zenon, <2>1, <3>2, <3>3 DEF m, p
  <2>4. Len(Path[p]) <= Len(Path[b]) /\ Path[b][Len(Path[p])] = p
    BY <2>2, <2>3
  <2>5. IsAncestor(p, b)
    BY Zenon, <2>3, <2>4, AncestorAt
  <2>6. ASSUME c \in Blocks, IsAncestor(c, b), c # b PROVE IsAncestor(c, p)
    <3>1. Len(Path[c]) <= Len(Path[b]) /\ Path[b][Len(Path[c])] = c /\ Len(Path[c]) \in Nat \ {0}
      BY Zenon, <2>6, AncestorAt, PathFacts
    <3>2. Len(Path[c]) # Len(Path[b])
      BY Zenon, <2>2, <2>6, <3>1
    <3>3. Len(Path[c]) <= Len(Path[p]) /\ Len(Path[c]) \in 1..Len(Path[p])
      BY <2>2, <2>3, <3>1, <3>2
    <3>4. Path[p][Len(Path[c])] = c
      BY Zenon, <2>3, <3>1, <3>3
    <3> QED BY Zenon, <2>3, <2>6, <3>3, <3>4, AncestorAt
  <2>7. IsAncestor(NoBlock, p)
    BY Zenon DEF IsAncestor
  <2> QED BY Zenon, <2>5, <2>6, <2>7 DEF p, MaybeBlock
<1> QED BY Zenon, <1>1, <1>2

\* A block has one ancestor at each height, and none that is higher.
LEMMA AncestorHeight ==
    ASSUME NEW b \in Blocks, NEW c \in Blocks, NEW d \in Blocks,
           IsAncestor(b, d), IsAncestor(c, d), Height(b) = Height(c)
    PROVE  b = c
<1>1. Len(Path[b]) = Len(Path[c])
  BY Zenon, PprevFacts
<1> QED BY Zenon, <1>1, AncestorAt

\* A block after x is not at the height of an ancestor of x.
LEMMA HigherThan ==
    ASSUME NEW b \in Blocks, NEW c \in Blocks, IsAncestor(c, pprev(b))
    PROVE  Height(c) # Height(b)
<1>1. pprev(b) \in Blocks /\ Height(b) = Height(pprev(b)) + 1
  BY Zenon, PprevFacts, TreeAssumption DEF IsAncestor, MaybeBlock
<1>2. Len(Path[c]) <= Len(Path[pprev(b)]) /\ Len(Path[c]) \in Nat /\ Len(Path[pprev(b)]) \in Nat
  BY Zenon, <1>1, AncestorAt, PathFacts
<1> QED BY <1>1, <1>2 DEF Height

\* A set of natural numbers has a least one: the library's theorems prove it at the
\* end of the module.
LeastExists ==
    \A T \in SUBSET Nat : T # {} => \E m \in T : \A n \in T : m <= n

\* NextSyncBlock returns nullptr exactly when the tip or a descendant of it is
\* indexed, and otherwise a block to which the index can rewind.
LEMMA NextFacts ==
    ASSUME LeastExists, tip \in Blocks, NEW b \in MaybeBlock
    PROVE  /\ NextSyncBlock(b) \in MaybeBlock
           /\ NextSyncBlock(b) = NoBlock <=> IsAncestor(tip, b)
           /\ NextSyncBlock(b) # NoBlock =>
                /\ NextSyncBlock(b) \in Blocks /\ IsAncestor(pprev(NextSyncBlock(b)), b)
                /\ pprev(NextSyncBlock(b)) = NoBlock => b = NoBlock
<1>0. NoBlock \notin Blocks
  BY Zenon, TreeAssumption
<1>1. CASE IsAncestor(tip, b)
  BY Zenon, <1>1 DEF NextSyncBlock, MaybeBlock
<1>2. CASE ~IsAncestor(tip, b)
  <2> DEFINE P == Path[tip]
             T == {i \in 1..Len(P) : ~IsAncestor(P[i], b)}
  <2>1. /\ Len(P) \in Nat \ {0} /\ P[Len(P)] = tip /\ DOMAIN P = 1..Len(P)
        /\ \A i \in 1..Len(P) :
             P[i] \in Blocks /\ Len(Path[P[i]]) = i /\ \A j \in 1..i : Path[P[i]][j] = P[j]
    BY Zenon, PathFacts
  <2>2. Len(P) \in 1..Len(P) /\ 1..Len(P) \subseteq Nat
    <3>1. \A n \in Nat \ {0} : n \in 1..n /\ 1..n \subseteq Nat  OBVIOUS
    <3> QED BY Zenon, <2>1, <3>1
  <2>3. PICK m \in T : \A n \in T : m <= n
    <3>1. T \in SUBSET Nat /\ T # {}
      <4>1. Len(P) \in T
        BY Zenon, <1>2, <2>1, <2>2
      <4>2. T \subseteq Nat
        BY Zenon, <2>2
      <4> QED BY Zenon, <4>1, <4>2
    <3> HIDE DEF T
    <3> QED BY Zenon, <3>1 DEF LeastExists
  <2> DEFINE c == P[m]
  <2>4. c \in Blocks /\ Len(Path[c]) = m /\ m \in 1..Len(P) /\ ~IsAncestor(c, b)
    BY Zenon, <2>1, <2>3
  <2>5. IsAncestor(pprev(c), b)
    <3>1. CASE m = 1
      BY Zenon, <2>4, <3>1 DEF pprev, IsAncestor
    <3>2. CASE m # 1
      <4>1. pprev(c) = Path[c][m - 1]
        BY Zenon, <2>4, <3>2 DEF pprev
      <4>2. m \in Nat \ {0}
        <5>1. \A n \in Nat : 1..n \subseteq Nat \ {0}  OBVIOUS
        <5> QED BY Zenon, <2>1, <2>4, <5>1
      <4>3. m - 1 \in 1..m
        BY Zenon, <3>2, <4>2, OneBefore
      <4>4. m - 1 \in 1..Len(P)
        <5>1. \A n \in Nat : \A k \in 1..n : 1..k \subseteq 1..n  OBVIOUS
        <5> QED BY Zenon, <2>1, <2>4, <4>3, <5>1
      <4>5. pprev(c) = P[m - 1]
        BY Zenon, <2>1, <2>4, <4>1, <4>3
      <4>6. ~(m <= m - 1)
        BY <4>2
      <4> QED BY Zenon, <2>3, <4>4, <4>5, <4>6
    <3> QED BY Zenon, <3>1, <3>2
  <2>6. c \in Range(Path[tip])
    BY Zenon, <2>1, <2>4 DEF Range
  <2> DEFINE n == NextSyncBlock(b)
  <2>7. n \in Range(Path[tip]) /\ ~IsAncestor(n, b) /\ IsAncestor(pprev(n), b)
    BY Zenon, <1>2, <2>4, <2>5, <2>6 DEF NextSyncBlock
  <2>8. n \in Blocks
    <3>1. \A x \in Range(P) : x \in Blocks
      <4>1. \A i \in DOMAIN P : P[i] \in Blocks
        BY Zenon, <2>1
      <4> HIDE DEF P
      <4> QED BY Zenon, <4>1 DEF Range
    <3> HIDE DEF n
    <3> QED BY Zenon, <2>7, <3>1
  <2> HIDE DEF n
  <2>9. pprev(n) = NoBlock => b = NoBlock
    BY Zenon, <2>7, <2>8, GenesisFacts DEF MaybeBlock
  <2> QED BY Zenon, <1>0, <1>2, <2>7, <2>8, <2>9 DEF n, MaybeBlock
<1> QED BY Zenon, <1>1, <1>2
-----------------------------------------------------------------------------
(* Sync hands over to the callbacks: one lemma per action. *)

\* An event in the queue has a block.
LEMMA EventFacts ==
    ASSUME TypeOK, NEW i \in DOMAIN events
    PROVE  events[i] \in EventType /\ events[i].block \in Blocks
<1>1. events[i] \in EventType
  BY DEF TypeOK
<1> QED BY <1>1 DEF EventType

\* A step that changes neither the chain nor the queue keeps what leads on.
LEMMA HandoverSame ==
    ASSUME Handover, tip' = tip, events' = events,
           Following' => Following /\ Base' = Base
    PROVE  Handover'
BY Zenon DEF Handover

\* A new tip: a queued block still leads to it.
LEMMA ConnectTipSync ==
    ASSUME SyncInv, NEW b \in Blocks, ConnectTip(b)
    PROVE  SyncInv'
<1>0. NoBlock \notin Blocks /\ pprev(b) = tip
  BY Zenon, TreeAssumption DEF ConnectTip
<1>1. /\ node = "up" /\ tip' = b /\ flushed' = flushed /\ db' = db
      /\ events' = Append(events, [type |-> "BlockConnected", block |-> b])
      /\ UNCHANGED <<m_synced, m_interrupt, m_best_block_index, sync, callback, node, trouble, lost>>
      /\ bounds' = [bounds EXCEPT !["chain"] = @ - 1] /\ bounds["chain"] > 0
  BY Zenon DEF ConnectTip, Use, disk, memory, faults
<1>2. events' \in Seq(EventType) /\ events \in Seq(EventType)
  BY <1>1 DEF SyncInv, TypeOK, EventType
<1>3. TypeOK'
  BY <1>1, <1>2 DEF SyncInv, TypeOK, BoundsType
<1>4. OneThread'
  BY Zenon, <1>1 DEF SyncInv, OneThread, Alive, Target
<1>5. /\ \A i \in DOMAIN events : i \in DOMAIN events' /\ events'[i] = events[i] /\ Len(events) + 1 > i
      /\ Len(events) + 1 \in DOMAIN events' /\ Len(events) + 1 > 0
      /\ events'[Len(events) + 1] = [type |-> "BlockConnected", block |-> b]
      /\ \A i \in DOMAIN events' : i \in DOMAIN events \/ i = Len(events) + 1
  BY <1>1, <1>2
<1> DEFINE n == Len(events) + 1
<1> HIDE DEF n
<1>6. IsConnect(events'[n]) /\ events'[n].block = b
  BY <1>5 DEF n, IsConnect
<1>7. ASSUME NEW x, NEW k, Leads(tip, events, x, k), n > k
      PROVE  Leads(tip', events', x, k)
  <2>1. CASE IsAncestor(tip, x)
    BY Zenon, <1>0, <1>5, <1>6, <1>7, <2>1 DEF Leads, n
  <2>2. CASE ~IsAncestor(tip, x)
    BY Zenon, <1>5, <1>7, <2>2 DEF Leads
  <2> QED BY Zenon, <2>1, <2>2
<1>8. Leads(tip', events', b, n)
  <2>1. IsAncestor(b, b)
    BY Zenon, AncestorOrder DEF MaybeBlock
  <2> QED BY Zenon, <1>1, <2>1 DEF Leads
<1>9. Base' = Base
  BY Zenon, <1>1 DEF Base
<1>10. Handover'
  <2>1. ASSUME NEW i \in DOMAIN events', IsConnect(events'[i])
        PROVE  pprev(events'[i].block) # NoBlock /\ Leads(tip', events', events'[i].block, i)
    <3>1. CASE i = n
      BY Zenon, <1>0, <1>6, <1>8, <3>1 DEF SyncInv, TypeOK
    <3>2. CASE i \in DOMAIN events
      BY Zenon, <1>5, <1>7, <2>1, <3>2 DEF SyncInv, Handover, n
    <3> QED BY Zenon, <1>5, <3>1, <3>2 DEF n
  <2>2. Following' => Leads(tip', events', Base', 0)
    BY Zenon, <1>1, <1>5, <1>7, <1>9 DEF SyncInv, Handover, Following, Alive, n
  <2> QED BY Zenon, <2>1, <2>2 DEF Handover
<1> QED BY Zenon, <1>3, <1>4, <1>10 DEF SyncInv

\* Back to the block before: what leads to the tip leads to it as well.
LEMMA DisconnectTipSync ==
    ASSUME SyncInv, DisconnectTip
    PROVE  SyncInv'
<1>1. /\ node = "up" /\ tip' = pprev(tip) /\ tip' # NoBlock /\ flushed' = flushed /\ db' = db
      /\ UNCHANGED <<events, m_synced, m_interrupt, m_best_block_index, sync, callback, node,
                     trouble, lost>>
      /\ bounds' = [bounds EXCEPT !["chain"] = @ - 1] /\ bounds["chain"] > 0
  BY Zenon DEF DisconnectTip, Use, disk, memory, faults
<1>2. tip \in Blocks /\ tip' \in Blocks /\ IsAncestor(tip', tip)
  BY Zenon, <1>1, PprevFacts, AncestorStep DEF SyncInv, TypeOK, MaybeBlock
<1>3. TypeOK'
  BY <1>1, <1>2 DEF SyncInv, TypeOK, BoundsType
<1>4. OneThread'
  BY Zenon, <1>1 DEF SyncInv, OneThread, Alive, Target
<1>5. ASSUME NEW x \in MaybeBlock, NEW k, Leads(tip, events, x, k)
      PROVE  Leads(tip', events', x, k)
  <2>1. IsAncestor(tip, x) => IsAncestor(tip', x)
    BY Zenon, <1>2, AncestorOrder DEF MaybeBlock
  <2> QED BY Zenon, <1>1, <1>5, <2>1 DEF Leads
<1>6. Base' = Base /\ Base \in MaybeBlock
  BY Zenon, <1>1 DEF Base, SyncInv, TypeOK, OneThread, Target, MaybeBlock
<1>7. \A i \in DOMAIN events : events[i].block \in MaybeBlock
  BY Zenon, EventFacts DEF SyncInv, MaybeBlock
<1>8. Handover'
  BY Zenon, <1>1, <1>5, <1>6, <1>7 DEF SyncInv, Handover, Following, Alive
<1> QED BY Zenon, <1>3, <1>4, <1>8 DEF SyncInv

\* FlushStateToDisk and Shutdown's flush put an event in the queue that connects
\* nothing.
LEMMA FlushSync ==
    ASSUME SyncInv, flushed' = [tip |-> tip, known |-> known],
           events' = Append(events, [type |-> "ChainStateFlushed", block |-> tip]),
           UNCHANGED <<tip, m_synced, m_interrupt, m_best_block_index, db, sync, callback>>,
           UNCHANGED <<trouble, lost>>,
           node = "up", node' \in {"up", "stopping"},
           bounds' = bounds
             \/ (bounds' = [bounds EXCEPT !["flush"] = @ - 1] /\ bounds["flush"] > 0)
    PROVE  SyncInv'
<1>2. events' \in Seq(EventType) /\ events \in Seq(EventType)
  BY DEF SyncInv, TypeOK, EventType
<1>3. TypeOK'
  <2>1. flushed'.tip \in Blocks
    BY Zenon DEF SyncInv, TypeOK
  <2>2. bounds' \in BoundsType
    BY DEF SyncInv, TypeOK, BoundsType
  <2> QED BY Zenon, <1>2, <2>1, <2>2 DEF SyncInv, TypeOK
<1>4. OneThread'
  BY Zenon DEF SyncInv, OneThread, Alive, Target
<1>5. /\ \A i \in DOMAIN events : i \in DOMAIN events' /\ events'[i] = events[i]
      /\ \A i \in DOMAIN events' : i \in DOMAIN events \/ i = Len(events) + 1
      /\ events'[Len(events) + 1].type = "ChainStateFlushed"
  BY <1>2
<1>6. ASSUME NEW x, NEW k, Leads(tip, events, x, k)
      PROVE  Leads(tip', events', x, k)
  BY Zenon, <1>5, <1>6 DEF Leads
<1>7. Base' = Base
  BY Zenon DEF Base
<1>8. \A i \in DOMAIN events' : IsConnect(events'[i]) => i \in DOMAIN events /\ events'[i] = events[i]
  BY Zenon, <1>5 DEF IsConnect
<1>9. Handover'
  BY Zenon, <1>6, <1>7, <1>8 DEF SyncInv, Handover, Following, Alive
<1> QED BY Zenon, <1>3, <1>4, <1>9 DEF SyncInv

\* What Commit writes.
LEMMA CommittedFacts ==
    ASSUME DOMAIN db = {"height", "hash", "pos", "best"}, NEW b
    PROVE  /\ DOMAIN Committed(b) = DOMAIN db
           /\ Committed(b).height = db.height /\ Committed(b).hash = db.hash
           /\ b = NoBlock => Committed(b) = db
           /\ b # NoBlock => Committed(b).best = b /\ Committed(b).pos = m_next_filter_pos
BY Zenon DEF Committed

\* Using up a bound.
LEMMA UseFacts ==
    ASSUME bounds \in BoundsType, NEW k \in {"chain", "flush", "fault", "restart"}, Use(k)
    PROVE  bounds' \in BoundsType
BY DEF BoundsType, Use

\* What Commit does: it writes, or it fails and there is trouble.
LEMMA CommitFacts ==
    ASSUME TypeOK, NEW b \in MaybeBlock, Commit(b)
    PROVE  /\ DOMAIN db' = DOMAIN db /\ db'.best \in MaybeBlock
           /\ bounds' \in BoundsType /\ trouble' \in Troubles
           /\ trouble' = "fatal" <=> trouble = "fatal"
           /\ db' = Committed(b) \/ (db' = db /\ trouble' # "none")
<1>1. DOMAIN db = {"height", "hash", "pos", "best"} /\ db.best \in MaybeBlock
      /\ bounds \in BoundsType /\ trouble \in Troubles
  BY Zenon DEF TypeOK
<1>2. /\ db' = Committed(b) \/ (db' = db /\ trouble' # "none")
      /\ trouble' \in Troubles /\ (trouble' = "fatal" <=> trouble = "fatal")
  BY Zenon, <1>1 DEF Commit, Troubles
<1>3. bounds' \in BoundsType
  BY Zenon, <1>1, UseFacts DEF Commit
<1>4. DOMAIN db' = DOMAIN db /\ db'.best \in MaybeBlock
  BY Zenon, <1>1, <1>2, CommittedFacts
<1> QED BY Zenon, <1>2, <1>3, <1>4

\* What CustomRemove writes: the position, and the entry of the block in the hash
\* index.
LEMMA RemovedFacts ==
    ASSUME DOMAIN db = {"height", "hash", "pos", "best"}, NEW b
    PROVE  /\ DOMAIN Removed(b) = DOMAIN db
           /\ Removed(b).height = db.height /\ Removed(b).best = db.best
           /\ Removed(b).pos = m_next_filter_pos
           /\ Removed(b).hash = IF db.height[Height(b)].block = NoBlock THEN db.hash
                                ELSE [db.hash EXCEPT ![db.height[Height(b)].block] =
                                                         db.height[Height(b)]]
BY Zenon DEF Removed

\* What CustomAppend writes: the entry of the block in the height index.
LEMMA AppendedFacts ==
    ASSUME DOMAIN db = {"height", "hash", "pos", "best"}, NEW b, CustomAppend(b)
    PROVE  /\ DOMAIN db' = DOMAIN db
           /\ db'.hash = db.hash /\ db'.best = db.best /\ db'.pos = db.pos
           /\ db'.height = [db.height EXCEPT ![Height(b)] =
                               [block |-> b, header |-> Append(m_last_header, b),
                                pos |-> m_next_filter_pos]]
BY Zenon DEF CustomAppend

\* A step of the Sync thread before it is done: the callbacks have nothing to do.
LEMMA SyncThreadSync ==
    ASSUME SyncInv, Running, DOMAIN db' = DOMAIN db, db'.best \in MaybeBlock,
           UNCHANGED <<tip, flushed, events, callback, lost>>, m_interrupt' \in BOOLEAN,
           bounds' \in BoundsType, trouble' \in Troubles,
           sync' \in SyncType, sync'.pc = "work" => Target(sync'),
           m_best_block_index' \in MaybeBlock,
           sync'.pc = "recheck" => m_best_block_index' = sync'.pindex,
           node' \in {node, "assert"}, m_synced' = m_synced
    PROVE  SyncInv'
<1>0. Alive /\ ~m_synced /\ callback.pc # "work" /\ m_synced \in BOOLEAN /\ node # "down"
  BY Zenon DEF SyncInv, TypeOK, OneThread, Running, Alive
<1>1. TypeOK'
  BY Zenon DEF SyncInv, TypeOK
<1>2. OneThread'
  BY Zenon, <1>0 DEF SyncInv, OneThread, Alive, Target
<1>3. Handover'
  BY Zenon, <1>0, HandoverSame DEF SyncInv, Following
<1> QED BY Zenon, <1>1, <1>2, <1>3 DEF SyncInv

\* Sync gives up: Commit, and no thread is left.
LEMMA SyncInterruptedSync ==
    ASSUME SyncInv, SyncInterrupted
    PROVE  SyncInv'
<1>1. /\ m_best_block_index' = sync.pindex /\ Commit(sync.pindex) /\ sync' = Idle
      /\ Running /\ UNCHANGED <<tip, flushed, events, m_interrupt, callback, lost, node, m_synced>>
  BY Zenon DEF SyncInterrupted, chain
<1>2. sync.pindex \in MaybeBlock /\ TypeOK /\ m_interrupt' \in BOOLEAN
  BY Zenon, <1>1 DEF SyncInv, TypeOK, SyncType
<1>3. DOMAIN db' = DOMAIN db /\ db'.best \in MaybeBlock /\ bounds' \in BoundsType
      /\ trouble' \in Troubles
  BY Zenon, <1>1, <1>2, CommitFacts
<1>4. sync' \in SyncType /\ sync'.pc = "idle"
  BY <1>1 DEF Idle, SyncType, MaybeBlock
<1> QED BY Zenon, <1>1, <1>2, <1>3, <1>4, SyncThreadSync

\* NextSyncBlock gives a block to work on, or nullptr.
LEMMA SyncNextSync ==
    ASSUME LeastExists, SyncInv, SyncNext
    PROVE  SyncInv'
<1> DEFINE n == NextSyncBlock(sync.pindex)
<1>1. /\ sync' = [sync EXCEPT !.pc = IF n = NoBlock THEN "commit" ELSE "work", !.next = n]
      /\ Running
      /\ UNCHANGED <<tip, flushed, events, m_interrupt, callback, bounds, node, m_synced,
                     m_best_block_index, db, trouble, lost>>
  BY Zenon DEF SyncNext, chain, memory, disk, faults
<1>2. sync \in SyncType /\ sync.pindex \in MaybeBlock /\ tip \in Blocks
      /\ db.best \in MaybeBlock /\ m_best_block_index \in MaybeBlock
      /\ m_interrupt' \in BOOLEAN /\ bounds' \in BoundsType /\ trouble' \in Troubles
  BY Zenon, <1>1 DEF SyncInv, TypeOK, SyncType
<1>3. /\ n \in MaybeBlock
      /\ n # NoBlock => /\ n \in Blocks /\ IsAncestor(pprev(n), sync.pindex)
                        /\ pprev(n) = NoBlock => sync.pindex = NoBlock
  BY Zenon, <1>2, NextFacts
<1> HIDE DEF n
<1>4. /\ sync' \in SyncType /\ sync'.pc \in {"commit", "work"} /\ sync'.next = n
      /\ sync'.pindex = sync.pindex /\ (sync'.pc = "work" => n # NoBlock)
  BY Zenon, <1>1, <1>2, <1>3 DEF SyncType
<1>5. sync'.pc = "work" => Target(sync')
  BY Zenon, <1>3, <1>4 DEF Target
<1> QED BY Zenon, <1>1, <1>2, <1>4, <1>5, SyncThreadSync

\* The commit of Sync sets the best block the recheck relies on.
LEMMA SyncCommitSync ==
    ASSUME SyncInv, SyncCommit
    PROVE  SyncInv'
<1>1. /\ m_best_block_index' = sync.pindex /\ Commit(sync.pindex)
      /\ sync' = [sync EXCEPT !.pc = IF sync.pc = "commit" THEN "recheck" ELSE "loop"]
      /\ Running /\ UNCHANGED <<tip, flushed, events, m_interrupt, callback, lost, node, m_synced>>
  BY Zenon DEF SyncCommit, chain
<1>2. sync \in SyncType /\ sync.pindex \in MaybeBlock /\ TypeOK /\ m_interrupt' \in BOOLEAN
  BY Zenon, <1>1 DEF SyncInv, TypeOK, SyncType
<1>3. DOMAIN db' = DOMAIN db /\ db'.best \in MaybeBlock /\ bounds' \in BoundsType
      /\ trouble' \in Troubles
  BY Zenon, <1>1, <1>2, CommitFacts
<1>4. sync' \in SyncType /\ sync'.pc \in {"recheck", "loop"} /\ sync'.pindex = sync.pindex
  BY <1>1, <1>2 DEF SyncType
<1> QED BY Zenon, <1>1, <1>2, <1>3, <1>4, SyncThreadSync

\* m_synced is set when the tip or a descendant of it is the best block.
LEMMA SyncRecheckSync ==
    ASSUME LeastExists, SyncInv, SyncRecheck
    PROVE  SyncInv'
<1> DEFINE n == NextSyncBlock(sync.pindex)
<1>1. /\ Running /\ sync.pc = "recheck"
      /\ UNCHANGED <<tip, flushed, events, m_interrupt, callback, bounds, node,
                     m_best_block_index, db, trouble, lost>>
      /\ IF n = NoBlock THEN m_synced' = TRUE /\ sync' = Idle
         ELSE sync' = [sync EXCEPT !.pc = "work", !.next = n] /\ m_synced' = m_synced
  BY Zenon DEF SyncRecheck, StillAtTip, chain, memory, disk, faults
<1>2. sync \in SyncType /\ sync.pindex \in MaybeBlock /\ tip \in Blocks
      /\ db.best \in MaybeBlock /\ m_best_block_index \in MaybeBlock
      /\ m_best_block_index = sync.pindex
      /\ m_interrupt' \in BOOLEAN /\ bounds' \in BoundsType /\ trouble' \in Troubles
  BY Zenon, <1>1 DEF SyncInv, TypeOK, SyncType, OneThread
<1>3. /\ n \in MaybeBlock /\ (n = NoBlock => IsAncestor(tip, sync.pindex))
      /\ n # NoBlock => /\ n \in Blocks /\ IsAncestor(pprev(n), sync.pindex)
                        /\ pprev(n) = NoBlock => sync.pindex = NoBlock
  BY Zenon, <1>2, NextFacts
<1> HIDE DEF n
<1>4. CASE n = NoBlock
  <2>1. Alive /\ ~m_synced /\ callback.pc # "work" /\ node # "down"
    BY Zenon, <1>1 DEF SyncInv, OneThread, Running, Alive
  <2>2. sync' \in SyncType /\ sync'.pc = "idle" /\ m_synced' = TRUE
    BY <1>1, <1>4 DEF Idle, SyncType, MaybeBlock
  <2>3. TypeOK'
    BY Zenon, <1>1, <2>2 DEF SyncInv, TypeOK
  <2>4. OneThread'
    BY Zenon, <1>1, <2>1, <2>2 DEF SyncInv, OneThread, Alive, Target
  <2>5. Leads(tip', events', Base', 0)
    BY Zenon, <1>1, <1>2, <1>3, <1>4, <2>1 DEF Leads, Base
  <2>6. Handover'
    BY Zenon, <1>1, <2>5 DEF SyncInv, Handover
  <2> QED BY Zenon, <2>3, <2>4, <2>6 DEF SyncInv
<1>5. CASE n # NoBlock
  <2>1. /\ sync' \in SyncType /\ sync'.pc = "work" /\ sync'.next = n
        /\ sync'.pindex = sync.pindex /\ m_synced' = m_synced
    BY Zenon, <1>1, <1>2, <1>3, <1>5 DEF SyncType
  <2>2. Target(sync')
    BY Zenon, <1>3, <1>5, <2>1 DEF Target
  <2> QED BY Zenon, <1>1, <1>2, <2>1, <2>2, SyncThreadSync
<1> QED BY Zenon, <1>4, <1>5

\* Rewinding goes from block to block and ends before genesis is removed.
LEMMA RewindTarget ==
    ASSUME NEW next \in Blocks, NEW pindex \in MaybeBlock, IsAncestor(pprev(next), pindex),
           pprev(next) = NoBlock => pindex = NoBlock, pprev(next) # pindex
    PROVE  /\ pindex \in Blocks /\ pprev(pindex) \in Blocks /\ pprev(next) \in Blocks
           /\ IsAncestor(pprev(next), pprev(pindex))
<1>1. NoBlock \notin Blocks /\ pprev(next) \in MaybeBlock
  BY Zenon, TreeAssumption, PprevFacts
<1>2. pindex # NoBlock
  BY Zenon, <1>1, AncestorOrder
<1>3. pindex \in Blocks /\ pprev(next) \in Blocks
  BY Zenon, <1>1, <1>2 DEF MaybeBlock
<1>4. IsAncestor(pprev(next), pprev(pindex)) /\ pprev(pindex) \in MaybeBlock
  BY Zenon, <1>1, <1>3, AncestorStep, PprevFacts
<1>5. pprev(pindex) # NoBlock
  BY Zenon, <1>1, <1>3, <1>4, AncestorOrder
<1> QED BY Zenon, <1>3, <1>4, <1>5 DEF MaybeBlock

\* What a rewind step writes.
LEMMA RewindWrites ==
    ASSUME SyncInv, NEW b, CustomRemove(b)
    PROVE  /\ DOMAIN db' = DOMAIN db /\ db'.best \in MaybeBlock /\ node' \in {node, "assert"}
           /\ db'.best = db.best
<1>1. DOMAIN db = {"height", "hash", "pos", "best"} /\ db.best \in MaybeBlock
  BY Zenon DEF SyncInv, TypeOK
<1>2. db' = Removed(b) /\ node' \in {node, "assert"}
  BY Zenon DEF CustomRemove
<1> QED BY Zenon, <1>1, <1>2, RemovedFacts

\* Sync rewinds by one block.
LEMMA SyncRewindSync ==
    ASSUME SyncInv, SyncRewind
    PROVE  SyncInv'
<1>1. /\ Running /\ sync.pc = "work" /\ pprev(sync.next) # sync.pindex
      /\ CustomRemove(sync.pindex) /\ sync' = [sync EXCEPT !.pindex = pprev(sync.pindex)]
      /\ m_best_block_index' \in {pprev(sync.next), m_best_block_index}
      /\ UNCHANGED <<tip, flushed, events, m_interrupt, callback, bounds, m_synced, trouble, lost>>
  BY Zenon DEF SyncRewind, RewindStep, chain, faults
<1>2. /\ sync \in SyncType /\ sync.pindex \in MaybeBlock /\ sync.next \in Blocks
      /\ IsAncestor(pprev(sync.next), sync.pindex)
      /\ pprev(sync.next) = NoBlock => sync.pindex = NoBlock
      /\ m_best_block_index \in MaybeBlock
      /\ m_interrupt' \in BOOLEAN /\ bounds' \in BoundsType /\ trouble' \in Troubles
  BY Zenon, <1>1 DEF SyncInv, TypeOK, SyncType, OneThread, Target
<1>3. /\ pprev(sync.pindex) \in Blocks /\ pprev(sync.next) \in Blocks
      /\ IsAncestor(pprev(sync.next), pprev(sync.pindex))
  BY Zenon, <1>1, <1>2, RewindTarget
<1>4. /\ sync' \in SyncType /\ sync'.pc = "work" /\ sync'.next = sync.next
      /\ sync'.pindex = pprev(sync.pindex)
  BY <1>1, <1>2, <1>3 DEF SyncType, MaybeBlock
<1>5. Target(sync') /\ m_best_block_index' \in MaybeBlock
  BY Zenon, <1>1, <1>2, <1>3, <1>4, TreeAssumption DEF Target, MaybeBlock
<1>6. DOMAIN db' = DOMAIN db /\ db'.best \in MaybeBlock /\ node' \in {node, "assert"}
  BY Zenon, <1>1, RewindWrites
<1> QED BY Zenon, <1>1, <1>2, <1>4, <1>5, <1>6, SyncThreadSync

\* Sync appends a block.
LEMMA SyncAppendSync ==
    ASSUME SyncInv, SyncAppend
    PROVE  SyncInv'
<1>1. /\ Running /\ sync.pc = "work" /\ CustomAppend(sync.next)
      /\ \E pc \in {"loop", "periodic"} :
           sync' = [pc |-> pc, pindex |-> sync.next, next |-> NoBlock]
      /\ UNCHANGED <<tip, flushed, events, m_interrupt, callback, bounds, m_synced, node,
                     m_best_block_index, trouble, lost>>
  BY Zenon DEF SyncAppend, AppendStep, chain, faults
<1>2. /\ m_interrupt' \in BOOLEAN /\ bounds' \in BoundsType /\ trouble' \in Troubles
      /\ sync.next \in Blocks /\ m_best_block_index \in MaybeBlock
      /\ DOMAIN db = {"height", "hash", "pos", "best"} /\ db.best \in MaybeBlock
  BY Zenon, <1>1 DEF SyncInv, TypeOK, OneThread, Target
<1>3. DOMAIN db' = DOMAIN db /\ db'.best \in MaybeBlock
  BY Zenon, <1>1, <1>2, AppendedFacts
<1>4. sync' \in SyncType /\ sync'.pc \in {"loop", "periodic"}
  BY <1>1, <1>2 DEF SyncType, MaybeBlock
<1> QED BY Zenon, <1>1, <1>2, <1>3, <1>4, SyncThreadSync

\* Sync gives up with FatalErrorf.
LEMMA SyncFatalSync ==
    ASSUME SyncInv, SyncFatal
    PROVE  SyncInv'
<1>1. /\ Alive /\ sync.pc = "work" /\ Use("fault") /\ trouble' = "fatal" /\ m_interrupt' = TRUE
      /\ sync' = Idle
      /\ UNCHANGED <<tip, flushed, events, callback, lost, m_synced, node, m_best_block_index, db>>
  BY Zenon DEF SyncFatal, FatalErrorf, chain, memory, disk
<1>2. bounds' \in BoundsType /\ db.best \in MaybeBlock /\ m_best_block_index \in MaybeBlock
  BY Zenon, <1>1, UseFacts DEF SyncInv, TypeOK
<1>3. sync' \in SyncType /\ sync'.pc = "idle" /\ trouble' \in Troubles
  BY <1>1 DEF Idle, SyncType, MaybeBlock, Troubles
<1>4. Running
  BY Zenon, <1>1 DEF Running
<1> QED BY Zenon, <1>1, <1>2, <1>3, <1>4, SyncThreadSync

\* Taking the first event from the queue.
LEMMA TailFacts ==
    ASSUME events \in Seq(EventType), events # <<>>
    PROVE  /\ Tail(events) \in Seq(EventType) /\ 1 \in DOMAIN events
           /\ Head(events) = events[1]
           /\ \A i \in DOMAIN Tail(events) :
                i \in Nat /\ i + 1 \in DOMAIN events /\ Tail(events)[i] = events[i + 1]
           /\ \A j \in DOMAIN events : j # 1 =>
                j - 1 \in DOMAIN Tail(events) /\ Tail(events)[j - 1] = events[j] /\ j - 1 > 0
           /\ \A j \in DOMAIN events, k \in Nat : j > k + 1 => j - 1 > k /\ j # 1
           /\ Tail(events) # <<>> => 
                /\ Len(Tail(events)) \in DOMAIN Tail(events)
                /\ Tail(events)[Len(Tail(events))] = events[Len(events)]
OBVIOUS

\* What leads on after an event leads on when the events up to it have been taken.
LEMMA LeadsTail ==
    ASSUME events \in Seq(EventType), events # <<>>, NEW x, NEW k \in Nat,
           Leads(tip, events, x, k + 1)
    PROVE  Leads(tip, Tail(events), x, k)
<1>1. \A j \in DOMAIN events : j > k + 1 =>
        j - 1 > k /\ j - 1 \in DOMAIN Tail(events) /\ Tail(events)[j - 1] = events[j]
  BY Zenon, TailFacts
<1> QED BY Zenon, <1>1 DEF Leads

\* A callback takes an event that connects nothing, or that has been dealt with.
LEMMA TakeSync ==
    ASSUME SyncInv, Alive, events # <<>>, events' = Tail(events),
           UNCHANGED <<tip, flushed, m_synced, m_interrupt, m_best_block_index, sync, node, lost>>,
           bounds' \in BoundsType, trouble' \in Troubles, trouble' = "fatal" <=> trouble = "fatal",
           DOMAIN db' = DOMAIN db, db'.best \in MaybeBlock,
           callback' \in CallbackType,
           callback'.pc = "work" => Target(callback') /\ m_synced,
           Following => Leads(tip, Tail(events), Base', 0)
    PROVE  SyncInv'
<1>0. node # "down" /\ node # "assert" /\ events \in Seq(EventType)
  BY Zenon DEF Alive, SyncInv, TypeOK
<1>1. TypeOK'
  <2>1. events' \in Seq(EventType)
    BY Zenon, <1>0, TailFacts
  <2> QED BY Zenon, <2>1 DEF SyncInv, TypeOK
<1>2. OneThread'
  BY Zenon, <1>0 DEF SyncInv, OneThread, Alive, Target
<1>3. Handover'
  <2>1. ASSUME NEW i \in DOMAIN events', IsConnect(events'[i])
        PROVE  pprev(events'[i].block) # NoBlock /\ Leads(tip', events', events'[i].block, i)
    <3>1. i \in Nat /\ i + 1 \in DOMAIN events /\ events'[i] = events[i + 1]
      BY Zenon, <1>0, TailFacts
    <3>2. pprev(events'[i].block) # NoBlock /\ Leads(tip, events, events'[i].block, i + 1)
      BY Zenon, <2>1, <3>1 DEF SyncInv, Handover
    <3> QED BY Zenon, <1>0, <3>1, <3>2, LeadsTail
  <2>2. Following' => Following
    BY Zenon DEF Following, Alive
  <2> QED BY Zenon, <2>1, <2>2 DEF Handover
<1> QED BY Zenon, <1>1, <1>2, <1>3 DEF SyncInv

\* BlockConnected: from a block that is taken up the queue leads on; if it is ignored
\* it was not the one the best block leads on to.
LEMMA BlockConnectedSync ==
    ASSUME SyncInv, BlockConnected
    PROVE  SyncInv'
<1> DEFINE b == Head(events).block
<1>1. /\ Alive /\ callback.pc = "idle" /\ events # <<>> /\ Head(events).type = "BlockConnected"
      /\ events' = Tail(events)
      /\ callback' = IF MustIndex(b) THEN [pc |-> "work", pindex |-> m_best_block_index, next |-> b]
                     ELSE callback
      /\ UNCHANGED <<tip, flushed, m_synced, m_interrupt, m_best_block_index, sync, bounds, node, db,
                     trouble, lost>>
  BY Zenon DEF BlockConnected, chain, memory, disk, faults
<1>2. /\ bounds' \in BoundsType /\ trouble' \in Troubles /\ TypeOK /\ events \in Seq(EventType) /\ db.best \in MaybeBlock /\ callback \in CallbackType
      /\ m_best_block_index \in MaybeBlock
  BY Zenon, <1>1 DEF SyncInv, TypeOK
<1>3. Head(events) = events[1] /\ 1 \in DOMAIN events
  BY Zenon, <1>1, <1>2, TailFacts
<1>4. b \in Blocks /\ pprev(b) # NoBlock /\ Leads(tip, events, b, 1)
  BY Zenon, <1>1, <1>2, <1>3, EventFacts DEF SyncInv, Handover, IsConnect
<1>5. Leads(tip, Tail(events), b, 0)
  <2>1. Leads(tip, events, b, 0 + 1) /\ 0 \in Nat
    BY <1>4
  <2> HIDE DEF b
  <2> QED BY Zenon, <1>1, <1>2, <2>1, LeadsTail
<1> HIDE DEF b
<1>6. CASE MustIndex(b)
  <2>1. /\ callback' \in CallbackType /\ callback'.pc = "work" /\ callback'.next = b
        /\ callback'.pindex = m_best_block_index
    BY <1>1, <1>2, <1>4, <1>6 DEF CallbackType, MaybeBlock
  <2>2. Target(callback') /\ m_synced
    BY Zenon, <1>4, <1>6, <2>1 DEF Target, MustIndex
  <2>3. Base' = b
    BY Zenon, <2>1 DEF Base
  <2> QED BY Zenon, <1>1, <1>2, <1>5, <2>1, <2>2, <2>3, TakeSync
<1>7. CASE ~MustIndex(b)
  <2>1. callback' = callback /\ Base' = m_best_block_index /\ Base = m_best_block_index
    BY Zenon, <1>1, <1>7 DEF Base
  <2>2. ASSUME Following PROVE Leads(tip, Tail(events), m_best_block_index, 0)
    <3>1. Leads(tip, events, m_best_block_index, 0) /\ ~IsAncestor(pprev(b), m_best_block_index)
      BY Zenon, <1>1, <1>7, <2>1, <2>2 DEF SyncInv, Handover, MustIndex, Following
    <3>2. \A j \in DOMAIN events : j # 1 =>
            j - 1 \in DOMAIN Tail(events) /\ Tail(events)[j - 1] = events[j] /\ j - 1 > 0
      BY Zenon, <1>1, <1>2, TailFacts
    <3> QED BY Zenon, <1>3, <3>1, <3>2 DEF Leads, b
  <2>3. callback.pc # "work"
    BY Zenon, <1>1
  <2> QED BY Zenon, <1>1, <1>2, <2>1, <2>2, <2>3, TakeSync
<1> QED BY Zenon, <1>6, <1>7

\* ChainStateFlushed: it connects nothing.
LEMMA ChainStateFlushedSync ==
    ASSUME SyncInv, ChainStateFlushed
    PROVE  SyncInv'
<1>1. /\ Alive /\ callback.pc = "idle" /\ events # <<>> /\ Head(events).type = "ChainStateFlushed"
      /\ events' = Tail(events) /\ callback' = callback
      /\ Commit(m_best_block_index) \/ UNCHANGED <<db, trouble, bounds>>
      /\ UNCHANGED <<tip, flushed, m_synced, m_interrupt, m_best_block_index, sync, lost, node>>
  BY Zenon DEF ChainStateFlushed, chain, memory
<1>2. /\ events \in Seq(EventType) /\ db.best \in MaybeBlock /\ callback \in CallbackType
      /\ m_best_block_index \in MaybeBlock /\ TypeOK /\ bounds \in BoundsType /\ trouble \in Troubles
  BY Zenon DEF SyncInv, TypeOK
<1>3. Head(events) = events[1]
  BY Zenon, <1>1, <1>2, TailFacts
<1>4. /\ DOMAIN db' = DOMAIN db /\ db'.best \in MaybeBlock /\ bounds' \in BoundsType
      /\ trouble' \in Troubles /\ (trouble' = "fatal" <=> trouble = "fatal")
  <2>1. CASE UNCHANGED <<db, trouble, bounds>>
    BY Zenon, <1>2, <2>1
  <2>2. CASE Commit(m_best_block_index)
    BY Zenon, <1>2, <2>2, CommitFacts
  <2> QED BY Zenon, <1>1, <2>1, <2>2
<1>5. Base' = m_best_block_index /\ Base = m_best_block_index
  BY Zenon, <1>1 DEF Base
<1>6. ASSUME Following PROVE Leads(tip, Tail(events), m_best_block_index, 0)
  <2>1. Leads(tip, events, m_best_block_index, 0)
    BY Zenon, <1>1, <1>5, <1>6 DEF SyncInv, Handover
  <2>2. \A j \in DOMAIN events : j # 1 =>
          j - 1 \in DOMAIN Tail(events) /\ Tail(events)[j - 1] = events[j] /\ j - 1 > 0
    BY Zenon, <1>1, <1>2, TailFacts
  <2> QED BY Zenon, <1>1, <1>3, <2>1, <2>2 DEF Leads, IsConnect
<1> QED BY Zenon, <1>1, <1>2, <1>4, <1>5, <1>6, TakeSync DEF SyncInv, OneThread

\* A callback that works and leaves the chain alone keeps the block it will be at.
LEMMA CallbackSync ==
    ASSUME SyncInv, Alive, callback.pc = "work",
           DOMAIN db' = DOMAIN db, db'.best \in MaybeBlock,
           UNCHANGED <<tip, flushed, events, m_synced, m_interrupt, sync, bounds, trouble, lost>>,
           callback' \in CallbackType, callback'.pc = "work" => Target(callback'),
           m_best_block_index' \in MaybeBlock, Base' = Base,
           node' \in {node, "assert"}
    PROVE  SyncInv'
<1>0. m_synced /\ sync.pc = "idle" /\ node # "down"
  BY Zenon DEF SyncInv, OneThread, Alive
<1>1. TypeOK'
  BY Zenon DEF SyncInv, TypeOK
<1>2. OneThread'
  BY Zenon, <1>0 DEF SyncInv, OneThread, Alive, Target
<1>3. Handover'
  BY Zenon, <1>0, HandoverSame DEF SyncInv, Following
<1> QED BY Zenon, <1>1, <1>2, <1>3 DEF SyncInv

\* BlockConnected rewinds by one block.
LEMMA BlockConnectedRewindSync ==
    ASSUME SyncInv, BlockConnectedRewind
    PROVE  SyncInv'
<1>1. /\ Alive /\ callback.pc = "work" /\ pprev(callback.next) # callback.pindex
      /\ CustomRemove(callback.pindex)
      /\ callback' = [callback EXCEPT !.pindex = pprev(callback.pindex)]
      /\ m_best_block_index' \in {pprev(callback.next), m_best_block_index}
      /\ UNCHANGED <<tip, flushed, events, m_interrupt, sync, bounds, m_synced, trouble, lost>>
  BY Zenon DEF BlockConnectedRewind, RewindStep, chain, faults
<1>2. /\ callback \in CallbackType /\ callback.pindex \in MaybeBlock /\ callback.next \in Blocks
      /\ IsAncestor(pprev(callback.next), callback.pindex)
      /\ pprev(callback.next) = NoBlock => callback.pindex = NoBlock
      /\ m_best_block_index \in MaybeBlock
  BY Zenon, <1>1 DEF SyncInv, TypeOK, CallbackType, OneThread, Target
<1>3. /\ pprev(callback.pindex) \in Blocks /\ pprev(callback.next) \in Blocks
      /\ IsAncestor(pprev(callback.next), pprev(callback.pindex))
  BY Zenon, <1>1, <1>2, RewindTarget
<1>4. /\ callback' \in CallbackType /\ callback'.pc = "work" /\ callback'.next = callback.next
      /\ callback'.pindex = pprev(callback.pindex)
  BY <1>1, <1>2, <1>3 DEF CallbackType, MaybeBlock
<1>5. Target(callback') /\ m_best_block_index' \in MaybeBlock
  BY Zenon, <1>1, <1>2, <1>3, <1>4, TreeAssumption DEF Target, MaybeBlock
<1>6. DOMAIN db' = DOMAIN db /\ db'.best \in MaybeBlock /\ node' \in {node, "assert"}
  BY Zenon, <1>1, RewindWrites
<1>7. Base' = Base
  BY Zenon, <1>1, <1>4 DEF Base
<1> QED BY Zenon, <1>1, <1>4, <1>5, <1>6, <1>7, CallbackSync

\* BlockConnected appends its block, which becomes the best block.
LEMMA BlockConnectedAppendSync ==
    ASSUME SyncInv, BlockConnectedAppend
    PROVE  SyncInv'
<1>1. /\ Alive /\ callback.pc = "work" /\ CustomAppend(callback.next)
      /\ m_best_block_index' = callback.next /\ callback' = Idle
      /\ UNCHANGED <<tip, flushed, events, m_interrupt, sync, bounds, m_synced, node, trouble, lost>>
  BY Zenon DEF BlockConnectedAppend, AppendStep, chain, faults
<1>2. /\ callback.next \in Blocks
      /\ DOMAIN db = {"height", "hash", "pos", "best"} /\ db.best \in MaybeBlock
  BY Zenon, <1>1 DEF SyncInv, TypeOK, OneThread, Target
<1>3. DOMAIN db' = DOMAIN db /\ db'.best \in MaybeBlock
  BY Zenon, <1>1, <1>2, AppendedFacts
<1>4. callback' \in CallbackType /\ callback'.pc = "idle" /\ m_best_block_index' \in MaybeBlock
  BY <1>1, <1>2 DEF CallbackType, MaybeBlock, Idle
<1>5. Base' = Base
  BY Zenon, <1>1, <1>4 DEF Base
<1> QED BY Zenon, <1>1, <1>3, <1>4, <1>5, CallbackSync

\* BlockConnected gives up with FatalErrorf: the index follows the chain no more.
LEMMA BlockConnectedFatalSync ==
    ASSUME SyncInv, BlockConnectedFatal
    PROVE  SyncInv'
<1>1. /\ Alive /\ callback.pc = "work" /\ Use("fault") /\ trouble' = "fatal" /\ m_interrupt' = TRUE
      /\ callback' = Idle
      /\ UNCHANGED <<tip, flushed, events, sync, lost, m_synced, node, m_best_block_index, db>>
  BY Zenon DEF BlockConnectedFatal, FatalErrorf, chain, memory, disk
<1>2. bounds' \in BoundsType
  BY Zenon, <1>1, UseFacts DEF SyncInv, TypeOK
<1>3. callback' \in CallbackType /\ callback'.pc = "idle" /\ trouble' \in Troubles
  BY <1>1 DEF Idle, CallbackType, MaybeBlock, Troubles
<1>4. TypeOK'
  BY Zenon, <1>1, <1>2, <1>3 DEF SyncInv, TypeOK
<1>5. OneThread'
  BY Zenon, <1>1, <1>3 DEF SyncInv, OneThread, Alive, Target
<1>6. Handover'
  BY Zenon, <1>1, HandoverSame DEF SyncInv, Following
<1> QED BY Zenon, <1>4, <1>5, <1>6 DEF SyncInv

\* The index is told to stop, and the node stops.
LEMMA StopSync ==
    ASSUME SyncInv, InterruptIndex \/ Stop
    PROVE  SyncInv'
<1>1. /\ Alive /\ UNCHANGED <<tip, flushed, events, m_synced, m_best_block_index, sync, callback, db>>
      /\ m_interrupt' \in BOOLEAN /\ trouble' = trouble
      /\ \/ node' = node /\ lost' = lost /\ Use("restart")
         \/ /\ node' = "down" /\ bounds' = bounds /\ lost' = (lost \/ trouble # "none")
            /\ events = <<>> /\ callback.pc = "idle" /\ sync.pc = "idle"
  BY Zenon DEF InterruptIndex, Stop, chain, memory, disk, faults, Alive, SyncInv, TypeOK
<1>2. TypeOK'
  <2>1. lost' \in BOOLEAN /\ bounds' \in BoundsType
    BY Zenon, <1>1, UseFacts DEF SyncInv, TypeOK
  <2> QED BY Zenon, <1>1, <2>1 DEF SyncInv, TypeOK
<1>3. OneThread'
  BY Zenon, <1>1 DEF SyncInv, OneThread, Alive, Target, TypeOK
<1>4. Handover'
  BY Zenon, <1>1, HandoverSame DEF SyncInv, Base, Following, Alive
<1> QED BY Zenon, <1>2, <1>3, <1>4 DEF SyncInv

\* A crash leaves no queue and no thread.
LEMMA CrashSync ==
    ASSUME SyncInv, Crash
    PROVE  SyncInv'
<1>1. /\ UNCHANGED <<tip, flushed, m_synced, m_interrupt, m_best_block_index, db>>
      /\ node' = "down" /\ events' = <<>> /\ sync' = Idle /\ callback' = Idle
      /\ Use("fault") /\ trouble' = trouble /\ lost' = TRUE
  BY Zenon DEF Crash, chain, memory, disk
<1>2. Idle \in SyncType /\ Idle \in CallbackType /\ Idle.pc = "idle" /\ ~Alive' /\ DOMAIN events' = {}
  BY <1>1 DEF Idle, SyncType, CallbackType, MaybeBlock, Alive
<1>3. bounds' \in BoundsType
  BY Zenon, <1>1, UseFacts DEF SyncInv, TypeOK
<1>4. events' \in Seq(EventType)
  BY <1>1
<1>5. TypeOK'
  BY Zenon, <1>1, <1>2, <1>3, <1>4 DEF SyncInv, TypeOK
<1>6. OneThread'
  BY Zenon, <1>1, <1>2 DEF OneThread, Alive
<1>7. Handover'
  BY Zenon, <1>2 DEF Handover, Following
<1> QED BY Zenon, <1>5, <1>6, <1>7 DEF SyncInv

\* Init() and StartBackgroundSync: synced if the committed block is the tip.
LEMMA StartSync ==
    ASSUME SyncInv, Start
    PROVE  SyncInv'
<1>1. /\ node = "down" /\ tip' = flushed.tip /\ m_interrupt' = FALSE
      /\ UNCHANGED <<flushed, events, callback, db, bounds, lost>> /\ trouble' = "none"
      /\ \/ /\ node' = "up" /\ m_best_block_index' = db.best
            /\ m_synced' = (db.best = flushed.tip)
            /\ sync' = IF m_synced' THEN Idle
                       ELSE [pc |-> "loop", pindex |-> db.best, next |-> NoBlock]
         \/ node' = "initerror" /\ UNCHANGED <<m_best_block_index, m_synced, sync>>
  BY Zenon DEF Start, memory
<1>2. events = <<>> /\ sync.pc = "idle" /\ callback.pc = "idle" /\ ~Alive
  BY Zenon, <1>1 DEF SyncInv, OneThread, Alive
<1>3. flushed.tip \in Blocks /\ db.best \in MaybeBlock /\ m_synced \in BOOLEAN
      /\ sync \in SyncType
  BY Zenon DEF SyncInv, TypeOK
<1>4. Idle \in SyncType /\ Idle.pc = "idle" /\ DOMAIN events = {}
  BY <1>2 DEF Idle, SyncType, MaybeBlock
<1>5. trouble' \in Troubles /\ sync' \in SyncType /\ sync'.pc \in {"idle", "loop"} /\ (node' = "up" /\ m_synced' => sync' = Idle)
  BY <1>1, <1>2, <1>3, <1>4 DEF SyncType, MaybeBlock, Troubles
<1>6. TypeOK'
  BY Zenon, <1>1, <1>3, <1>5 DEF SyncInv, TypeOK
<1>7. OneThread'
  BY Zenon, <1>1, <1>2, <1>4, <1>5 DEF OneThread, Alive
<1>8. Following' => Leads(tip', events', Base', 0)
  <2>1. Following' => db.best = tip' /\ Base' = db.best
    BY Zenon, <1>1, <1>2, <1>4 DEF Following, Alive, Base
  <2>2. IsAncestor(flushed.tip, flushed.tip)
    BY Zenon, <1>3, AncestorOrder DEF MaybeBlock
  <2> QED BY Zenon, <1>1, <2>1, <2>2 DEF Leads
<1>9. Handover'
  BY Zenon, <1>1, <1>4, <1>8 DEF Handover
<1> QED BY Zenon, <1>6, <1>7, <1>9 DEF SyncInv

\* The state of a node whose index has just been enabled.
LEMMA InitSync == Init => SyncInv
<1> SUFFICES ASSUME Init PROVE SyncInv
  BY Zenon
<1>1. /\ tip = StartTip /\ flushed.tip = StartTip /\ events = <<>> /\ m_synced = FALSE
      /\ m_interrupt = FALSE /\ m_best_block_index = NoBlock /\ sync = Idle /\ callback = Idle
      /\ db.best = NoBlock /\ DOMAIN db = {"height", "hash", "pos", "best"} /\ node = "down"
  BY DEF Init
<1>2. Idle \in SyncType /\ Idle \in CallbackType /\ Idle.pc = "idle" /\ DOMAIN events = {}
      /\ events \in Seq(EventType)
  BY <1>1 DEF Idle, SyncType, CallbackType, MaybeBlock
<1>3. bounds \in BoundsType /\ trouble = "none" /\ lost = FALSE /\ trouble \in Troubles
  BY BoundAssumption DEF Init, BoundsType, Troubles
<1>4. TypeOK
  BY Zenon, <1>1, <1>2, <1>3, TreeAssumption DEF TypeOK, MaybeBlock
<1>5. OneThread /\ Handover
  BY Zenon, <1>1, <1>2, <1>3 DEF OneThread, Handover, Following, Alive
<1> QED BY Zenon, <1>4, <1>5 DEF SyncInv

\* A step that changes nothing.
LEMMA StutterSync ==
    ASSUME SyncInv, UNCHANGED vars
    PROVE  SyncInv'
<1>1. UNCHANGED <<tip, flushed, events, m_synced, m_interrupt, m_best_block_index, db, sync,
                  callback, bounds, node, trouble, lost>>
  BY Zenon DEF vars, chain, memory, disk, faults
<1>2. TypeOK'
  BY Zenon, <1>1 DEF SyncInv, TypeOK
<1>3. OneThread' /\ Handover'
  BY Zenon, <1>1, HandoverSame DEF SyncInv, OneThread, Following, Alive, Target, Base
<1> QED BY Zenon, <1>2, <1>3 DEF SyncInv

\* Every step keeps the invariant.
LEMMA StepSync ==
    ASSUME LeastExists, SyncInv, [Next]_vars
    PROVE  SyncInv'
<1>1. ASSUME NEW b \in Blocks, ConnectTip(b) PROVE SyncInv'
  BY Zenon, <1>1, ConnectTipSync
<1>2. CASE FlushStateToDisk
  BY Zenon, <1>2, FlushSync DEF FlushStateToDisk, Use, memory, disk, faults
<1>3. CASE ShutdownFlush
  BY Zenon, <1>3, FlushSync DEF ShutdownFlush, memory, disk, faults
<1>4. CASE SyncStep
  BY Zenon, <1>4, SyncInterruptedSync, SyncNextSync, SyncCommitSync, SyncRecheckSync,
     SyncRewindSync, SyncAppendSync, SyncFatalSync DEF SyncStep
<1>5. CASE CallbackStep
  BY Zenon, <1>5, BlockConnectedSync, BlockConnectedRewindSync, BlockConnectedAppendSync,
     BlockConnectedFatalSync, ChainStateFlushedSync DEF CallbackStep
<1> QED BY Zenon, <1>1, <1>2, <1>3, <1>4, <1>5, DisconnectTipSync, StopSync, CrashSync,
           StartSync, StutterSync DEF Next
-----------------------------------------------------------------------------
(* What has been indexed is found: one lemma per action. *)

\* The entries stay as they are when only the committed state changes.
LEMMA EntriesSame ==
    ASSUME Entries, Cur' = Cur, db'.height = db.height, db'.hash = db.hash,
           UNCHANGED <<file, indexed>>
    PROVE  Entries'
<1>1. \A e, b : GoodEntry(e, b)' <=> GoodEntry(e, b)
  BY Zenon DEF GoodEntry
<1>2. \A b : (AtHeight(b)' <=> AtHeight(b)) /\ (AtHash(b)' <=> AtHash(b))
  BY Zenon DEF AtHeight, AtHash
<1>3. \A h \in Heights : (db.height[h])' = db.height[h]
  BY Zenon
<1>4. \A b \in Blocks : (db.hash[b])' = db.hash[b]
  BY Zenon
<1>5. (\A h \in Heights : db.height[h].block \in MaybeBlock)'
  BY Zenon, <1>3 DEF Entries
<1>6. (\A h \in Heights, b \in Blocks :
         db.height[h].block = b => Height(b) = h /\ GoodEntry(db.height[h], b))'
  BY Zenon, <1>1, <1>3 DEF Entries
<1>7. (\A b \in Blocks : AtHash(b) => GoodEntry(db.hash[b], b))'
  BY Zenon, <1>1, <1>2, <1>4 DEF Entries
<1>8. /\ (\A b \in Blocks : IsAncestor(b, Cur) => AtHeight(b))'
      /\ (\A b \in Blocks : AtHeight(b) /\ ~IsAncestor(b, Cur) => AtHash(b))'
      /\ (\A b \in indexed : AtHeight(b) \/ AtHash(b))'
  BY Zenon, <1>2 DEF Entries
<1> QED BY Zenon, <1>5, <1>6, <1>7, <1>8 DEF Entries

\* A step that leaves the index and the block it is at alone.
LEMMA DataSame ==
    ASSUME DbType, Entries, NextFilter, Cur' = Cur,
           UNCHANGED <<db, file, indexed, m_last_header, m_next_filter_pos>>
    PROVE  DbType' /\ Entries' /\ NextFilter'
<1>1. DbType' /\ NextFilter'
  BY Zenon DEF DbType, NextFilter
<1>2. Entries'
  BY Zenon, EntriesSame
<1> QED BY Zenon, <1>1, <1>2

\* Validation moves the tip or flushes, or the index is told to stop.
LEMMA ChainFound ==
    ASSUME Consistent, node = "up", node' \in {"up", "stopping"},
           UNCHANGED <<db, file, indexed, m_last_header, m_next_filter_pos, m_best_block_index,
                       sync, callback, m_synced, trouble>>,
           node' = "stopping" =>
             /\ events' # <<>>
             /\ events'[Len(events')] = [type |-> "ChainStateFlushed", block |-> tip']
    PROVE  Consistent'
<1>1. DbType' /\ Entries' /\ NextFilter'
  BY Zenon, DataSame DEF Consistent, Cur
<1>2. Commits'
  BY Zenon DEF Consistent, Commits, IsCommitted
<1> QED BY Zenon, <1>1, <1>2 DEF Consistent

\* A clean stop: the last flush has been seen, or Sync has committed.
LEMMA StopFound ==
    ASSUME Consistent, Stop
    PROVE  Consistent'
<1>1. /\ node = "stopping" /\ node' = "down" /\ events = <<>> /\ sync.pc = "idle"
      /\ UNCHANGED <<db, file, indexed, m_last_header, m_next_filter_pos, m_best_block_index,
                     sync, callback, m_synced, trouble>>
  BY Zenon DEF Stop, memory, disk
<1>2. DbType' /\ Entries' /\ NextFilter'
  BY Zenon, <1>1, DataSame DEF Consistent, Cur
<1>3. Commits'
  BY Zenon, <1>1 DEF Consistent, Commits, IsCommitted
<1> QED BY Zenon, <1>2, <1>3 DEF Consistent

\* Sync runs before the index is synced, and no callback works then.
LEMMA SyncRuns ==
    ASSUME SyncInv, Running
    PROVE  ~m_synced /\ callback.pc = "idle" /\ Cur = sync.pindex /\ Alive
BY Zenon DEF Running, SyncInv, OneThread, Cur, TypeOK, CallbackType

\* Sync looks for the next block.
LEMMA SyncNextFound ==
    ASSUME SyncInv, Consistent, SyncNext
    PROVE  Consistent'
<1>1. ~m_synced /\ callback.pc = "idle" /\ Cur = sync.pindex /\ Alive
  BY Zenon, SyncRuns DEF SyncNext
<1>2. /\ UNCHANGED <<db, file, indexed, m_last_header, m_next_filter_pos, m_best_block_index,
                     callback, m_synced, events, tip, node, trouble>>
      /\ sync'.pindex = sync.pindex /\ sync'.pc \in {"commit", "work"}
  BY DEF SyncNext, memory, disk, chain, faults, SyncInv, TypeOK, SyncType
<1>3. DbType' /\ Entries' /\ NextFilter'
  BY Zenon, <1>1, <1>2, DataSame DEF Consistent, Cur
<1>4. Commits'
  BY Zenon, <1>1, <1>2 DEF Consistent, Commits, IsCommitted, Alive
<1> QED BY Zenon, <1>3, <1>4 DEF Consistent

\* Sync is over, or has another block to index.
LEMMA SyncRecheckFound ==
    ASSUME SyncInv, Consistent, SyncRecheck
    PROVE  Consistent'
<1>1. ~m_synced /\ callback.pc = "idle" /\ Cur = sync.pindex /\ Alive
  BY Zenon, SyncRuns DEF SyncRecheck
<1>2. m_best_block_index = sync.pindex /\ IsCommitted
  BY Zenon DEF SyncRecheck, SyncInv, OneThread, Consistent, Commits
<1>3. /\ UNCHANGED <<db, file, indexed, m_last_header, m_next_filter_pos, m_best_block_index,
                     callback, events, tip, node, trouble>>
      /\ \/ m_synced' = TRUE /\ sync'.pc = "idle"
         \/ m_synced' = m_synced /\ sync'.pindex = sync.pindex /\ sync'.pc = "work"
  <2>1. /\ UNCHANGED <<db, file, indexed, m_last_header, m_next_filter_pos, m_best_block_index,
                       callback, events, tip, node, trouble>>
        /\ \/ m_synced' = TRUE /\ sync' = Idle
           \/ /\ m_synced' = m_synced
              /\ sync' = [sync EXCEPT !.pc = "work", !.next = NextSyncBlock(sync.pindex)]
    BY Zenon DEF SyncRecheck, memory, disk, chain, faults
  <2>2. sync \in SyncType
    BY Zenon DEF SyncInv, TypeOK
  <2> DEFINE n == NextSyncBlock(sync.pindex)
  <2> HIDE DEF n
  <2>3. ASSUME sync' = [sync EXCEPT !.pc = "work", !.next = n]
        PROVE  sync'.pindex = sync.pindex /\ sync'.pc = "work"
    BY <2>2, <2>3 DEF SyncType
  <2>4. Idle.pc = "idle"
    BY DEF Idle
  <2> QED BY Zenon, <2>1, <2>3, <2>4 DEF n
<1>4. DbType' /\ Entries' /\ NextFilter'
  BY Zenon, <1>1, <1>2, <1>3, DataSame DEF Consistent, Cur
<1>5. Commits'
  BY Zenon, <1>1, <1>2, <1>3 DEF Consistent, Commits, IsCommitted, Alive
<1> QED BY Zenon, <1>4, <1>5 DEF Consistent

\* Commit of the block the index is at: if it fails nothing is written.
LEMMA CommitFound ==
    ASSUME SyncInv, Consistent, Cur \in MaybeBlock, Commit(Cur), Cur' = Cur,
           m_best_block_index' = Cur,
           UNCHANGED <<file, indexed, m_last_header, m_next_filter_pos>>
    PROVE  DbType' /\ Entries' /\ NextFilter' /\ IsCommitted'
<1>1. DbType /\ Entries /\ NextFilter /\ DOMAIN db = {"height", "hash", "pos", "best"}
  BY Zenon DEF Consistent, SyncInv, TypeOK
<1>2. db' = Committed(Cur) \/ (db' = db /\ trouble' # "none")
  BY Zenon, CommitFacts DEF SyncInv
<1>3. CASE db' = db /\ trouble' # "none"
  BY Zenon, <1>1, <1>3, DataSame DEF IsCommitted
<1>4. CASE db' = Committed(Cur) /\ Cur = NoBlock
  <2>1. db' = db /\ db.best = NoBlock /\ db.pos = 0 /\ m_next_filter_pos = 0
    BY <1>1, <1>4 DEF Committed, NextFilter
  <2> QED BY Zenon, <1>1, <1>4, <2>1, DataSame DEF IsCommitted
<1>5. CASE db' = Committed(Cur) /\ Cur # NoBlock
  <2>1. db' = [db EXCEPT !.pos = m_next_filter_pos, !.best = Cur]
    BY Zenon, <1>5 DEF Committed
  <2>2. db'.height = db.height /\ db'.hash = db.hash /\ db'.pos = m_next_filter_pos /\ db'.best = Cur
    BY <1>1, <2>1
  <2>3. DbType' /\ NextFilter' /\ IsCommitted'
    BY Zenon, <1>1, <1>5, <2>2 DEF DbType, NextFilter, IsCommitted
  <2>4. Entries'
    BY Zenon, <1>1, <2>2, EntriesSame
  <2> QED BY Zenon, <2>3, <2>4
<1> QED BY Zenon, <1>2, <1>3, <1>4, <1>5

\* Sync commits, periodically, before it looks again, or as it is interrupted.
LEMMA SyncCommitFound ==
    ASSUME SyncInv, Consistent, SyncCommit \/ SyncInterrupted
    PROVE  Consistent'
<1>1. ~m_synced /\ callback.pc = "idle" /\ Cur = sync.pindex /\ Alive
  BY Zenon, SyncRuns DEF SyncCommit, SyncInterrupted
<1>2. /\ UNCHANGED <<file, indexed, m_last_header, m_next_filter_pos, m_synced, callback, events, tip, node>>
      /\ m_best_block_index' = sync.pindex /\ Commit(sync.pindex) /\ sync.pindex \in MaybeBlock
  BY Zenon DEF SyncCommit, SyncInterrupted, chain, SyncInv, TypeOK, SyncType
<1>3. sync'.pc = "idle" \/ sync'.pindex = sync.pindex
  BY DEF SyncCommit, SyncInterrupted, SyncInv, TypeOK, SyncType, Idle
<1>4. Cur' = Cur
  BY Zenon, <1>1, <1>2, <1>3 DEF Cur
<1>5. DbType' /\ Entries' /\ NextFilter' /\ IsCommitted'
  BY Zenon, <1>1, <1>2, <1>4, CommitFound
<1>6. Commits'
  BY Zenon, <1>1, <1>2, <1>5 DEF Consistent, Commits, Alive
<1> QED BY Zenon, <1>5, <1>6 DEF Consistent

\* The queue of a node that is stopping, after an event was taken: what commits is
\* still its last event, or was the event taken.
LEMMA TakeCommits ==
    ASSUME SyncInv, Consistent, events # <<>>, node = "stopping"
    PROVE  /\ Tail(events) # <<>> =>
                Tail(events)[Len(Tail(events))] = [type |-> "ChainStateFlushed", block |-> tip]
           /\ Tail(events) = <<>> =>
                /\ Head(events) = [type |-> "ChainStateFlushed", block |-> tip]
                /\ DOMAIN events = {1} /\ Head(events) = events[1]
<1>1. /\ events \in Seq(EventType)
      /\ events[Len(events)] = [type |-> "ChainStateFlushed", block |-> tip]
  BY Zenon DEF SyncInv, TypeOK, Consistent, Commits
<1>2. Tail(events) # <<>> => Tail(events)[Len(Tail(events))] = events[Len(events)]
  BY Zenon, <1>1, TailFacts
<1>3. Tail(events) = <<>> => Len(events) = 1 /\ DOMAIN events = {1} /\ Head(events) = events[1]
  <2>1. Len(Tail(events)) = Len(events) - 1 /\ Len(events) \in Nat /\ DOMAIN events = 1..Len(events)
        /\ Head(events) = events[1] /\ Len(<<>>) = 0
    BY <1>1
  <2> QED BY <2>1
<1> QED BY Zenon, <1>1, <1>2, <1>3

\* BlockConnected takes a block, and does not index it yet.
LEMMA BlockConnectedFound ==
    ASSUME SyncInv, Consistent, BlockConnected
    PROVE  Consistent'
<1> DEFINE b == Head(events).block
<1>1. /\ Alive /\ callback.pc = "idle" /\ events # <<>> /\ Head(events).type = "BlockConnected"
      /\ events' = Tail(events)
      /\ callback' = IF MustIndex(b) THEN [pc |-> "work", pindex |-> m_best_block_index, next |-> b]
                     ELSE callback
      /\ UNCHANGED <<db, file, indexed, m_last_header, m_next_filter_pos, m_best_block_index,
                     sync, m_synced, tip, node, trouble>>
  BY Zenon DEF BlockConnected, chain, memory, disk, faults
<1> HIDE DEF b
<1>2. MustIndex(b) => callback'.pindex = m_best_block_index /\ m_synced /\ sync.pc = "idle"
  BY <1>1 DEF MustIndex, SyncInv, OneThread
<1>3. Cur' = Cur
  BY Zenon, <1>1, <1>2 DEF Cur
<1>4. DbType' /\ Entries' /\ NextFilter'
  BY Zenon, <1>1, <1>3, DataSame DEF Consistent
<1>5. ASSUME node = "stopping"
      PROVE  /\ Tail(events) # <<>>
             /\ Tail(events)[Len(Tail(events))] = [type |-> "ChainStateFlushed", block |-> tip]
  <2>1. [type |-> "ChainStateFlushed", block |-> tip].type # "BlockConnected"
    OBVIOUS
  <2> QED BY Zenon, <1>1, <1>5, <2>1, TakeCommits
<1>6. Commits'
  BY Zenon, <1>1, <1>5 DEF Consistent, Commits, IsCommitted, Alive
<1> QED BY Zenon, <1>4, <1>6 DEF Consistent

\* ChainStateFlushed commits.  When it is the last event of a node that is stopping
\* the tip has been indexed, so it does.
LEMMA ChainStateFlushedFound ==
    ASSUME SyncInv, Consistent, ChainStateFlushed, trouble # "fatal"
    PROVE  Consistent'
<1> DEFINE commit == m_synced /\ IsAncestor(Head(events).block, m_best_block_index)
<1>1. /\ Alive /\ callback.pc = "idle" /\ events # <<>> /\ Head(events).type = "ChainStateFlushed"
      /\ events' = Tail(events)
      /\ IF commit THEN Commit(m_best_block_index) ELSE UNCHANGED <<db, trouble, bounds>>
      /\ UNCHANGED <<file, indexed, m_last_header, m_next_filter_pos, m_best_block_index,
                     sync, callback, m_synced, tip, node>>
  BY Zenon DEF ChainStateFlushed, chain, memory, disk
<1>2. m_synced => sync.pc = "idle" /\ Cur = m_best_block_index
  BY Zenon, <1>1 DEF SyncInv, OneThread, Cur
<1>3. Cur' = Cur
  BY Zenon, <1>1 DEF Cur
<1>4. DbType' /\ Entries' /\ NextFilter' /\ (commit => IsCommitted')
  <2>1. CASE commit
    <3>1. Commit(Cur) /\ m_best_block_index' = Cur /\ Cur \in MaybeBlock
      BY Zenon, <1>1, <1>2, <2>1 DEF SyncInv, TypeOK
    <3> QED BY Zenon, <1>1, <1>3, <3>1, CommitFound
  <2>2. CASE ~commit
    <3>1. db' = db
      BY Zenon, <1>1, <2>2
    <3> QED BY Zenon, <1>1, <1>3, <2>2, <3>1, DataSame DEF Consistent
  <2> QED BY Zenon, <2>1, <2>2
<1>5. ~commit => db' = db /\ trouble' = trouble
  BY Zenon, <1>1
<1>6. ASSUME node = "stopping", Tail(events) = <<>>, m_synced PROVE commit
  <2>1. /\ Head(events) = [type |-> "ChainStateFlushed", block |-> tip]
        /\ DOMAIN events = {1} /\ Head(events) = events[1]
    BY Zenon, <1>1, <1>6, TakeCommits
  <2>2. Head(events).block = tip
    BY <2>1
  <2>3. Leads(tip, events, m_best_block_index, 0)
    BY Zenon, <1>1, <1>6 DEF SyncInv, Handover, Following, Base
  <2>4. IsAncestor(tip, m_best_block_index)
    BY Zenon, <1>1, <2>1, <2>3 DEF Leads, IsConnect
  <2> QED BY Zenon, <1>6, <2>2, <2>4
<1>7. ASSUME node = "stopping", Tail(events) # <<>>
      PROVE  Tail(events)[Len(Tail(events))] = [type |-> "ChainStateFlushed", block |-> tip]
  BY Zenon, <1>1, <1>7, TakeCommits
<1>8. commit => m_synced
  BY Zenon
<1> HIDE DEF commit
<1>9. (sync.pc = "recheck" \/ ~m_synced) => ~commit
  BY Zenon, <1>2, <1>8
<1>10. Commits'
  <2>1. (sync.pc = "recheck" => IsCommitted)'
    BY Zenon, <1>1, <1>5, <1>9 DEF Consistent, Commits, IsCommitted
  <2>2. (~m_synced /\ sync.pc = "idle" => IsCommitted)'
    BY Zenon, <1>1, <1>5, <1>9 DEF Consistent, Commits, IsCommitted
  <2> QED BY Zenon, <1>1, <1>4, <1>6, <1>7, <2>1, <2>2 DEF Commits, Alive
<1> QED BY Zenon, <1>4, <1>10 DEF Consistent

\* The index rewinds by one block: the height entry of the block is copied to the
\* hash index and the header of the block before it is found.
LEMMA RewindFound ==
    ASSUME SyncInv, Consistent, Cur \in Blocks, pprev(Cur) \in Blocks,
           CustomRemove(Cur), Cur' = pprev(Cur)
    PROVE  DbType' /\ Entries' /\ NextFilter' /\ node' = node
<1> DEFINE c == Cur
           p == pprev(Cur)
           e == db.height[Height(Cur)]
<1>1. /\ DbType /\ Entries /\ NextFilter /\ DOMAIN db = {"height", "hash", "pos", "best"}
      /\ NoBlock \notin Blocks
  BY Zenon, TreeAssumption DEF Consistent, SyncInv, TypeOK
<1>2. /\ IsAncestor(c, c) /\ IsAncestor(p, c) /\ \A b \in Blocks : IsAncestor(b, p) => IsAncestor(b, c)
      /\ \A b \in Blocks : IsAncestor(b, c) /\ b # c => IsAncestor(b, p)
  BY Zenon, AncestorOrder, AncestorStep DEF MaybeBlock
<1>3. AtHeight(c) /\ AtHeight(p) /\ e.block = c
  BY Zenon, <1>1, <1>2 DEF Entries, AtHeight
<1>4. Height(c) \in Heights /\ Height(p) \in Heights
  BY Zenon, PprevFacts
<1>5. GoodEntry(e, c) /\ GoodEntry(db.height[Height(p)], p)
  BY Zenon, <1>1, <1>3, <1>4 DEF Entries, AtHeight
<1>6. /\ db'.height = db.height /\ db'.best = db.best /\ db'.hash = [db.hash EXCEPT ![c] = e]
      /\ UNCHANGED <<file, indexed, m_next_filter_pos, node>>
      /\ m_last_header' = db.height[Height(p)].header
  <2>1. /\ db' = Removed(c) /\ UNCHANGED <<file, indexed, m_next_filter_pos, node>>
        /\ m_last_header' = db.height[Height(p)].header
    BY Zenon, <1>3 DEF CustomRemove, HeaderFound, AtHeight
  <2>2. db'.hash = [db.hash EXCEPT ![e.block] = e]
    BY Zenon, <1>1, <1>3, <2>1, RemovedFacts
  <2> QED BY Zenon, <1>1, <1>3, <2>1, <2>2, RemovedFacts
<1>7. DOMAIN db.hash = Blocks /\ c \in Blocks
  BY Zenon, <1>1 DEF DbType
<1> HIDE DEF c, p, e
<1>8. DOMAIN db'.hash = Blocks /\ db'.hash[c] = e
      /\ \A b \in Blocks : b # c => db'.hash[b] = db.hash[b]
  BY Zenon, <1>6, <1>7
<1>9. DbType'
  BY Zenon, <1>1, <1>6, <1>8 DEF DbType
<1>10. NextFilter'
  <2>1. p # NoBlock /\ Cur' = p /\ m_last_header' = Path[p]
    BY Zenon, <1>1, <1>5, <1>6 DEF p, GoodEntry
  <2> QED BY Zenon, <1>1, <1>6, <2>1 DEF NextFilter, PathTo
<1>11. Entries'
  <2>1. \A x, b : GoodEntry(x, b)' <=> GoodEntry(x, b)
    BY Zenon, <1>6 DEF GoodEntry
  <2>2. \A b \in Blocks : AtHeight(b)' <=> AtHeight(b)
    BY Zenon, <1>6 DEF AtHeight
  <2>3. \A b \in Blocks : AtHash(b)' <=> AtHash(b) \/ b = c
    <3>1. \A b \in Blocks : b = c => AtHash(b)'
      BY Zenon, <1>3, <1>8 DEF AtHash
    <3>2. \A b \in Blocks : b # c => (AtHash(b)' <=> AtHash(b))
      BY Zenon, <1>8 DEF AtHash
    <3> QED BY Zenon, <3>1, <3>2
  <2>4. (\A h \in Heights : db.height[h].block \in MaybeBlock)'
    BY Zenon, <1>1, <1>6 DEF Entries
  <2>5. (\A h \in Heights, b \in Blocks :
           db.height[h].block = b => Height(b) = h /\ GoodEntry(db.height[h], b))'
    BY Zenon, <1>1, <1>6, <2>1 DEF Entries
  <2>6. \A b \in Blocks : AtHash(b)' => GoodEntry(db'.hash[b], b)
    BY Zenon, <1>1, <1>5, <1>8, <2>3 DEF Entries
  <2>7. (\A b \in Blocks : AtHash(b) => GoodEntry(db.hash[b], b))'
    BY Zenon, <2>1, <2>6
  <2>8. Cur' = p
    BY Zenon DEF p
  <2>9. (\A b \in Blocks : IsAncestor(b, Cur) => AtHeight(b))'
    BY Zenon, <1>1, <1>2, <2>2, <2>8 DEF Entries, c
  <2>10. (\A b \in Blocks : AtHeight(b) /\ ~IsAncestor(b, Cur) => AtHash(b))'
    BY Zenon, <1>1, <1>2, <2>2, <2>3, <2>8 DEF Entries, c
  <2>11. (\A b \in indexed : AtHeight(b) \/ AtHash(b))'
    BY Zenon, <1>1, <1>6, <2>2, <2>3 DEF Entries, DbType
  <2> QED BY Zenon, <2>4, <2>5, <2>7, <2>9, <2>10, <2>11 DEF Entries
<1> QED BY Zenon, <1>6, <1>9, <1>10, <1>11

\* The index appends a block to the one it is at.  An entry it overwrites is that of
\* a block which has been rewound, and so is in the hash index.
LEMMA AppendFound ==
    ASSUME SyncInv, Consistent, NEW n \in Blocks, pprev(n) = Cur, CustomAppend(n), Cur' = n
    PROVE  DbType' /\ Entries' /\ NextFilter'
<1> DEFINE e == [block |-> n, header |-> Append(m_last_header, n), pos |-> m_next_filter_pos]
<1>1. /\ DbType /\ Entries /\ NextFilter /\ DOMAIN db = {"height", "hash", "pos", "best"}
      /\ NoBlock \notin Blocks /\ file \in Seq(Blocks)
  BY Zenon, TreeAssumption DEF Consistent, SyncInv, TypeOK, DbType
<1>2. /\ db'.hash = db.hash /\ db'.height = [db.height EXCEPT ![Height(n)] = e]
      /\ indexed' = indexed \cup {n} /\ m_last_header' = Append(m_last_header, n)
      /\ m_next_filter_pos' = m_next_filter_pos + 1
  BY Zenon, <1>1, AppendedFacts DEF CustomAppend
<1>3. file' = Append(file, n)
  <2>1. m_next_filter_pos = Len(file) /\ Len(file) \in Nat
    BY <1>1 DEF NextFilter
  <2> QED BY <2>1 DEF CustomAppend
<1>4. /\ file' \in Seq(Blocks) /\ Len(file) \in Nat /\ Len(file') = Len(file) + 1
      /\ file'[Len(file) + 1] = n
      /\ \A i \in Nat : i < Len(file) => i < Len(file') /\ file'[i + 1] = file[i + 1]
      /\ Len(file) < Len(file')
  BY <1>1, <1>3
<1>5. Append(m_last_header, n) = Path[n] /\ Height(n) \in Heights
  BY Zenon, <1>1, PprevFacts DEF NextFilter
<1>6. e.block = n /\ e.header = Path[n] /\ e.pos = Len(file)
  BY <1>1, <1>5 DEF NextFilter
<1> HIDE DEF e
<1>7. /\ DOMAIN db'.height = Heights /\ db'.height[Height(n)] = e
      /\ \A h \in Heights : h # Height(n) => db'.height[h] = db.height[h]
  BY Zenon, <1>1, <1>2, <1>5 DEF DbType
<1>8. DbType'
  BY Zenon, <1>1, <1>2, <1>4, <1>7 DEF DbType
<1>9. NextFilter'
  BY Zenon, <1>1, <1>2, <1>4, <1>5 DEF NextFilter, PathTo
<1>10. \A x, b : GoodEntry(x, b) => GoodEntry(x, b)'
  BY Zenon, <1>4 DEF GoodEntry
<1>11. e.pos \in Nat /\ e.pos < Len(file') /\ file'[e.pos + 1] = n
  BY Zenon, <1>4, <1>6
<1>12. \A b \in Blocks : Height(b) \in Heights
  BY Zenon, PprevFacts
<1>13. \A b \in Blocks : Height(b) # Height(n) => (AtHeight(b)' <=> AtHeight(b))
  BY Zenon, <1>7, <1>12 DEF AtHeight
<1>14. \A b \in Blocks : Height(b) = Height(n) => (AtHeight(b)' <=> b = n)
  BY Zenon, <1>6, <1>7 DEF AtHeight
<1>15. \A b \in Blocks : AtHash(b)' <=> AtHash(b)
  BY Zenon, <1>2 DEF AtHash
<1>16. /\ \A b \in Blocks : IsAncestor(b, Cur) => Height(b) # Height(n)
       /\ \A b \in Blocks : IsAncestor(b, Cur) => IsAncestor(b, n)
       /\ \A b \in Blocks : IsAncestor(b, n) /\ b # n => IsAncestor(b, Cur)
       /\ IsAncestor(n, n)
  <2>1. IsAncestor(pprev(n), n) /\ pprev(n) \in MaybeBlock
    BY Zenon, AncestorStep, PprevFacts DEF MaybeBlock
  <2> QED BY Zenon, <2>1, AncestorStep, AncestorOrder, HigherThan DEF MaybeBlock
<1>17. Entries'
  <2>1. \A h \in Heights : db'.height[h].block \in MaybeBlock
    BY Zenon, <1>1, <1>6, <1>7 DEF Entries, MaybeBlock
  <2>2. ASSUME NEW h \in Heights, NEW b \in Blocks, db'.height[h].block = b
        PROVE  Height(b) = h /\ GoodEntry(db.height[h], b)'
    <3>1. CASE h = Height(n)
      <4>1. db'.height[h] = e /\ b = n
        BY Zenon, <1>6, <1>7, <2>2, <3>1
      <4> QED BY Zenon, <1>6, <1>11, <3>1, <4>1 DEF GoodEntry
    <3>2. CASE h # Height(n)
      <4>1. db'.height[h] = db.height[h]
        BY Zenon, <1>7, <3>2
      <4>2. Height(b) = h /\ GoodEntry(db.height[h], b)
        BY Zenon, <1>1, <2>2, <4>1 DEF Entries
      <4> QED BY Zenon, <1>4, <4>1, <4>2 DEF GoodEntry
    <3> QED BY Zenon, <3>1, <3>2
  <2>3. ASSUME NEW b \in Blocks, AtHash(b)'
        PROVE  GoodEntry(db.hash[b], b)'
    <3>1. GoodEntry(db.hash[b], b) /\ db'.hash[b] = db.hash[b]
      BY Zenon, <1>1, <1>2, <1>15, <2>3 DEF Entries
    <3> QED BY Zenon, <1>4, <3>1 DEF GoodEntry
  <2>4. ASSUME NEW b \in Blocks, IsAncestor(b, n) PROVE AtHeight(b)'
    BY Zenon, <1>1, <1>13, <1>14, <1>16, <2>4 DEF Entries
  <2>5. ASSUME NEW b \in Blocks, AtHeight(b)', ~IsAncestor(b, n) PROVE AtHash(b)'
    BY Zenon, <1>1, <1>13, <1>14, <1>15, <1>16, <2>5 DEF Entries
  <2>6. ASSUME NEW b \in indexed' PROVE AtHeight(b)' \/ AtHash(b)'
    <3>1. CASE b = n
      BY Zenon, <1>14, <3>1
    <3>2. CASE b # n
      <4>1. b \in indexed /\ b \in Blocks
        BY Zenon, <1>1, <1>2, <2>6, <3>2 DEF DbType
      <4>2. AtHeight(b) \/ AtHash(b)
        BY Zenon, <1>1, <4>1 DEF Entries
      <4>3. AtHeight(b) /\ Height(b) = Height(n) => AtHash(b)
        BY Zenon, <1>1, <1>16, <4>1 DEF Entries
      <4> QED BY Zenon, <1>13, <1>15, <4>1, <4>2, <4>3
    <3> QED BY Zenon, <3>1, <3>2
  <2> QED BY Zenon, <2>1, <2>2, <2>3, <2>4, <2>5, <2>6 DEF Entries
<1> QED BY Zenon, <1>8, <1>9, <1>17

\* Sync rewinds or appends.
LEMMA SyncWorkFound ==
    ASSUME SyncInv, Consistent, SyncRewind \/ SyncAppend
    PROVE  Consistent'
<1>1. ~m_synced /\ callback.pc = "idle" /\ Cur = sync.pindex /\ Alive
  BY Zenon, SyncRuns DEF SyncRewind, SyncAppend
<1>2. /\ sync \in SyncType /\ sync.pindex \in MaybeBlock /\ sync.pc = "work" /\ Target(sync)
      /\ UNCHANGED <<m_synced, callback, events, tip>>
  BY Zenon DEF SyncInv, TypeOK, SyncType, OneThread, SyncRewind, SyncAppend, RewindStep, AppendStep, chain
<1>3. CASE SyncRewind
  <2>1. /\ pprev(sync.next) # sync.pindex /\ CustomRemove(sync.pindex)
        /\ sync' = [sync EXCEPT !.pindex = pprev(sync.pindex)]
    BY Zenon, <1>3 DEF SyncRewind, RewindStep
  <2>2. sync.pindex \in Blocks /\ pprev(sync.pindex) \in Blocks
    BY Zenon, <1>2, <2>1, RewindTarget DEF Target
  <2>3. sync'.pc = "work" /\ sync'.pindex = pprev(sync.pindex)
    BY <1>2, <2>1 DEF SyncType
  <2>4. Cur' = pprev(Cur)
    BY Zenon, <1>1, <2>3 DEF Cur
  <2>5. DbType' /\ Entries' /\ NextFilter' /\ node' = node
    BY Zenon, <1>1, <2>1, <2>2, <2>4, RewindFound
  <2>6. Commits'
    BY Zenon, <1>1, <1>2, <2>3, <2>5 DEF Consistent, Commits, Alive
  <2> QED BY Zenon, <2>5, <2>6 DEF Consistent
<1>4. CASE SyncAppend
  <2>1. /\ pprev(sync.next) = sync.pindex /\ CustomAppend(sync.next) /\ node' = node
        /\ \E pc \in {"loop", "periodic"} : sync' = [pc |-> pc, pindex |-> sync.next, next |-> NoBlock]
    BY Zenon, <1>4 DEF SyncAppend, AppendStep
  <2>2. sync'.pc \in {"loop", "periodic"} /\ sync'.pindex = sync.next
    BY <2>1
  <2>3. Cur' = sync.next /\ sync.next \in Blocks
    BY Zenon, <1>2, <2>2 DEF Cur, Target
  <2>4. DbType' /\ Entries' /\ NextFilter'
    BY Zenon, <1>1, <2>1, <2>3, AppendFound
  <2>5. Commits'
    BY Zenon, <1>1, <1>2, <2>1, <2>2 DEF Consistent, Commits, Alive
  <2> QED BY Zenon, <2>4, <2>5 DEF Consistent
<1> QED BY Zenon, <1>3, <1>4

\* BlockConnected rewinds or appends: never on a node that is stopping with nothing
\* left in its queue.
LEMMA CallbackWorkFound ==
    ASSUME SyncInv, Consistent, BlockConnectedRewind \/ BlockConnectedAppend
    PROVE  Consistent'
<1>1. /\ Alive /\ callback.pc = "work" /\ UNCHANGED <<m_synced, sync, events, tip>>
  BY Zenon DEF BlockConnectedRewind, BlockConnectedAppend, RewindStep, AppendStep, chain
<1>2. /\ callback \in CallbackType /\ callback.pindex \in MaybeBlock /\ Target(callback)
      /\ m_synced /\ sync.pc = "idle" /\ Cur = callback.pindex
  BY Zenon, <1>1 DEF SyncInv, TypeOK, CallbackType, OneThread, Cur
<1>3. /\ ~(node = "stopping" /\ events = <<>>) /\ node # "down"
  BY Zenon, <1>1 DEF Consistent, Commits, Alive
<1>4. ASSUME node' = node PROVE Commits'
  BY Zenon, <1>1, <1>2, <1>3, <1>4 DEF Consistent, Commits
<1>5. CASE BlockConnectedRewind
  <2>1. /\ pprev(callback.next) # callback.pindex /\ CustomRemove(callback.pindex)
        /\ callback' = [callback EXCEPT !.pindex = pprev(callback.pindex)]
    BY Zenon, <1>5 DEF BlockConnectedRewind, RewindStep
  <2>2. callback.pindex \in Blocks /\ pprev(callback.pindex) \in Blocks
    BY Zenon, <1>2, <2>1, RewindTarget DEF Target
  <2>3. callback'.pc = "work" /\ callback'.pindex = pprev(callback.pindex)
    BY <1>1, <1>2, <2>1 DEF CallbackType
  <2>4. Cur' = pprev(Cur)
    BY Zenon, <1>1, <1>2, <2>3 DEF Cur
  <2>5. DbType' /\ Entries' /\ NextFilter' /\ node' = node
    BY Zenon, <1>2, <2>1, <2>2, <2>4, RewindFound
  <2> QED BY Zenon, <1>4, <2>5 DEF Consistent
<1>6. CASE BlockConnectedAppend
  <2>1. /\ pprev(callback.next) = callback.pindex /\ CustomAppend(callback.next) /\ node' = node
        /\ callback' = Idle /\ m_best_block_index' = callback.next
    BY Zenon, <1>6 DEF BlockConnectedAppend, AppendStep
  <2>2. callback'.pc = "idle"
    BY <2>1 DEF Idle
  <2>3. Cur' = callback.next /\ callback.next \in Blocks
    BY Zenon, <1>1, <1>2, <2>1, <2>2 DEF Cur, Target
  <2>4. DbType' /\ Entries' /\ NextFilter'
    BY Zenon, <1>2, <2>1, <2>3, AppendFound
  <2> QED BY Zenon, <1>4, <2>1, <2>4 DEF Consistent
<1> QED BY Zenon, <1>5, <1>6

\* Init() of a node that was stopped cleanly finds the state the index was in.
LEMMA StartFound ==
    ASSUME SyncInv, Consistent, Start, node' # "initerror", ~lost
    PROVE  Consistent'
<1>1. /\ node = "down" /\ node' = "up" /\ m_best_block_index' = db.best
      /\ m_next_filter_pos' = db.pos
      /\ m_last_header' = IF db.best = NoBlock THEN <<>> ELSE db.height[Height(db.best)].header
      /\ indexed' = Range(PathTo(db.best))
      /\ sync' = IF m_synced' THEN Idle ELSE [pc |-> "loop", pindex |-> db.best, next |-> NoBlock]
      /\ UNCHANGED <<events, callback, db, file, lost>> /\ trouble' = "none"
  BY Zenon DEF Start
<1>2. /\ sync.pc = "idle" /\ callback.pc = "idle" /\ db.best \in MaybeBlock
      /\ db.best = m_best_block_index /\ db.pos = m_next_filter_pos /\ Cur = db.best
  BY Zenon, <1>1 DEF SyncInv, OneThread, TypeOK, Consistent, Commits, IsCommitted, Cur
<1>3. /\ m_synced' => sync'.pc = "idle"
      /\ ~m_synced' => sync'.pc = "loop" /\ sync'.pindex = db.best
  BY <1>1 DEF Idle
<1>4. Cur' = Cur
  BY Zenon, <1>1, <1>2, <1>3 DEF Cur
<1>5. DbType /\ Entries /\ NextFilter /\ NoBlock \notin Blocks
  BY Zenon, TreeAssumption DEF Consistent
<1>6. \A b \in indexed' : b \in Blocks /\ IsAncestor(b, db.best)
  <2>1. CASE db.best = NoBlock
    <3>1. Range(<<>>) = {}
      BY DEF Range
    <3> QED BY Zenon, <1>1, <2>1, <3>1 DEF PathTo
  <2>2. CASE db.best # NoBlock
    <3>1. db.best \in Blocks /\ indexed' = Range(Path[db.best])
      BY Zenon, <1>1, <1>2, <2>2 DEF PathTo, MaybeBlock
    <3>2. /\ DOMAIN Path[db.best] = 1..Len(Path[db.best])
          /\ \A i \in 1..Len(Path[db.best]) : Path[db.best][i] \in Blocks
      BY Zenon, <3>1, PathFacts
    <3> QED BY Zenon, <2>2, <3>1, <3>2 DEF Range, IsAncestor
  <2> QED BY Zenon, <2>1, <2>2
<1>7. m_last_header' = PathTo(db.best)
  <2>1. ASSUME db.best # NoBlock PROVE db.height[Height(db.best)].header = Path[db.best]
    <3>1. db.best \in Blocks /\ Height(db.best) \in Heights /\ IsAncestor(db.best, Cur)
      BY Zenon, <1>2, <2>1, PprevFacts, AncestorOrder DEF MaybeBlock
    <3> QED BY Zenon, <1>5, <3>1 DEF Entries, AtHeight, GoodEntry
  <2> QED BY Zenon, <1>1, <2>1 DEF PathTo
<1>8. DbType'
  BY Zenon, <1>1, <1>5, <1>6 DEF DbType
<1>9. NextFilter'
  BY Zenon, <1>1, <1>2, <1>4, <1>5, <1>7 DEF NextFilter
<1>10. Entries'
  <2>1. \A e, b : GoodEntry(e, b)' <=> GoodEntry(e, b)
    BY Zenon, <1>1 DEF GoodEntry
  <2>2. \A b : (AtHeight(b)' <=> AtHeight(b)) /\ (AtHash(b)' <=> AtHash(b))
    BY Zenon, <1>1 DEF AtHeight, AtHash
  <2>3. (\A h \in Heights : db.height[h].block \in MaybeBlock)'
    BY Zenon, <1>1, <1>5 DEF Entries
  <2>4. (\A h \in Heights, b \in Blocks :
           db.height[h].block = b => Height(b) = h /\ GoodEntry(db.height[h], b))'
    BY Zenon, <1>1, <1>5, <2>1 DEF Entries
  <2>5. (\A b \in Blocks : AtHash(b) => GoodEntry(db.hash[b], b))'
    BY Zenon, <1>1, <1>5, <2>1, <2>2 DEF Entries
  <2>6. /\ (\A b \in Blocks : IsAncestor(b, Cur) => AtHeight(b))'
        /\ (\A b \in Blocks : AtHeight(b) /\ ~IsAncestor(b, Cur) => AtHash(b))'
    BY Zenon, <1>4, <1>5, <2>2 DEF Entries
  <2>7. (\A b \in indexed : AtHeight(b) \/ AtHash(b))'
    BY Zenon, <1>2, <1>5, <1>6, <2>2 DEF Entries
  <2> QED BY Zenon, <2>3, <2>4, <2>5, <2>6, <2>7 DEF Entries
<1>11. Commits'
  BY Zenon, <1>1, <1>3 DEF Commits
<1> QED BY Zenon, <1>8, <1>9, <1>10, <1>11 DEF Consistent

\* An index that has just been enabled is empty.
LEMMA InitFound == Init => Consistent
<1> SUFFICES ASSUME Init PROVE Consistent
  BY Zenon
<1>1. /\ m_best_block_index = NoBlock /\ m_last_header = <<>> /\ m_next_filter_pos = 0
      /\ sync.pc = "idle" /\ callback.pc = "idle" /\ file = <<>> /\ indexed = {}
      /\ node = "down" /\ db.pos = 0 /\ db.best = NoBlock
      /\ db.height = [h \in Heights |-> NoEntry] /\ db.hash = [b \in Blocks |-> NoEntry]
  BY DEF Init, Idle
<1>2. NoEntry.block = NoBlock /\ NoBlock \notin Blocks /\ file \in Seq(Blocks) /\ Len(file) = 0
  BY <1>1, TreeAssumption DEF NoEntry
<1>3. Cur = NoBlock /\ PathTo(Cur) = <<>>
  BY Zenon, <1>1 DEF Cur, PathTo
<1>4. /\ \A h \in Heights : db.height[h].block = NoBlock
      /\ \A b \in Blocks : db.hash[b].block = NoBlock
  BY Zenon, <1>1, <1>2
<1>5. \A b \in Blocks : Height(b) \in Heights
  BY Zenon, PprevFacts
<1>6. \A b \in Blocks : ~AtHeight(b) /\ ~AtHash(b) /\ ~IsAncestor(b, Cur)
  BY Zenon, <1>2, <1>3, <1>4, <1>5 DEF AtHeight, AtHash, IsAncestor
<1>7. DbType /\ NextFilter /\ Commits
  BY Zenon, <1>1, <1>2, <1>3 DEF DbType, NextFilter, Commits, IsCommitted
<1>8. Entries
  BY Zenon, <1>1, <1>2, <1>4, <1>6 DEF Entries, MaybeBlock
<1> QED BY Zenon, <1>7, <1>8 DEF Consistent

\* Every step keeps what has been indexed findable, until the node goes down
\* with index state uncommitted.
LEMMA StepFound ==
    ASSUME SyncInv, FoundInv, [Next]_vars, SyncInv'
    PROVE  FoundInv'
<1> SUFFICES ASSUME Sound', node' \in {"up", "stopping", "down"}
             PROVE  Consistent'
  BY Zenon DEF FoundInv
<1>0. ASSUME lost' = lost, trouble = "fatal" => trouble' = "fatal",
             node \in {"up", "stopping", "down"}
      PROVE  Consistent /\ trouble # "fatal"
  BY Zenon, <1>0 DEF FoundInv, Sound
<1>1. ASSUME NEW b \in Blocks, ConnectTip(b) PROVE Consistent'
  <2>1. Consistent /\ node = "up"
    BY Zenon, <1>0, <1>1 DEF ConnectTip, faults
  <2> QED BY Zenon, <1>1, <2>1, ChainFound DEF ConnectTip, memory, disk, faults
<1>2. CASE DisconnectTip
  <2>1. Consistent /\ node = "up"
    BY Zenon, <1>0, <1>2 DEF DisconnectTip, faults
  <2> QED BY Zenon, <1>2, <2>1, ChainFound DEF DisconnectTip, memory, disk, faults
<1>3. CASE FlushStateToDisk
  <2>1. Consistent /\ node = "up"
    BY Zenon, <1>0, <1>3 DEF FlushStateToDisk, faults
  <2> QED BY Zenon, <1>3, <2>1, ChainFound DEF FlushStateToDisk, memory, disk, faults
<1>4. CASE InterruptIndex
  <2>1. Consistent /\ node = "up"
    BY Zenon, <1>0, <1>4 DEF InterruptIndex, faults
  <2> QED BY Zenon, <1>4, <2>1, ChainFound DEF InterruptIndex, memory, disk, faults
<1>5. CASE ShutdownFlush
  <2>1. Consistent /\ node = "up" /\ tip' = tip
    BY Zenon, <1>0, <1>5 DEF ShutdownFlush, faults
  <2> DEFINE e == [type |-> "ChainStateFlushed", block |-> tip]
  <2>2. events' = Append(events, e) /\ events \in Seq(EventType) /\ e \in EventType
    BY <1>5 DEF ShutdownFlush, SyncInv, TypeOK, EventType
  <2> HIDE DEF e
  <2>3. events' # <<>> /\ events'[Len(events')] = e
    BY <2>2
  <2>4. e = [type |-> "ChainStateFlushed", block |-> tip']
    BY Zenon, <2>1 DEF e
  <2> QED BY Zenon, <1>5, <2>1, <2>3, <2>4, ChainFound DEF ShutdownFlush, memory, disk, faults
<1>6. CASE SyncStep
  <2>1. trouble' # "fatal" /\ TypeOK
    BY Zenon DEF Sound, SyncInv
  <2>2. ~SyncFatal
    BY Zenon, <2>1 DEF SyncFatal, FatalErrorf
  <2>3. sync.pindex \in MaybeBlock
    BY Zenon, <2>1 DEF TypeOK, SyncType
  <2>4. CASE SyncCommit \/ SyncInterrupted
    <3>1. /\ lost' = lost /\ Commit(sync.pindex) /\ node \in {"up", "stopping", "down"}
      BY Zenon, <2>4 DEF SyncCommit, SyncInterrupted, Running, Alive
    <3>2. trouble = "fatal" => trouble' = "fatal"
      BY Zenon, <2>1, <2>3, <3>1, CommitFacts
    <3> QED BY Zenon, <1>0, <2>4, <3>1, <3>2, SyncCommitFound
  <2>5. CASE SyncNext \/ SyncRecheck \/ SyncRewind \/ SyncAppend
    <3>1. lost' = lost /\ trouble' = trouble /\ node \in {"up", "stopping", "down"}
      BY Zenon, <2>5 DEF SyncNext, SyncRecheck, SyncRewind, SyncAppend, Running, Alive, faults
    <3>2. Consistent
      BY Zenon, <1>0, <3>1
    <3> QED BY Zenon, <2>5, <3>2, SyncNextFound, SyncRecheckFound, SyncWorkFound
  <2> QED BY Zenon, <1>6, <2>2, <2>4, <2>5 DEF SyncStep
<1>7. CASE CallbackStep
  <2>1. trouble' # "fatal" /\ TypeOK /\ m_best_block_index \in MaybeBlock
    BY Zenon DEF Sound, SyncInv, TypeOK
  <2>2. ~BlockConnectedFatal
    BY Zenon, <2>1 DEF BlockConnectedFatal, FatalErrorf
  <2>3. CASE ChainStateFlushed
    <3>1. /\ lost' = lost /\ (Commit(m_best_block_index) \/ trouble' = trouble)
          /\ node \in {"up", "stopping", "down"}
      BY Zenon, <2>3 DEF ChainStateFlushed, Alive
    <3>2. trouble = "fatal" => trouble' = "fatal"
      BY Zenon, <2>1, <3>1, CommitFacts
    <3> QED BY Zenon, <1>0, <2>3, <3>1, <3>2, ChainStateFlushedFound
  <2>4. CASE BlockConnected \/ BlockConnectedRewind \/ BlockConnectedAppend
    <3>1. lost' = lost /\ trouble' = trouble /\ node \in {"up", "stopping", "down"}
      BY Zenon, <2>4 DEF BlockConnected, BlockConnectedRewind, BlockConnectedAppend, Alive, faults
    <3>2. Consistent
      BY Zenon, <1>0, <3>1
    <3> QED BY Zenon, <2>4, <3>2, BlockConnectedFound, CallbackWorkFound
  <2> QED BY Zenon, <1>7, <2>2, <2>3, <2>4 DEF CallbackStep
<1>8. CASE Stop
  <2>1. node = "stopping" /\ trouble' = trouble /\ lost' = (lost \/ trouble # "none")
    BY Zenon, <1>8 DEF Stop
  <2>2. ~lost /\ trouble # "fatal"
    BY Zenon, <2>1 DEF Sound
  <2>3. Consistent
    BY Zenon, <2>1, <2>2 DEF FoundInv, Sound
  <2> QED BY Zenon, <1>8, <2>3, StopFound
<1>9. CASE Crash
  <2>1. lost'
    BY Zenon, <1>9 DEF Crash
  <2> QED BY Zenon, <2>1 DEF Sound
<1>10. CASE Start
  <2>1. node = "down" /\ node' # "initerror" /\ ~lost
    BY Zenon, <1>10 DEF Start, Sound
  <2>2. trouble = "none"
    BY Zenon, <2>1 DEF SyncInv, OneThread
  <2>3. Consistent
    BY Zenon, <2>1, <2>2 DEF FoundInv, Sound
  <2> QED BY Zenon, <1>10, <2>1, <2>3, StartFound
<1>11. CASE UNCHANGED vars
  <2>1. UNCHANGED <<db, file, indexed, m_last_header, m_next_filter_pos, m_best_block_index,
                    sync, callback, m_synced, node, events, tip, trouble, lost>>
    BY Zenon, <1>11 DEF vars, chain, memory, disk, faults
  <2>2. Consistent
    BY Zenon, <1>0, <2>1
  <2>3. DbType' /\ Entries' /\ NextFilter'
    BY Zenon, <2>1, <2>2, DataSame DEF Consistent, Cur
  <2>4. Commits'
    BY Zenon, <2>1, <2>2 DEF Consistent, Commits, IsCommitted
  <2> QED BY Zenon, <2>3, <2>4 DEF Consistent
<1> QED BY Zenon, <1>1, <1>2, <1>3, <1>4, <1>5, <1>6, <1>7, <1>8, <1>9, <1>10, <1>11 DEF Next
-----------------------------------------------------------------------------
(* The theorems. *)

INSTANCE WellFoundedInduction

\* A set of natural numbers has a least one.
LEMMA NumbersOrdered == LeastExists
<1> SUFFICES ASSUME NEW T \in SUBSET Nat, T # {} PROVE \E m \in T : \A n \in T : m <= n
  BY Zenon DEF LeastExists
<1>1. PICK m \in T : \A n \in T : ~(<<n, m>> \in OpToRel(<, Nat))
  BY NatLessThanWellFounded, WFMin, Zenon
<1>2. ASSUME NEW n \in T PROVE m <= n
  <2>1. ~(<<n, m>> \in {x \in Nat \X Nat : x[1] < x[2]})
    BY <1>1, Zenon DEF OpToRel
  <2> QED BY <2>1
<1> QED BY Zenon, <1>2

\* IndexInv is inductive: the two threads never work at once, every queued block and
\* the block the index is at lead to the tip, and the database holds what the index
\* has been told until the node goes down with index state uncommitted.
THEOREM IndexInvariant == Spec => []IndexInv
<1>1. Init => IndexInv
  BY Zenon, InitSync, InitFound DEF IndexInv, FoundInv
<1>2. IndexInv /\ [Next]_vars => IndexInv'
  BY Zenon, NumbersOrdered, StepSync, StepFound DEF IndexInv
<1> QED BY <1>1, <1>2, PTL DEF Spec

\* Nothing is missed when Sync sets m_synced and BlockConnected takes over.
THEOREM NothingMissed == Spec => []CaughtUp
<1>1. IndexInv => CaughtUp
  BY Zenon DEF IndexInv, SyncInv, Handover, Following, Base, Leads, IsConnect, CaughtUp
<1> QED BY <1>1, IndexInvariant, PTL

\* LookupFilter and LookupFilterHeader find every block the index has indexed, with its
\* own filter and header, whatever reorgs, failed commits and restarts there were, as
\* long as the node has only gone down by a shutdown whose last Commit was good and the
\* index has not given up.
THEOREM NothingLost == Spec => []FoundUntilLost
<1>1. ASSUME IndexInv, Sound, Alive, NEW b \in indexed PROVE Found(b)
  <2>1. DbType /\ Entries
    BY Zenon, <1>1 DEF IndexInv, FoundInv, Consistent, Alive
  <2>2. b \in Blocks /\ Height(b) \in Heights
    BY Zenon, <2>1, PprevFacts DEF DbType
  <2>3. CASE AtHeight(b)
    <3>1. LookUpOne(b) = db.height[Height(b)]
      BY Zenon, <2>3 DEF LookUpOne, HeaderFound, AtHeight
    <3>2. GoodEntry(db.height[Height(b)], b)
      BY Zenon, <2>1, <2>2, <2>3 DEF Entries, AtHeight
    <3> QED BY Zenon, <3>1, <3>2 DEF Found, GoodEntry
  <2>4. CASE ~AtHeight(b)
    <3>1. LookUpOne(b) = db.hash[b] /\ AtHash(b)
      BY Zenon, <2>1, <2>4, <1>1 DEF LookUpOne, HeaderFound, AtHeight, Entries
    <3>2. GoodEntry(db.hash[b], b)
      BY Zenon, <2>1, <2>2, <3>1 DEF Entries
    <3> QED BY Zenon, <3>1, <3>2 DEF Found, GoodEntry
  <2> QED BY Zenon, <2>3, <2>4
<1>2. IndexInv => FoundUntilLost
  BY Zenon, <1>1 DEF FoundUntilLost, IndexedFound, Sound
<1> QED BY <1>2, IndexInvariant, PTL
=============================================================================
