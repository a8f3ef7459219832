------------------------ MODULE ChainSelectionProofs ------------------------
(***************************************************************************)
(* The theorems about ChainSelection: no block of the active chain is      *)
(* marked as failed, a mark is passed on to the descendants, the blocks    *)
(* ConnectTip reads are on disk, m_blocks_unlinked and                     *)
(* setBlockIndexCandidates hold what they should, and the tip is the best  *)
(* usable block once ActivateBestChain has returned.                       *)
(***************************************************************************)
EXTENDS ChainSelection, TLAPS

-----------------------------------------------------------------------------
(* The facts about the tree of blocks and about finite sets that the       *)
(* lemmas below have as a hypothesis.  They are proved at the end, where   *)
(* the library's theorems are brought in.                                  *)

\* The path from Genesis to a block: the blocks on it are in line, and one step
\* up from any of them leads towards its end.
PathFacts ==
    /\ \A b \in Blocks : b \in ChainOf[b] /\ Genesis \in ChainOf[b] /\ ChainOf[b] \subseteq Blocks
    /\ \A b \in Blocks : \A a \in ChainOf[b] : ChainOf[a] \subseteq ChainOf[b]
    /\ \A b \in Blocks : \A a, c \in ChainOf[b] : a \in ChainOf[c] \/ c \in ChainOf[a]
    /\ \A a, b \in Blocks : a \in ChainOf[b] /\ b \in ChainOf[a] => a = b
    /\ \A b \in Blocks : \A a \in ChainOf[b] \ {b} :
         \E c \in ChainOf[b] \ ChainOf[a] : c # Genesis /\ Parent[c] = a

\* A block is higher, and has more work, than the blocks below it.
HeightFacts ==
    /\ \A b \in Blocks : Height(b) \in Nat
    /\ \A b \in Blocks : \A a \in ChainOf[b] \ {b} :
         /\ Height(a) < Height(b)
         /\ \A s \in Scenarios : s.work[a] < s.work[b]

\* CBlockIndexWorkComparator as an order by work, sequence id and address.
Sorted(w, s, a, b) ==
    \/ w[a] < w[b]
    \/ w[a] = w[b] /\ s[a] > s[b]
    \/ w[a] = w[b] /\ s[a] = s[b] /\ Addr[a] > Addr[b]

\* The choices of the model are among what they are made from.
ChoiceFacts ==
    /\ \A S \in SUBSET Blocks : S # {} =>
         HighestOf(S) \in S /\ \A d \in S : Height(d) <= Height(HighestOf(S))
    /\ \A S \in SUBSET Blocks : \A q \in Orders(S) : q \in Seq(S) /\ Range(q) = S
    /\ \A S \in SUBSET Blocks, w \in [Blocks -> Nat], s \in [Blocks -> Int] : S # {} =>
         \E b \in S : \A d \in S \ {b} : Sorted(w, s, d, b)

TreeFacts == PathFacts /\ HeightFacts /\ ChoiceFacts

-----------------------------------------------------------------------------
(* The inductive invariant.                                                *)

\* Blocks whose parent is linked.
Linkable == {b \in ntx \ {Genesis} : Parent[b] \in linked}

Pcs == {"idle", "abc", "find", "conn", "inv", "undefined"}

\* What has been received.  A linked block is linked down to Genesis, and a block
\* that waits to be linked has been stored.
StoreInv ==
    /\ scenario \in Scenarios
    /\ Genesis \in known /\ known \subseteq Blocks /\ known \subseteq scenario.blocks \cup {Genesis}
    /\ have \subseteq ntx /\ linked \subseteq ntx /\ ntx \subseteq known
    /\ ntx \cap ContextInvalid = {}
    /\ \A b \in linked : ChainOf[b] \subseteq linked
    /\ rq \in Seq(Linkable)
    /\ unlinked \in [Blocks -> Nat] /\ \A b \in Blocks : unlinked[b] > 0 => b \in ntx

\* What the other variables hold.
IndexInv ==
    /\ calls \in Nat /\ pc \in Pcs
    /\ failed \subseteq known \ {Genesis}
    /\ cands \subseteq linked /\ tip \in linked /\ bestHeader \in known
    /\ seqId \in [Blocks -> Int] /\ nSeq \in Int /\ revSeq \in Int

\* The way to pindexMostWork.  No candidate has less work than the tip, so the
\* target is not a block that is connected already; between two iterations it is
\* a descendant of the tip.
TargetInv ==
    /\ ChainOf[tip] \cap (failed \cup ConnectInvalid) = {}
    /\ \A b \in cands : Work[b] >= Work[tip]
    /\ mostWork = NoBlock \/ mostWork \in linked
    /\ mostWork # NoBlock =>
         /\ ChainOf[mostWork] \cap failed = {} /\ Work[mostWork] >= Work[tip]
         /\ ChainOf[mostWork] \ ChainOf[tip] \subseteq have
         /\ pc = "abc" => tip \in ChainOf[mostWork]
    /\ pc \in {"idle", "inv"} => mostWork = NoBlock
    /\ pc = "conn" => mostWork # NoBlock /\ tip \in ChainOf[mostWork] \ {mostWork}

\* Where InvalidateBlock is: inv.toMark is its block, or the one it has
\* disconnected last.
InvalidateInv ==
    /\ inv \in [block : Blocks \cup {NoBlock}, toMark : Blocks \cup {NoBlock},
                wasInChain : BOOLEAN, highpow : SUBSET Blocks]
    /\ inv.highpow \subseteq known
    /\ pc = "inv" =>
         /\ calls > 0
         /\ inv.block \in known \ {Genesis} /\ inv.toMark \in known \ {Genesis}
         /\ inv.block \in ChainOf[inv.toMark]
         /\ IF inv.wasInChain THEN Parent[inv.toMark] = tip ELSE inv.toMark = inv.block

\* The blocks of the scenario never differ so much in height that one is pruned.
NeverPruned ==
    \A b, d \in scenario.blocks : ~(Height(b) + scenario.keepBlocks <= Height(d))

\* No user call has been made, or no block is pruned.
Orderly == calls = 0 \/ NeverPruned

\* The descendants of a failed block are failed, but for some in S.
Marked(S) == \A b \in known : ChainOf[b] \cap failed # {} => b \in failed \cup S

\* While InvalidateBlock is at work it has yet to mark descendants of the block it
\* has disconnected last.
FailureInv ==
    /\ NeverPruned => ntx \subseteq have
    /\ Orderly =>
         /\ pc \notin {"inv", "undefined"} \/ (pc = "inv" /\ ~inv.wasInChain) => Marked({})
         /\ pc = "inv" /\ inv.wasInChain => Marked(DescendantsOf(inv.toMark))
    /\ calls = 0 => bestHeader \in MostWorkOf(known \ failed)

ChainInv == StoreInv /\ IndexInv /\ TargetInv /\ InvalidateInv /\ FailureInv

-----------------------------------------------------------------------------
(* Steps and choices.                                                      *)

\* The chain of a block is its own and that of its parent.
LEMMA Genealogy ==
    /\ Genesis \in Blocks /\ NoBlock \notin Blocks
    /\ \A x : x \in ChainOf[Genesis] <=> x = Genesis
    /\ \A b \in Blocks : ChainOf[b] \in SUBSET Blocks
    /\ \A b \in Blocks \ {Genesis} :
        /\ Parent[b] \in Blocks /\ b \notin ChainOf[Parent[b]]
        /\ \A x : x \in ChainOf[b] <=> (x = b \/ x \in ChainOf[Parent[b]])
<1>1. Genesis \in Blocks /\ NoBlock \notin Blocks /\ ChainOf[Genesis] = {Genesis}
  BY Zenon, TreeAssumption
<1>2. \A b \in Blocks : ChainOf[b] \in SUBSET Blocks
  BY Zenon, TreeAssumption
<1>3. \A b \in Blocks \ {Genesis} :
        Parent[b] \in Blocks /\ b \notin ChainOf[Parent[b]] /\ ChainOf[b] = {b} \cup ChainOf[Parent[b]]
  BY Zenon, TreeAssumption
<1>4. \A b \in Blocks \ {Genesis} : \A x : x \in ChainOf[b] <=> (x = b \/ x \in ChainOf[Parent[b]])
  BY <1>3
<1>5. \A x : x \in ChainOf[Genesis] <=> x = Genesis
  BY <1>1
<1> QED BY Zenon, <1>1, <1>2, <1>3, <1>4, <1>5

\* The scenario is the same throughout, and calls are counted.
LEMMA Frame ==
    ASSUME [Next]_vars
    PROVE  /\ scenario' = scenario
           /\ calls' = calls \/ (calls' = calls + 1 /\ calls < scenario.userCalls)
<1>1. CASE UNCHANGED vars
  BY Zenon, <1>1 DEF vars, env
<1>2. ASSUME NEW b \in Blocks, AcceptBlockHeader(b) \/ RejectBlock(b) \/ ProcessNewBlock(b) \/ PruneBlock(b)
      PROVE  scenario' = scenario /\ calls' = calls
  BY Zenon, <1>2 DEF AcceptBlockHeader, RejectBlock, ProcessNewBlock, PruneBlock, env
<1>3. ASSUME NEW b \in Blocks, InvalidateBlock(b) \/ ReconsiderBlock(b) \/ PreciousBlock(b)
      PROVE  scenario' = scenario /\ calls' = calls + 1 /\ calls < scenario.userCalls
  BY Zenon, <1>3 DEF InvalidateBlock, ReconsiderBlock, PreciousBlock, UserCall
<1>4. CASE LinkBlock \/ Interrupt \/ Restart
  BY Zenon, <1>4 DEF LinkBlock, Interrupt, Restart, env
<1>5. CASE Activate
  BY Zenon, <1>5 DEF Activate, ActivateBestChain, FindMostWorkChain, NothingToDo, DisconnectToFork,
                     DisconnectFails, ConnectTip, ConnectTipInvalid, env
<1>6. CASE Invalidate
  BY Zenon, <1>6 DEF Invalidate, InvalidateDisconnect, InvalidateFails, InvalidateFinish, env
<1> QED BY Zenon, <1>1, <1>2, <1>3, <1>4, <1>5, <1>6 DEF Next

\* What the scenario says of work and of invalid blocks.
LEMMA ScenarioFacts ==
    ASSUME StoreInv
    PROVE  /\ Work \in [Blocks -> Nat]
           /\ Genesis \notin ContextInvalid \cup ConnectInvalid
           /\ \A b \in scenario.blocks : ChainOf[b] \subseteq scenario.blocks
BY Zenon, ScenarioAssumption DEF StoreInv, Work, ContextInvalid, ConnectInvalid

\* A block that CBlockIndexWorkComparator does not sort before another has at least
\* its work.
LEMMA NotWorse ==
    ASSUME StoreInv, NEW s, NEW b \in Blocks, NEW t \in Blocks, ~WorseBy(s, b, t)
    PROVE  Work[b] >= Work[t]
BY ScenarioFacts DEF WorseBy

\* FindMostWorkChain takes a candidate, and the others are worse.
LEMMA BestCandidate ==
    ASSUME TreeFacts, StoreInv, IndexInv, cands # {}
    PROVE  BestOf(cands) \in cands /\ \A d \in cands \ {BestOf(cands)} : Worse(d, BestOf(cands))
<1>1. cands \in SUBSET Blocks /\ Work \in [Blocks -> Nat] /\ seqId \in [Blocks -> Int]
  BY Zenon, ScenarioFacts DEF StoreInv, IndexInv
<1>2. \E b \in cands : \A d \in cands \ {b} : Worse(d, b)
  <2>1. \E b \in cands : \A d \in cands \ {b} : Sorted(Work, seqId, d, b)
    BY Zenon, <1>1 DEF TreeFacts, ChoiceFacts
  <2>2. \A b, d : Sorted(Work, seqId, d, b) => Worse(d, b)
    BY Zenon DEF Sorted, Worse, WorseBy
  <2> QED BY Zenon, <2>1, <2>2
<1> QED BY Zenon, <1>2 DEF BestOf

\* The blocks a candidate is ruled out for are on its path and not connected.
LEMMA UnusableFacts ==
    ASSUME TreeFacts, NEW c \in Blocks, tip \in Blocks, Unusable(c) # {}
    PROVE  /\ HighestOf(Unusable(c)) \in ChainOf[c] \ ChainOf[tip]
           /\ HighestOf(Unusable(c)) \in Unusable(c)
           /\ RuledOut(c) \subseteq ChainOf[c]
           /\ RuledOut(c) \ {HighestOf(Unusable(c))} =
                ChainOf[c] \ ChainOf[HighestOf(Unusable(c))]
<1>1. Unusable(c) \in SUBSET Blocks /\ Unusable(c) \subseteq ChainOf[c] \ ChainOf[tip]
  BY Zenon DEF Unusable, TreeFacts, PathFacts
<1>2. HighestOf(Unusable(c)) \in Unusable(c)
  BY Zenon, <1>1 DEF TreeFacts, ChoiceFacts
<1>3. HighestOf(Unusable(c)) \in Blocks
  BY Zenon, <1>1, <1>2
<1>4. HighestOf(Unusable(c)) \in ChainOf[HighestOf(Unusable(c))]
  BY Zenon, <1>3 DEF TreeFacts, PathFacts
<1> QED BY Zenon, <1>1, <1>2, <1>4 DEF RuledOut

\* Entries added to m_blocks_unlinked are for blocks that were received.
LEMMA AddedUnlinked ==
    ASSUME NEW u \in [Blocks -> Nat], NEW N, NEW S \in SUBSET N,
           \A b \in Blocks : u[b] > 0 => b \in N
    PROVE  /\ AddUnlinked(u, S) \in [Blocks -> Nat]
           /\ \A b \in Blocks : AddUnlinked(u, S)[b] > 0 => b \in N
BY DEF AddUnlinked

-----------------------------------------------------------------------------
(* What is stored and linked.                                              *)

\* Most steps store and link nothing.
LEMMA StoreQuiet ==
    ASSUME [Next]_vars
    PROVE  \/ UNCHANGED <<known, ntx, have, linked, rq, unlinked, missed>>
           \/ \E b \in Blocks \ {Genesis} : AcceptBlockHeader(b) \/ ProcessNewBlock(b) \/ PruneBlock(b)
           \/ LinkBlock \/ FindMostWorkChain \/ Restart
<1>1. CASE UNCHANGED vars
  BY Zenon, <1>1 DEF vars, index, sets
<1>2. ASSUME NEW b \in Blocks, RejectBlock(b) \/ InvalidateBlock(b) \/ ReconsiderBlock(b) \/ PreciousBlock(b)
      PROVE  UNCHANGED <<known, ntx, have, linked, rq, unlinked, missed>>
  BY Zenon, <1>2 DEF RejectBlock, InvalidateBlock, ReconsiderBlock, PreciousBlock, index, sets
<1>3. CASE ActivateBestChain \/ NothingToDo \/ DisconnectToFork \/ DisconnectFails
  BY Zenon, <1>3 DEF ActivateBestChain, NothingToDo, DisconnectToFork, DisconnectFails, index, sets
<1>4. CASE ConnectTip \/ ConnectTipInvalid \/ Interrupt
  BY Zenon, <1>4 DEF ConnectTip, ConnectTipInvalid, Interrupt, index, sets
<1>5. CASE Invalidate
  BY Zenon, <1>5 DEF Invalidate, InvalidateDisconnect, InvalidateFails, InvalidateFinish, index, sets
<1> QED BY Zenon, <1>1, <1>2, <1>3, <1>4, <1>5 DEF Next, Activate

\* A longer list of blocks to link, from a larger set.
LEMMA Requeued ==
    ASSUME NEW S, NEW T, S \subseteq T, NEW s \in Seq(S)
    PROVE  s \in Seq(T)
OBVIOUS

\* No block, or one, to link.
LEMMA OneQueued == \A T : <<>> \in Seq(T) /\ \A b \in T : <<b>> \in Seq(T)
OBVIOUS

\* Assigning a number to a block.
LEMMA Assigned ==
    ASSUME NEW f \in [Blocks -> Int], NEW b, NEW n \in Int
    PROVE  [f EXCEPT ![b] = n] \in [Blocks -> Int]
BY Zenon

\* The queue after one turn of ReceivedBlockTransactions.
LEMMA Appended ==
    ASSUME NEW T, NEW s \in Seq(T), NEW q \in Seq(T), NEW r \in Seq(T), s # <<>>
    PROVE  Tail(s) \o q \o r \in Seq(T) /\ Head(s) \in T
OBVIOUS

\* A block is linked only when its parent is, and has been stored before
\* (ReceivedBlockTransactions).
LEMMA StoreKept ==
    ASSUME TreeFacts, StoreInv, IndexInv, [Next]_vars
    PROVE  StoreInv'
<1>1. scenario' = scenario
  BY Zenon, Frame
<1>2. CASE UNCHANGED <<known, ntx, have, linked, rq, unlinked, missed>>
  BY Zenon, <1>1, <1>2 DEF StoreInv, Linkable, ContextInvalid
<1>3. ASSUME NEW b \in Blocks \ {Genesis}, AcceptBlockHeader(b)
      PROVE  StoreInv'
  <2>1. known' = known \cup {b} /\ b \in scenario.blocks
        /\ UNCHANGED <<ntx, have, linked, rq, unlinked, missed>>
    BY Zenon, <1>3 DEF AcceptBlockHeader
  <2> QED BY Zenon, <1>1, <2>1 DEF StoreInv, Linkable, ContextInvalid
<1>4. ASSUME NEW b \in Blocks \ {Genesis}, ProcessNewBlock(b)
      PROVE  StoreInv'
  <2>1. /\ have' = have \cup {b} /\ ntx' = ntx \cup {b} /\ b \in known /\ b \notin ContextInvalid
        /\ UNCHANGED <<known, linked>>
        /\ rq' = <<>> \/ (rq' = <<b>> /\ Parent[b] \in linked)
        /\ unlinked' = unlinked \/ unlinked' = AddUnlinked(unlinked, {b})
    BY Zenon, <1>4 DEF ProcessNewBlock, CsMainFree
  <2>2. rq' \in Seq(Linkable')
    <3>1. Parent[b] \in linked => b \in Linkable'
      BY Zenon, <2>1 DEF Linkable
    <3> QED BY Zenon, <2>1, <3>1, OneQueued
  <2>3. unlinked' \in [Blocks -> Nat] /\ \A d \in Blocks : unlinked'[d] > 0 => d \in ntx'
    <3>1. unlinked \in [Blocks -> Nat] /\ {b} \in SUBSET ntx' /\ \A d \in Blocks : unlinked[d] > 0 => d \in ntx'
      BY Zenon, <2>1 DEF StoreInv
    <3>2. /\ AddUnlinked(unlinked, {b}) \in [Blocks -> Nat]
          /\ \A d \in Blocks : AddUnlinked(unlinked, {b})[d] > 0 => d \in ntx'
      BY Zenon, <3>1, AddedUnlinked
    <3> QED BY Zenon, <2>1, <3>1, <3>2
  <2> QED BY Zenon, <1>1, <2>1, <2>2, <2>3 DEF StoreInv, ContextInvalid
<1>5. ASSUME NEW b \in Blocks \ {Genesis}, PruneBlock(b)
      PROVE  StoreInv'
  <2>1. /\ have' = have \ {b} /\ unlinked' = [unlinked EXCEPT ![b] = 0]
        /\ UNCHANGED <<known, ntx, linked, rq>>
    BY Zenon, <1>5 DEF PruneBlock
  <2>2. unlinked' \in [Blocks -> Nat] /\ \A d \in Blocks : unlinked'[d] > 0 => d \in ntx'
    BY <2>1 DEF StoreInv
  <2> QED BY Zenon, <1>1, <2>1, <2>2 DEF StoreInv, Linkable, ContextInvalid
<1>6. CASE LinkBlock
  <2> DEFINE b == Head(rq)
             twice == {d \in UnlinkedUnder(b) : unlinked[d] > 1}
  <2>1. /\ rq # <<>> /\ linked' = linked \cup {b} /\ unlinked' = TakenFromUnlinked(b)
        /\ UNCHANGED <<known, ntx, have>>
    BY Zenon, <1>6 DEF LinkBlock
  <2>2. PICK q \in Orders(UnlinkedUnder(b)), r \in Orders(twice) : rq' = Tail(rq) \o q \o r
    BY Zenon, <1>6 DEF LinkBlock
  <2>3. UnlinkedUnder(b) \in SUBSET Blocks /\ twice \in SUBSET Blocks
    BY Zenon DEF UnlinkedUnder
  <2>4. q \in Seq(UnlinkedUnder(b)) /\ r \in Seq(twice)
    BY Zenon, <2>2, <2>3 DEF TreeFacts, ChoiceFacts
  <2>5. UnlinkedUnder(b) \subseteq Linkable' /\ twice \subseteq Linkable' /\ Linkable \subseteq Linkable'
    <3>1. \A d \in UnlinkedUnder(b) : d \in ntx \ {Genesis} /\ Parent[d] = b
      BY Zenon DEF StoreInv, UnlinkedUnder
    <3> QED BY Zenon, <2>1, <3>1 DEF Linkable
  <2>6. b \in Linkable
    BY <2>1 DEF StoreInv
  <2> HIDE DEF b, twice
  <2>7. q \in Seq(Linkable') /\ r \in Seq(Linkable') /\ rq \in Seq(Linkable')
    BY Zenon, <2>4, <2>5, Requeued DEF StoreInv
  <2>8. rq' \in Seq(Linkable')
    BY Zenon, <2>1, <2>2, <2>7, Appended
  <2>9. b \in ntx /\ b \in Blocks \ {Genesis} /\ Parent[b] \in linked
    BY Zenon, <2>6 DEF Linkable, StoreInv
  <2>10. ChainOf[b] \subseteq linked'
    <3>1. ChainOf[Parent[b]] \subseteq linked
      BY Zenon, <2>9 DEF StoreInv
    <3> QED BY Zenon, <2>1, <2>9, <3>1, Genealogy
  <2>11. unlinked' \in [Blocks -> Nat] /\ \A d \in Blocks : unlinked'[d] > 0 => d \in ntx
    BY <2>1 DEF TakenFromUnlinked, StoreInv
  <2> QED BY Zenon, <1>1, <2>1, <2>8, <2>9, <2>10, <2>11 DEF StoreInv, ContextInvalid
<1>7. CASE FindMostWorkChain
  <2>1. cands # {} /\ UNCHANGED <<known, ntx, have, linked, rq>>
    BY Zenon, <1>7 DEF FindMostWorkChain
  <2>2. PICK c \in linked : c = BestOf(cands)
    BY Zenon, <2>1, BestCandidate DEF IndexInv
  <2>3. \/ unlinked' = unlinked
        \/ /\ Unusable(c) # {}
           /\ unlinked' = AddUnlinked(unlinked, RuledOut(c) \ {HighestOf(Unusable(c))})
    BY Zenon, <1>7, <2>2 DEF FindMostWorkChain
  <2>4. unlinked' \in [Blocks -> Nat] /\ \A d \in Blocks : unlinked'[d] > 0 => d \in ntx
    <3>1. CASE unlinked' = unlinked
      BY Zenon, <3>1 DEF StoreInv
    <3>2. CASE Unusable(c) # {} /\ unlinked' = AddUnlinked(unlinked, RuledOut(c) \ {HighestOf(Unusable(c))})
      <4>1. c \in Blocks /\ tip \in Blocks /\ ChainOf[c] \subseteq ntx
        BY Zenon, <2>2 DEF StoreInv, IndexInv
      <4>2. RuledOut(c) \ {HighestOf(Unusable(c))} \in SUBSET ntx
        BY Zenon, <3>2, <4>1, UnusableFacts
      <4> QED BY Zenon, <3>2, <4>2, AddedUnlinked DEF StoreInv
    <3> QED BY Zenon, <2>3, <3>1, <3>2
  <2> QED BY Zenon, <1>1, <2>1, <2>4 DEF StoreInv, Linkable, ContextInvalid
<1>8. CASE Restart
  <2>1. /\ linked' = LinkedOnLoad /\ rq = <<>> /\ UNCHANGED <<known, ntx, have, rq>>
        /\ unlinked' = [b \in Blocks |-> IF b \in ntx \ linked' THEN 1 ELSE 0]
    BY Zenon, <1>8 DEF Restart
  <2>2. rq' \in Seq(Linkable')
    BY <2>1
  <2>3. unlinked' \in [Blocks -> Nat] /\ \A d \in Blocks : unlinked'[d] > 0 => d \in ntx
    BY <2>1
  <2>4. linked' \subseteq ntx /\ \A b \in linked' : ChainOf[b] \subseteq linked'
    BY Zenon, <2>1 DEF LinkedOnLoad, StoreInv, TreeFacts, PathFacts
  <2> QED BY Zenon, <1>1, <2>1, <2>2, <2>3, <2>4 DEF StoreInv, ContextInvalid
<1> QED BY Zenon, <1>2, <1>3, <1>4, <1>5, <1>6, <1>7, <1>8, StoreQuiet
-----------------------------------------------------------------------------
(* The tip, the candidates and the failed blocks.                          *)

\* Blocks stay known and linked.
LEMMA Grows ==
    ASSUME TreeFacts, StoreInv, [Next]_vars
    PROVE  known \subseteq known' /\ linked \subseteq linked'
<1>1. CASE UNCHANGED <<known, ntx, have, linked, rq, unlinked, missed>>
  BY Zenon, <1>1
<1>2. ASSUME NEW b \in Blocks \ {Genesis}, AcceptBlockHeader(b) \/ ProcessNewBlock(b) \/ PruneBlock(b)
      PROVE  known \subseteq known' /\ linked \subseteq linked'
  BY Zenon, <1>2 DEF AcceptBlockHeader, ProcessNewBlock, PruneBlock
<1>3. CASE LinkBlock \/ FindMostWorkChain
  BY Zenon, <1>3 DEF LinkBlock, FindMostWorkChain
<1>4. CASE Restart
  BY Zenon, <1>4 DEF Restart, LinkedOnLoad, StoreInv
<1> QED BY Zenon, <1>1, <1>2, <1>3, <1>4, StoreQuiet

\* Where the holder of m_chainstate_mutex may get to.
LEMMA PcKept ==
    ASSUME pc \in Pcs, [Next]_vars
    PROVE  pc' \in Pcs
<1>1. CASE UNCHANGED pc
  BY Zenon, <1>1
<1>2. \A t, target : EndOfIteration(t, target) \in Pcs /\ AfterStep(t, target) \in Pcs
  BY Zenon DEF EndOfIteration, AfterStep, Pcs
<1>3. CASE Activate
  BY Zenon, <1>1, <1>2, <1>3
     DEF Activate, ActivateBestChain, FindMostWorkChain, NothingToDo, DisconnectToFork,
         DisconnectFails, ConnectTip, ConnectTipInvalid, StepEnds, Pcs
<1>4. CASE Invalidate \/ LinkBlock \/ Interrupt \/ Restart
  BY Zenon, <1>1, <1>4
     DEF Invalidate, InvalidateDisconnect, InvalidateFails, InvalidateFinish, InvalidateReturns,
         LinkBlock, Interrupt, Restart, Pcs
<1>5. ASSUME NEW b \in Blocks,
             \/ AcceptBlockHeader(b) \/ RejectBlock(b) \/ ProcessNewBlock(b)
             \/ InvalidateBlock(b) \/ PruneBlock(b) \/ ReconsiderBlock(b) \/ PreciousBlock(b)
      PROVE  pc' \in Pcs
  BY Zenon, <1>1, <1>5
     DEF AcceptBlockHeader, RejectBlock, ProcessNewBlock, InvalidateBlock, PruneBlock,
         ReconsiderBlock, PreciousBlock, Pcs
<1> QED BY Zenon, <1>1, <1>3, <1>4, <1>5 DEF Next, vars

\* SetBlockFailureFlags does not reach Genesis, nor a path that b is not on.
LEMMA DescendantsFacts ==
    ASSUME TreeFacts, StoreInv, NEW b \in Blocks \ {Genesis}
    PROVE  /\ DescendantsOf(b) \subseteq known \ {Genesis}
           /\ \A t \in Blocks : b \notin ChainOf[t] => ChainOf[t] \cap ({b} \cup DescendantsOf(b)) = {}
<1>1. \A d \in DescendantsOf(b) : d \in known /\ b \in ChainOf[d]
  BY Zenon DEF DescendantsOf, Descends
<1>2. \A d \in DescendantsOf(b) : d # Genesis
  BY Zenon, <1>1, TreeAssumption
<1>3. ASSUME NEW t \in Blocks, b \notin ChainOf[t]
      PROVE  ChainOf[t] \cap ({b} \cup DescendantsOf(b)) = {}
  BY Zenon, <1>1, <1>3 DEF TreeFacts, PathFacts
<1> QED BY Zenon, <1>1, <1>2, <1>3

\* m_best_header is in the block index.
LEMMA BestHeaderKnown ==
    ASSUME StoreInv, IndexInv, NEW F
    PROVE  /\ RecalculateBestHeader(F, tip) \subseteq known
           /\ \A b : BestHeaderAfter(F, b) \subseteq known
<1>1. RecalculateBestHeader(F, tip) \subseteq (known \ F) \cup {tip}
  BY Zenon DEF RecalculateBestHeader, MostWorkOf
<1>2. tip \in known /\ bestHeader \in known
  BY Zenon DEF StoreInv, IndexInv
<1> QED BY Zenon, <1>1, <1>2 DEF BestHeaderAfter

\* The fork point is connected and below pindexMostWork; the blocks above it are
\* those that are not connected.
LEMMA ForkFacts ==
    ASSUME TreeFacts, tip \in Blocks, NEW m \in Blocks
    PROVE  /\ FindFork(m) \in ChainOf[m] \cap ChainOf[tip]
           /\ ChainOf[m] \ ChainOf[FindFork(m)] = ChainOf[m] \ ChainOf[tip]
<1> DEFINE S == ChainOf[m] \cap ChainOf[tip]
           f == FindFork(m)
<1>1. S \in SUBSET Blocks /\ S # {} /\ f = HighestOf(S)
  BY Zenon DEF TreeFacts, PathFacts, FindFork
<1> HIDE DEF S, f
<1>2. f \in S /\ \A d \in S : Height(d) <= Height(f)
  BY Zenon, <1>1 DEF TreeFacts, ChoiceFacts
<1>3. f \in ChainOf[m] /\ f \in ChainOf[tip] /\ f \in Blocks
  BY Zenon, <1>1, <1>2 DEF S
<1>4. ASSUME NEW x \in S PROVE x \in ChainOf[f]
  <2>1. x \in ChainOf[m] /\ x \in Blocks
    BY Zenon, <1>1, <1>4 DEF S
  <2>2. x \in ChainOf[f] \/ f \in ChainOf[x]
    BY Zenon, <1>3, <2>1 DEF TreeFacts, PathFacts
  <2>3. ASSUME f \in ChainOf[x], f # x PROVE FALSE
    <3>1. Height(f) < Height(x) /\ Height(f) \in Nat /\ Height(x) \in Nat
      BY Zenon, <1>3, <2>1, <2>3 DEF TreeFacts, HeightFacts
    <3>2. Height(x) <= Height(f)
      BY Zenon, <1>2, <1>4
    <3> QED BY <3>1, <3>2
  <2>4. f \in ChainOf[f]
    BY Zenon, <1>3 DEF TreeFacts, PathFacts
  <2> QED BY Zenon, <2>2, <2>3, <2>4
<1>5. ChainOf[f] \subseteq ChainOf[tip]
  BY Zenon, <1>3 DEF TreeFacts, PathFacts
<1> QED BY Zenon, <1>3, <1>4, <1>5 DEF S, f

\* ConnectTip takes the child of the tip on the way to pindexMostWork.
LEMMA NextFacts ==
    ASSUME TreeFacts, StoreInv, IndexInv, TargetInv, pc = "conn"
    PROVE  /\ mostWork \in linked /\ tip \in ChainOf[mostWork]
           /\ NextToConnect \in ChainOf[mostWork] \ ChainOf[tip]
           /\ NextToConnect \in linked /\ NextToConnect \in Blocks \ {Genesis}
           /\ Parent[NextToConnect] = tip
<1>1. mostWork \in linked /\ tip \in ChainOf[mostWork] \ {mostWork} /\ mostWork \in Blocks
  BY Zenon DEF StoreInv, TargetInv
<1>2. \E c \in ChainOf[mostWork] \ ChainOf[tip] : Parent[c] = tip
  BY Zenon, <1>1 DEF TreeFacts, PathFacts
<1>3. NextToConnect \in ChainOf[mostWork] \ ChainOf[tip] /\ Parent[NextToConnect] = tip
  BY Zenon, <1>2 DEF NextToConnect
<1>4. NextToConnect \in linked /\ NextToConnect \in Blocks
  BY Zenon, <1>1, <1>3 DEF StoreInv
<1>5. Genesis \in ChainOf[tip]
  BY Zenon DEF TreeFacts, PathFacts, StoreInv, IndexInv
<1> QED BY Zenon, <1>1, <1>3, <1>4, <1>5

\* A failing DisconnectTip leaves a connected block as the tip.
LEMMA MissingFacts ==
    ASSUME TreeFacts, StoreInv, IndexInv, TargetInv, DisconnectFails
    PROVE  tip' \in ChainOf[tip]
<1> DEFINE missing == (ChainOf[tip] \ ChainOf[FindFork(mostWork)]) \ have
<1>1. missing # {} /\ tip' = HighestOf(missing)
  BY Zenon DEF DisconnectFails
<1>2. missing \in SUBSET Blocks /\ missing \subseteq ChainOf[tip]
  BY Zenon DEF StoreInv, IndexInv, TreeFacts, PathFacts
<1> HIDE DEF missing
<1> QED BY Zenon, <1>1, <1>2 DEF TreeFacts, ChoiceFacts

\* InvalidateBlock disconnects a block above Genesis.
LEMMA InvalidateFacts ==
    ASSUME TreeFacts, StoreInv, IndexInv, InvalidateInv, InvalidateDisconnect
    PROVE  /\ tip \in Blocks \ {Genesis} /\ Parent[tip] \in ChainOf[tip] /\ tip' = Parent[tip]
           /\ Parent[tip] \in linked /\ tip \notin ChainOf[Parent[tip]]
           /\ inv.block \in ChainOf[tip]
<1>1. inv.block \in ChainOf[tip] /\ inv.block # Genesis /\ tip \in linked /\ tip \in Blocks /\ tip' = Parent[tip]
  BY Zenon DEF InvalidateDisconnect, InvalidateInv, InChain, StoreInv, IndexInv
<1>2. tip # Genesis
  BY Zenon, <1>1, TreeAssumption
<1>3. /\ Parent[tip] \in Blocks /\ tip \notin ChainOf[Parent[tip]]
      /\ \A x : x \in ChainOf[tip] <=> (x = tip \/ x \in ChainOf[Parent[tip]])
  BY Zenon, <1>1, <1>2, Genealogy
<1>4. Parent[tip] \in ChainOf[tip]
  BY Zenon, <1>3 DEF TreeFacts, PathFacts
<1> QED BY Zenon, <1>1, <1>2, <1>3, <1>4 DEF StoreInv

\* Steps that change neither the tip nor the candidates nor a mark.
LEMMA IndexQuiet ==
    ASSUME [Next]_vars
    PROVE  \/ UNCHANGED <<failed, cands, tip, bestHeader, seqId, nSeq, revSeq>>
           \/ \E b \in Blocks \ {Genesis} : AcceptBlockHeader(b) \/ RejectBlock(b)
           \/ \E b \in Blocks : ReconsiderBlock(b) \/ PreciousBlock(b)
           \/ LinkBlock \/ FindMostWorkChain \/ DisconnectToFork \/ DisconnectFails
           \/ ConnectTip \/ ConnectTipInvalid
           \/ InvalidateDisconnect \/ InvalidateFinish \/ Restart
<1>1. CASE UNCHANGED vars
  BY Zenon, <1>1 DEF vars, index, sets, order
<1>2. ASSUME NEW b \in Blocks, ProcessNewBlock(b) \/ InvalidateBlock(b) \/ PruneBlock(b)
      PROVE  UNCHANGED <<failed, cands, tip, bestHeader, seqId, nSeq, revSeq>>
  BY Zenon, <1>2 DEF ProcessNewBlock, InvalidateBlock, PruneBlock, index, sets, order
<1>3. CASE ActivateBestChain \/ NothingToDo \/ InvalidateFails \/ Interrupt
  BY Zenon, <1>3 DEF ActivateBestChain, NothingToDo, InvalidateFails, Interrupt, index, sets, order
<1> QED BY Zenon, <1>1, <1>2, <1>3 DEF Next, Activate, Invalidate

\* The tip and the candidates are linked (CheckBlockIndex), and Genesis does not
\* fail.
LEMMA IndexKept ==
    ASSUME TreeFacts, StoreInv, IndexInv, TargetInv, InvalidateInv, [Next]_vars
    PROVE  IndexInv'
<1> USE DEF IndexInv
<1>1. /\ calls' \in Nat /\ pc' \in Pcs
      /\ known \subseteq known' /\ linked \subseteq linked'
  BY Frame, PcKept, Grows
<1>2. ASSUME failed' \subseteq known \ {Genesis}, cands' \subseteq linked', tip' \in linked',
             bestHeader' \in known', UNCHANGED <<seqId, nSeq, revSeq>>
      PROVE  IndexInv'
  BY Zenon, <1>1, <1>2
<1>3. CASE UNCHANGED <<failed, cands, tip, bestHeader, seqId, nSeq, revSeq>>
  BY Zenon, <1>1, <1>3
<1>4. ASSUME NEW b \in Blocks \ {Genesis}, AcceptBlockHeader(b)
      PROVE  IndexInv'
  BY Zenon, <1>1, <1>4 DEF AcceptBlockHeader, order
<1>5. ASSUME NEW b \in Blocks \ {Genesis}, b \in known, InvalidBlockFound(b),
             UNCHANGED <<known, linked, tip, order>>
      PROVE  IndexInv'
  <2>1. failed' \subseteq known \ {Genesis}
    BY Zenon, <1>5, DescendantsFacts DEF InvalidBlockFound
  <2>2. bestHeader' \in known
    BY Zenon, <1>5, BestHeaderKnown DEF InvalidBlockFound
  <2> QED BY Zenon, <1>2, <1>5, <2>1, <2>2 DEF InvalidBlockFound, order
<1>6. ASSUME NEW b \in Blocks \ {Genesis}, RejectBlock(b)
      PROVE  IndexInv'
  BY Zenon, <1>5, <1>6 DEF RejectBlock
<1>7. ASSUME NEW b \in Blocks, ReconsiderBlock(b)
      PROVE  IndexInv'
  <2>1. /\ failed' = failed \ Cleared(b) /\ UNCHANGED <<known, linked, tip, order>>
        /\ cands' = cands \cup {d \in Cleared(b) : Eligible(d, failed') /\ Worse(tip, d)}
        /\ bestHeader' \in RecalculateBestHeader(failed', tip)
    BY Zenon, <1>7 DEF ReconsiderBlock
  <2>2. cands' \subseteq linked
    BY Zenon, <2>1 DEF Eligible
  <2>3. bestHeader' \in known
    BY Zenon, <2>1, BestHeaderKnown
  <2> QED BY Zenon, <1>2, <2>1, <2>2, <2>3 DEF order
<1>8. ASSUME NEW b \in Blocks, PreciousBlock(b)
      PROVE  IndexInv'
  <2>1. PICK rev \in {-1, revSeq} :
          /\ seqId' = [seqId EXCEPT ![b] = rev] /\ revSeq' = rev - 1
          /\ UNCHANGED <<failed, known, linked, nSeq, bestHeader, tip>>
          /\ cands' \subseteq cands \cup {b} /\ (b \in cands' => b \in cands \/ b \in linked)
    BY Zenon, <1>8 DEF PreciousBlock, Eligible, index
  <2>2. seqId' \in [Blocks -> Int] /\ revSeq' \in Int
    BY <2>1
  <2> QED BY Zenon, <1>1, <2>1, <2>2
<1>9. CASE LinkBlock
  <2> DEFINE b == Head(rq)
  <2>1. /\ linked' = linked \cup {b} /\ seqId' = [seqId EXCEPT ![b] = nSeq] /\ nSeq' = nSeq + 1
        /\ cands' \subseteq cands \cup {b} /\ UNCHANGED <<failed, known, revSeq, bestHeader, tip>>
    BY Zenon, <1>9 DEF LinkBlock, TryAddBlockIndexCandidate
  <2> HIDE DEF b
  <2>2. seqId' \in [Blocks -> Int] /\ nSeq' \in Int
    <3>1. seqId' \in [Blocks -> Int]
      BY Zenon, <2>1, Assigned
    <3> QED BY <2>1, <3>1
  <2> QED BY Zenon, <1>1, <2>1, <2>2
<1>10. CASE FindMostWorkChain
  <2>1. cands # {} /\ UNCHANGED <<known, linked, tip, order, bestHeader>>
    BY Zenon, <1>10 DEF FindMostWorkChain
  <2>2. PICK c \in linked : c = BestOf(cands)
    BY Zenon, <2>1, BestCandidate
  <2>3. /\ cands' \subseteq cands
        /\ \/ failed' = failed
           \/ Unusable(c) # {} /\ failed' = failed \cup (RuledOut(c) \ {HighestOf(Unusable(c))})
    BY Zenon, <1>10, <2>2 DEF FindMostWorkChain
  <2>4. c \in Blocks /\ tip \in Blocks /\ ChainOf[c] \subseteq known /\ ChainOf[c] \subseteq Blocks
    BY Zenon, <2>2 DEF StoreInv
  <2>5. failed' \subseteq known \ {Genesis}
    <3>1. CASE failed' = failed
      BY Zenon, <3>1
    <3>2. CASE Unusable(c) # {} /\ failed' = failed \cup (RuledOut(c) \ {HighestOf(Unusable(c))})
      <4>1. HighestOf(Unusable(c)) \in Blocks
            /\ RuledOut(c) \ {HighestOf(Unusable(c))} = ChainOf[c] \ ChainOf[HighestOf(Unusable(c))]
        BY Zenon, <2>4, <3>2, UnusableFacts
      <4>2. Genesis \in ChainOf[HighestOf(Unusable(c))]
        BY Zenon, <4>1 DEF TreeFacts, PathFacts
      <4> QED BY Zenon, <2>4, <3>2, <4>1, <4>2
    <3> QED BY Zenon, <2>3, <3>1, <3>2
  <2> QED BY Zenon, <1>2, <2>1, <2>3, <2>5 DEF order
<1>11. CASE DisconnectToFork
  <2>1. mostWork # NoBlock /\ tip' = FindFork(mostWork) /\ UNCHANGED <<index, order, sets>>
    BY Zenon, <1>11 DEF DisconnectToFork
  <2>2. mostWork \in Blocks /\ tip \in Blocks /\ ChainOf[tip] \subseteq linked
    BY Zenon, <2>1 DEF StoreInv, TargetInv
  <2>3. tip' \in linked
    BY Zenon, <2>1, <2>2, ForkFacts
  <2> QED BY Zenon, <1>2, <2>1, <2>3 DEF index, order, sets
<1>12. CASE DisconnectFails
  <2>1. UNCHANGED <<index, order, sets>>
    BY Zenon, <1>12 DEF DisconnectFails
  <2>2. tip' \in linked
    BY Zenon, <1>12, MissingFacts DEF StoreInv
  <2> QED BY Zenon, <1>2, <2>1, <2>2 DEF index, order, sets
<1>13. CASE ConnectTip
  <2>1. /\ pc = "conn" /\ tip' = NextToConnect /\ UNCHANGED <<index, order, bestHeader>>
        /\ cands' \subseteq cands
    BY Zenon, <1>13 DEF ConnectTip, PruneBlockIndexCandidates
  <2> QED BY Zenon, <1>2, <2>1, NextFacts DEF index, order
<1>14. CASE ConnectTipInvalid
  <2>1. /\ pc = "conn" /\ InvalidBlockFound(NextToConnect) /\ UNCHANGED <<known, linked, order, tip>>
    BY Zenon, <1>14 DEF ConnectTipInvalid
  <2>2. NextToConnect \in Blocks \ {Genesis} /\ NextToConnect \in known
    BY Zenon, <2>1, NextFacts DEF StoreInv
  <2> QED BY Zenon, <1>5, <2>1, <2>2
<1>15. CASE InvalidateDisconnect
  <2> DEFINE newTip == Parent[tip]
             atLeast == {c \in inv.highpow : Work[c] >= Work[newTip]}
             under == {c \in atLeast : Descends(c, tip)}
             rest == atLeast \ under
  <2>1. /\ tip' = newTip /\ failed' = failed \cup {tip} \cup under
        /\ cands' = (cands \ {tip}) \cup {newTip} \cup {c \in rest : ~Worse(c, newTip) /\ Eligible(c, failed)}
        /\ bestHeader' = bestHeader \/ bestHeader' \in {newTip} \cup MostWorkOf(rest \cup {newTip})
        /\ UNCHANGED <<known, linked, order>>
    BY Zenon, <1>15 DEF InvalidateDisconnect
  <2>2. tip \in Blocks \ {Genesis} /\ newTip \in linked /\ inv.highpow \subseteq known
    BY Zenon, <1>15, InvalidateFacts DEF InvalidateInv
  <2>3. under \subseteq known \ {Genesis}
    BY Zenon, <2>2, TreeAssumption DEF Descends
  <2>4. failed' \subseteq known \ {Genesis}
    BY Zenon, <2>1, <2>2, <2>3 DEF StoreInv
  <2>5. cands' \subseteq linked
    BY Zenon, <2>1, <2>2 DEF Eligible
  <2>6. bestHeader' \in known
    BY Zenon, <2>1, <2>2 DEF MostWorkOf, StoreInv
  <2> QED BY Zenon, <1>2, <2>1, <2>2, <2>4, <2>5, <2>6 DEF order
<1>16. CASE InvalidateFinish
  <2>1. PICK mark \in {{}, {inv.block} \ failed} :
          /\ failed' = failed \cup mark \cup DescendantsOf(inv.toMark)
          /\ cands' = (cands \ mark) \cup MissedCandidates(failed \cup mark)
          /\ bestHeader' \in BestHeaderAfter(failed', inv.toMark)
          /\ pc = "inv" /\ UNCHANGED <<known, linked, order, tip>>
    BY Zenon, <1>16 DEF InvalidateFinish
  <2>2. inv.block \in known \ {Genesis} /\ inv.toMark \in Blocks \ {Genesis}
    BY Zenon, <2>1 DEF InvalidateInv, StoreInv
  <2>3. failed' \subseteq known \ {Genesis}
    BY Zenon, <2>1, <2>2, DescendantsFacts
  <2>4. cands' \subseteq linked
    BY Zenon, <2>1 DEF MissedCandidates, Eligible
  <2>5. bestHeader' \in known
    BY Zenon, <2>1, BestHeaderKnown
  <2> QED BY Zenon, <1>2, <2>1, <2>3, <2>4, <2>5 DEF order
<1>17. CASE Restart
  <2>1. /\ failed' = {b \in known : ChainOf[b] \cap failed # {}} /\ UNCHANGED <<known, tip>>
        /\ bestHeader' \in MostWorkOf(known \ failed')
        /\ seqId' = [b \in Blocks |-> IF InChain(b) THEN 0 ELSE 1] /\ nSeq' = 2 /\ revSeq' = -1
        /\ cands' \subseteq linked'
    BY Zenon, <1>17 DEF Restart
  <2>2. failed' \subseteq known \ {Genesis}
    BY Zenon, <2>1, TreeAssumption
  <2>3. seqId' \in [Blocks -> Int] /\ nSeq' \in Int /\ revSeq' \in Int
    BY <2>1
  <2> QED BY Zenon, <1>1, <2>1, <2>2, <2>3 DEF MostWorkOf
<1> QED
  BY Zenon, <1>3, <1>4, <1>6, <1>7, <1>8, <1>9, <1>10, <1>11, <1>12, <1>13, <1>14, <1>15, <1>16, <1>17,
     IndexQuiet
-----------------------------------------------------------------------------
(* The active chain and the way to pindexMostWork.                         *)

\* Blocks above b, on a path on which t is not connected, are not on the active
\* chain if b is not: what FindMostWorkChain marks was not connected.
LEMMA AboveSpared ==
    ASSUME TreeFacts, NEW c \in Blocks, NEW t \in Blocks, NEW b \in ChainOf[c] \ ChainOf[t]
    PROVE  ChainOf[t] \cap (ChainOf[c] \ ChainOf[b]) = {}
<1>1. ASSUME NEW x \in ChainOf[t], x \in ChainOf[c], x \notin ChainOf[b]
      PROVE  FALSE
  <2>1. b \in ChainOf[x]
    BY Zenon, <1>1 DEF TreeFacts, PathFacts
  <2> QED BY Zenon, <1>1, <2>1 DEF TreeFacts, PathFacts
<1> QED BY Zenon, <1>1

\* Work does not decrease along a path.
LEMMA WorkOnPath ==
    ASSUME TreeFacts, StoreInv, NEW b \in Blocks, NEW a \in ChainOf[b]
    PROVE  Work[a] <= Work[b] /\ (a # b => Work[a] < Work[b])
<1>1. Work[a] \in Nat /\ Work[b] \in Nat
  BY Zenon, ScenarioFacts DEF TreeFacts, PathFacts
<1>2. a # b => Work[a] < Work[b]
  BY Zenon DEF TreeFacts, HeightFacts, StoreInv, Work
<1> QED BY <1>1, <1>2

\* At least as much, for blocks.
LEMMA WorkOrder ==
    ASSUME StoreInv, NEW a \in Blocks, NEW b \in Blocks, NEW c \in Blocks
    PROVE  /\ Work[a] >= Work[b] /\ Work[c] <= Work[b] => Work[a] >= Work[c]
           /\ Work[a] <= Work[b] => Work[b] >= Work[a]
           /\ ~(Work[a] >= Work[b] /\ Work[a] < Work[b])
           /\ Work[a] >= Work[a]
BY ScenarioFacts

\* Nothing on the active chain is marked or fails to connect, and neither the
\* pruning nor the marking that happens while cs_main is free disturbs the way to
\* pindexMostWork (ActivateBestChain).
LEMMA TargetKept ==
    ASSUME TreeFacts, StoreInv, IndexInv, TargetInv, InvalidateInv, StoreInv', IndexInv', [Next]_vars
    PROVE  TargetInv'
<1>1. scenario' = scenario /\ Work' = Work /\ ConnectInvalid' = ConnectInvalid
  BY Zenon, Frame DEF Work, ConnectInvalid
<1>2. known \subseteq known' /\ linked \subseteq linked'
  BY Zenon, Grows
<1>3. /\ tip \in Blocks /\ tip \in linked /\ ChainOf[tip] \subseteq linked
      /\ cands \subseteq Blocks /\ linked \subseteq ntx /\ ntx \cap ContextInvalid = {}
      /\ mostWork # NoBlock => mostWork \in Blocks /\ ChainOf[mostWork] \subseteq linked
  BY Zenon DEF StoreInv, IndexInv, TargetInv
<1>4. ASSUME UNCHANGED <<tip, mostWork>>, have \subseteq have', pc' = pc \/ pc' = "undefined",
             ChainOf[tip] \cap failed' = {},
             mostWork # NoBlock => ChainOf[mostWork] \cap failed' = {},
             \A b \in cands' : Work[b] >= Work[tip]
      PROVE  TargetInv'
  BY Zenon, <1>1, <1>2, <1>4 DEF TargetInv
<1>5. CASE UNCHANGED vars
  BY Zenon, <1>4, <1>5 DEF vars, index, sets, abc, TargetInv
<1>6. ASSUME NEW b \in Blocks, AcceptBlockHeader(b) \/ ProcessNewBlock(b)
      PROVE  TargetInv'
  BY Zenon, <1>4, <1>6 DEF AcceptBlockHeader, ProcessNewBlock, abc, TargetInv
<1>7. ASSUME NEW b \in Blocks \ {Genesis}, RejectBlock(b)
      PROVE  TargetInv'
  <2>1. /\ b \in ContextInvalid /\ failed' = failed \cup {b} \cup DescendantsOf(b) /\ cands' = cands \ {b}
        /\ UNCHANGED <<have, tip, mostWork, pc>>
    BY Zenon, <1>7 DEF RejectBlock, InvalidBlockFound, abc
  <2>2. ChainOf[tip] \cap ({b} \cup DescendantsOf(b)) = {}
    BY Zenon, <1>3, <2>1, DescendantsFacts
  <2>3. mostWork # NoBlock => ChainOf[mostWork] \cap ({b} \cup DescendantsOf(b)) = {}
    BY Zenon, <1>3, <2>1, DescendantsFacts
  <2> QED BY Zenon, <1>4, <2>1, <2>2, <2>3 DEF TargetInv
<1>8. ASSUME NEW b \in Blocks, ReconsiderBlock(b)
      PROVE  TargetInv'
  <2>1. /\ failed' \subseteq failed /\ UNCHANGED <<have, tip, mostWork, pc>>
        /\ \A d \in cands' : d \in cands \/ (d \in failed /\ Worse(tip, d))
    BY Zenon, <1>8 DEF ReconsiderBlock, Cleared, abc
  <2>2. \A d \in Blocks : Worse(tip, d) => Work[d] >= Work[tip]
    BY <1>3, ScenarioFacts DEF Worse, WorseBy
  <2>3. \A d \in cands' : Work[d] >= Work[tip]
    BY Zenon, <2>1, <2>2 DEF TargetInv, StoreInv, IndexInv
  <2> QED BY Zenon, <1>4, <2>1, <2>3 DEF TargetInv
<1>9. ASSUME NEW b \in Blocks, PreciousBlock(b)
      PROVE  TargetInv'
  <2>1. /\ UNCHANGED <<have, failed, tip, mostWork, pc>>
        /\ \A d \in cands' : d \in cands \/ (d = b /\ Work[b] >= Work[tip])
    BY Zenon, <1>9 DEF PreciousBlock, index, abc
  <2> QED BY Zenon, <1>4, <2>1 DEF TargetInv
<1>10. CASE LinkBlock
  <2>1. /\ UNCHANGED <<have, failed, tip, mostWork>> /\ (pc' = pc \/ pc' = "undefined")
        /\ rq # <<>>
        /\ cands' = TryAddBlockIndexCandidate(Head(rq), [seqId EXCEPT ![Head(rq)] = nSeq])
    BY Zenon, <1>10 DEF LinkBlock, abc
  <2>2. Head(rq) \in Blocks
    <3>1. Head(rq) \in Linkable
      BY <2>1 DEF StoreInv
    <3> QED BY Zenon, <3>1 DEF Linkable, StoreInv
  <2>3. \A d \in cands' : d \in cands \/ Work[d] >= Work[tip]
    BY Zenon, <1>3, <2>1, <2>2, NotWorse DEF TryAddBlockIndexCandidate
  <2> QED BY Zenon, <1>4, <2>1, <2>3 DEF TargetInv
<1>11. CASE Interrupt
  BY Zenon, <1>4, <1>11 DEF Interrupt, index, sets, abc, TargetInv
<1>12. CASE Restart
  <2>1. /\ failed' = {b \in known : ChainOf[b] \cap failed # {}} /\ UNCHANGED <<have, tip, mostWork, pc>>
        /\ pc = "idle" /\ \A b \in cands' : ~WorseBy(seqId', b, tip)
    BY Zenon, <1>12 DEF Restart, abc
  <2>2. ChainOf[tip] \cap failed' = {}
    <3>1. SUFFICES ASSUME NEW x \in ChainOf[tip], x \in failed' PROVE FALSE
      BY Zenon
    <3>2. PICK y \in ChainOf[x] : y \in failed
      BY Zenon, <2>1, <3>1
    <3>3. y \in ChainOf[tip]
      BY Zenon, <1>3, <3>2 DEF TreeFacts, PathFacts
    <3> QED BY Zenon, <3>2, <3>3 DEF TargetInv
  <2>3. cands' \subseteq Blocks
    BY Zenon DEF StoreInv, IndexInv
  <2>4. \A b \in cands' : Work[b] >= Work[tip]
    BY Zenon, <1>3, <2>1, <2>3, NotWorse
  <2>5. mostWork = NoBlock
    BY Zenon, <2>1 DEF TargetInv
  <2> QED BY Zenon, <1>4, <2>1, <2>2, <2>4, <2>5 DEF TargetInv
<1>13. ASSUME NEW b \in Blocks \ {Genesis}, PruneBlock(b)
       PROVE  TargetInv'
  <2>1. /\ Height(b) + scenario.keepBlocks <= Height(tip) /\ have' = have \ {b}
        /\ UNCHANGED <<failed, cands, tip, mostWork, pc>> /\ pc \in {"idle", "abc", "inv"}
    BY Zenon, <1>13 DEF PruneBlock, CsMainFree, abc
  <2>2. CASE mostWork = NoBlock
    BY Zenon, <1>1, <2>1, <2>2 DEF TargetInv
  <2>3. CASE mostWork # NoBlock
    <3>1. pc = "abc" /\ tip \in ChainOf[mostWork] /\ mostWork \in Blocks
      BY Zenon, <1>3, <2>1, <2>3 DEF TargetInv
    <3>2. ASSUME b \in ChainOf[mostWork] \ ChainOf[tip] PROVE FALSE
      <4>1. tip \in ChainOf[b] \ {b}
        BY Zenon, <1>3, <3>1, <3>2 DEF TreeFacts, PathFacts
      <4>2. Height(tip) < Height(b) /\ Height(tip) \in Nat /\ Height(b) \in Nat
        BY Zenon, <1>3, <4>1 DEF TreeFacts, HeightFacts
      <4>3. scenario.keepBlocks \in Nat
        BY Zenon, ScenarioAssumption DEF StoreInv
      <4> QED BY <2>1, <4>2, <4>3
    <3>3. ChainOf[mostWork] \ ChainOf[tip] \subseteq have'
      BY Zenon, <2>1, <2>3, <3>2 DEF TargetInv
    <3> QED BY Zenon, <1>1, <1>2, <2>1, <2>3, <3>1, <3>3 DEF TargetInv
  <2> QED BY Zenon, <2>2, <2>3
<1>14. ASSUME NEW b \in Blocks, InvalidateBlock(b)
       PROVE  TargetInv'
  <2>1. UNCHANGED <<failed, cands, tip, mostWork, have, linked>> /\ pc = "idle" /\ pc' = "inv"
    BY Zenon, <1>14 DEF InvalidateBlock, index, sets, abc
  <2> QED BY Zenon, <1>1, <2>1 DEF TargetInv
<1>15. CASE ActivateBestChain
  <2>1. UNCHANGED <<failed, cands, tip, mostWork, have, linked>> /\ pc' = "find"
    BY Zenon, <1>15 DEF ActivateBestChain, index, sets, abc
  <2> QED BY Zenon, <1>1, <2>1 DEF TargetInv
<1>16. CASE NothingToDo
  <2>1. /\ UNCHANGED <<failed, cands, tip, have, linked>>
        /\ mostWork' = NoBlock /\ pc' \in {"idle", "abc"}
    BY Zenon, <1>16 DEF NothingToDo, EndOfIteration, index, sets
  <2> QED BY Zenon, <1>1, <2>1 DEF TargetInv
<1>17. CASE InvalidateFails
  <2>1. UNCHANGED <<failed, cands, tip, mostWork, have, linked>> /\ pc = "inv" /\ pc' = "idle"
    BY Zenon, <1>17 DEF InvalidateFails, InvalidateReturns, index, sets, abc
  <2> QED BY Zenon, <1>1, <2>1 DEF TargetInv
<1>18. CASE FindMostWorkChain
  <2>1. /\ cands # {} /\ mostWork = NoBlock /\ pc = "find" /\ UNCHANGED <<tip, have, linked, pc>>
    BY Zenon, <1>18 DEF FindMostWorkChain
  <2>2. PICK c \in cands : c = BestOf(cands)
    BY Zenon, <2>1, BestCandidate
  <2>3. c \in Blocks /\ c \in linked /\ c # NoBlock /\ Work[c] >= Work[tip]
    <3>1. c \in Blocks /\ c # NoBlock
      BY Zenon, <1>3, Genealogy
    <3> QED BY Zenon, <3>1 DEF IndexInv, TargetInv
  <2>4. CASE Unusable(c) = {}
    <3>1. mostWork' = c /\ UNCHANGED <<failed, cands>>
      BY Zenon, <1>18, <2>2, <2>4 DEF FindMostWorkChain
    <3>2. ChainOf[c] \cap failed = {} /\ ChainOf[c] \ ChainOf[tip] \subseteq have
      BY Zenon, <2>4 DEF Unusable, TargetInv
    <3> QED BY Zenon, <1>1, <2>1, <2>3, <3>1, <3>2 DEF TargetInv
  <2>5. CASE Unusable(c) # {}
    <3>1. /\ mostWork' = mostWork /\ cands' \subseteq cands
          /\ failed' = failed \/ failed' = failed \cup (RuledOut(c) \ {HighestOf(Unusable(c))})
      BY Zenon, <1>18, <2>2, <2>5 DEF FindMostWorkChain
    <3>2. /\ HighestOf(Unusable(c)) \in ChainOf[c] \ ChainOf[tip]
          /\ RuledOut(c) \ {HighestOf(Unusable(c))} = ChainOf[c] \ ChainOf[HighestOf(Unusable(c))]
      BY Zenon, <1>3, <2>3, <2>5, UnusableFacts
    <3>3. ChainOf[tip] \cap (ChainOf[c] \ ChainOf[HighestOf(Unusable(c))]) = {}
      BY Zenon, <1>3, <2>3, <3>2, AboveSpared
    <3>4. ChainOf[tip] \cap failed' = {}
      BY Zenon, <3>1, <3>2, <3>3 DEF TargetInv
    <3> QED BY Zenon, <1>4, <2>1, <3>1, <3>4 DEF TargetInv
  <2> QED BY Zenon, <2>4, <2>5
<1>19. ASSUME tip' \in ChainOf[tip]
       PROVE  /\ ChainOf[tip'] \cap (failed \cup ConnectInvalid) = {}
              /\ \A b \in cands : Work[b] >= Work[tip']
              /\ tip' \in Blocks /\ ChainOf[tip'] \subseteq ChainOf[tip] /\ Work[tip'] <= Work[tip]
  <2>1. tip' \in Blocks /\ ChainOf[tip'] \subseteq ChainOf[tip] /\ Work[tip'] <= Work[tip]
    BY Zenon, <1>3, <1>19, WorkOnPath DEF TreeFacts, PathFacts
  <2>2. \A b \in cands : Work[b] >= Work[tip']
    BY Zenon, <1>3, <2>1, WorkOrder DEF TargetInv
  <2> QED BY Zenon, <2>1, <2>2 DEF TargetInv
<1>20. CASE DisconnectToFork
  <2>1. /\ mostWork # NoBlock /\ mostWork # tip /\ tip' = FindFork(mostWork) /\ pc' = "conn"
        /\ UNCHANGED <<failed, cands, mostWork, have, linked>>
    BY Zenon, <1>20 DEF DisconnectToFork, index, sets
  <2>2. /\ tip' \in ChainOf[mostWork] /\ tip' \in ChainOf[tip]
        /\ ChainOf[mostWork] \ ChainOf[tip'] = ChainOf[mostWork] \ ChainOf[tip]
    BY Zenon, <1>3, <2>1, ForkFacts
  <2>3. tip' # mostWork
    <3>1. SUFFICES ASSUME mostWork \in ChainOf[tip] PROVE FALSE
      BY Zenon, <2>2
    <3>2. Work[mostWork] < Work[tip]
      BY Zenon, <1>3, <2>1, <3>1, WorkOnPath
    <3> QED BY Zenon, <1>3, <2>1, <3>2, WorkOrder DEF TargetInv
  <2>4. Work[mostWork] >= Work[tip']
    BY Zenon, <1>3, <1>19, <2>1, <2>2, WorkOrder DEF TargetInv
  <2> QED BY Zenon, <1>1, <1>19, <2>1, <2>2, <2>3, <2>4 DEF TargetInv
<1>21. CASE DisconnectFails
  <2>1. mostWork' = NoBlock /\ pc' = "idle" /\ UNCHANGED <<failed, cands>>
    BY Zenon, <1>21 DEF DisconnectFails, index, sets
  <2>2. tip' \in ChainOf[tip]
    BY Zenon, <1>21, MissingFacts
  <2> QED BY Zenon, <1>1, <1>19, <2>1, <2>2 DEF TargetInv
<1>22. CASE ConnectTip
  <2>1. /\ pc = "conn" /\ NextToConnect \notin ConnectInvalid /\ tip' = NextToConnect
        /\ cands' = PruneBlockIndexCandidates(cands, tip') /\ UNCHANGED <<failed, have, linked>>
        /\ \/ StepEnds(tip', mostWork) /\ (Work[tip'] > Work[oldTip] \/ tip' = mostWork)
           \/ UNCHANGED <<pc, mostWork>> /\ tip' # mostWork
    BY Zenon, <1>22 DEF ConnectTip, index, abc
  <2>2. /\ mostWork # NoBlock /\ mostWork \in linked /\ tip' \in ChainOf[mostWork] \ ChainOf[tip]
        /\ tip' \in Blocks \ {Genesis} /\ Parent[tip'] = tip
    BY Zenon, <2>1, NextFacts DEF TargetInv
  <2>3. ChainOf[tip'] = {tip'} \cup ChainOf[tip]
    BY Zenon, <2>2, TreeAssumption
  <2>4. ChainOf[tip'] \cap (failed' \cup ConnectInvalid) = {}
    BY Zenon, <2>1, <2>2, <2>3 DEF TargetInv
  <2>5. \A b \in cands' : Work[b] >= Work[tip']
    BY Zenon, <1>3, <2>1, <2>2, NotWorse DEF PruneBlockIndexCandidates, Worse
  <2>6. Work[mostWork] >= Work[tip'] /\ ChainOf[mostWork] \ ChainOf[tip'] \subseteq have'
    BY Zenon, <1>3, <2>1, <2>2, <2>3, WorkOnPath, WorkOrder DEF TargetInv
  <2>7. CASE StepEnds(tip', mostWork)
    <3>1. pc' \in {"idle", "abc", "find"} /\ mostWork' = IF pc' = "idle" THEN NoBlock ELSE mostWork
      BY Zenon, <2>7 DEF StepEnds, AfterStep, EndOfIteration
    <3> QED BY Zenon, <1>1, <2>1, <2>2, <2>4, <2>5, <2>6, <3>1 DEF TargetInv
  <2>8. CASE UNCHANGED <<pc, mostWork>> /\ tip' # mostWork
    BY Zenon, <1>1, <2>1, <2>2, <2>4, <2>5, <2>6, <2>8 DEF TargetInv
  <2> QED BY Zenon, <2>1, <2>7, <2>8
<1>23. CASE ConnectTipInvalid
  <2>1. /\ pc = "conn" /\ failed' = failed \cup {NextToConnect} \cup DescendantsOf(NextToConnect)
        /\ cands' \subseteq cands /\ tip' = tip /\ mostWork' = NoBlock /\ pc' \in {"idle", "abc", "find"}
    BY Zenon, <1>23 DEF ConnectTipInvalid, InvalidBlockFound, StepEnds, AfterStep, EndOfIteration
  <2>2. NextToConnect \in Blocks \ {Genesis} /\ NextToConnect \notin ChainOf[tip]
    BY Zenon, <2>1, NextFacts
  <2>3. ChainOf[tip] \cap ({NextToConnect} \cup DescendantsOf(NextToConnect)) = {}
    BY Zenon, <1>3, <2>2, DescendantsFacts
  <2> QED BY Zenon, <1>1, <2>1, <2>3 DEF TargetInv
<1>24. CASE InvalidateDisconnect
  <2> DEFINE newTip == Parent[tip]
             atLeast == {c \in inv.highpow : Work[c] >= Work[newTip]}
             under == {c \in atLeast : Descends(c, tip)}
             rest == atLeast \ under
  <2>1. /\ pc = "inv" /\ UNCHANGED <<pc, mostWork>> /\ failed' = failed \cup {tip} \cup under
        /\ cands' = (cands \ {tip}) \cup {newTip} \cup {c \in rest : ~Worse(c, newTip) /\ Eligible(c, failed)}
    BY Zenon, <1>24 DEF InvalidateDisconnect, abc
  <2>2. tip' = newTip /\ newTip \in ChainOf[tip] /\ tip \notin ChainOf[newTip]
    BY Zenon, <1>24, InvalidateFacts
  <2>3. \A c \in under : tip \in ChainOf[c]
    BY Zenon DEF Descends
  <2>4. \A c \in rest : Work[c] >= Work[newTip]
    BY Zenon
  <2>5. newTip \in Blocks /\ Work[newTip] >= Work[newTip]
    BY Zenon, <1>19, <2>2, WorkOrder
  <2> HIDE DEF newTip, under, rest
  <2>6. \A b \in cands' : Work[b] >= Work[newTip]
    BY Zenon, <1>19, <2>1, <2>2, <2>4, <2>5
  <2>7. ChainOf[newTip] \cap ({tip} \cup under) = {}
    BY Zenon, <2>2, <2>3, <2>5 DEF TreeFacts, PathFacts
  <2>8. ChainOf[newTip] \cap (failed' \cup ConnectInvalid) = {}
    BY Zenon, <1>19, <2>1, <2>2, <2>7
  <2> QED BY Zenon, <1>1, <2>1, <2>2, <2>6, <2>8 DEF TargetInv
<1>25. CASE InvalidateFinish
  <2>1. PICK mark \in {{}, {inv.block} \ failed} :
          /\ mark = IF inv.wasInChain THEN {} ELSE {inv.block} \ failed
          /\ failed' = failed \cup mark \cup DescendantsOf(inv.toMark)
          /\ cands' = (cands \ mark) \cup MissedCandidates(failed \cup mark)
          /\ pc = "inv" /\ pc' = "idle" /\ UNCHANGED <<tip, mostWork>>
          /\ ~InChain(inv.toMark) \/ ~InChain(inv.block)
    BY Zenon, <1>25 DEF InvalidateFinish, InvalidateReturns, abc
  <2>2. /\ inv.toMark \in Blocks \ {Genesis} /\ inv.block \in ChainOf[inv.toMark]
        /\ ~inv.wasInChain => inv.toMark = inv.block
    BY Zenon, <2>1 DEF InvalidateInv, StoreInv
  <2>3. inv.toMark \notin ChainOf[tip]
    <3>1. SUFFICES ASSUME inv.toMark \in ChainOf[tip] PROVE FALSE
      BY Zenon
    <3>2. \A m \in ChainOf[tip] : ChainOf[m] \subseteq ChainOf[tip]
      BY Zenon, <1>3 DEF TreeFacts, PathFacts
    <3> QED BY Zenon, <2>1, <2>2, <3>1, <3>2 DEF InChain
  <2>4. ChainOf[tip] \cap ({inv.toMark} \cup DescendantsOf(inv.toMark)) = {}
    BY Zenon, <1>3, <2>2, <2>3, DescendantsFacts
  <2>5. ChainOf[tip] \cap failed' = {}
    BY Zenon, <2>1, <2>2, <2>4 DEF TargetInv
  <2>6. \A b \in MissedCandidates(failed \cup mark) : Work[b] >= Work[tip]
    BY Zenon, <1>3, NotWorse DEF MissedCandidates, Worse, StoreInv
  <2>7. \A b \in cands' : Work[b] >= Work[tip]
    BY Zenon, <2>1, <2>6 DEF TargetInv
  <2> QED BY Zenon, <1>1, <2>1, <2>5, <2>7 DEF TargetInv
<1> QED
  BY Zenon, <1>5, <1>6, <1>7, <1>8, <1>9, <1>10, <1>11, <1>12, <1>13, <1>14, <1>15, <1>16, <1>17, <1>18,
     <1>20, <1>21, <1>22, <1>23, <1>24, <1>25
     DEF Next, Activate, Invalidate
-----------------------------------------------------------------------------
(* InvalidateBlock, and how marks are passed on.                           *)

\* While InvalidateBlock has given up cs_main, others leave its locals and the tip
\* alone: m_chainstate_mutex keeps ActivateBestChain out.
LEMMA InvalidateQuiet ==
    ASSUME [Next]_vars
    PROVE  \/ inv' = inv /\ (pc' = "inv" => pc = "inv" /\ tip' = tip)
           \/ \E b \in Blocks \ {Genesis} : InvalidateBlock(b)
           \/ InvalidateDisconnect \/ InvalidateFails \/ InvalidateFinish
<1>1. CASE UNCHANGED vars
  BY Zenon, <1>1 DEF vars
<1>2. ASSUME NEW b \in Blocks,
             \/ AcceptBlockHeader(b) \/ RejectBlock(b) \/ ProcessNewBlock(b)
             \/ PruneBlock(b) \/ ReconsiderBlock(b) \/ PreciousBlock(b)
      PROVE  UNCHANGED <<inv, pc, tip>>
  BY Zenon, <1>2
     DEF AcceptBlockHeader, RejectBlock, ProcessNewBlock, PruneBlock, ReconsiderBlock, PreciousBlock
<1>3. CASE LinkBlock \/ Interrupt \/ Restart
  BY Zenon, <1>3 DEF LinkBlock, Interrupt, Restart
<1>4. CASE Activate
  BY Zenon, <1>4
     DEF Activate, ActivateBestChain, FindMostWorkChain, NothingToDo, DisconnectToFork,
         DisconnectFails, ConnectTip, ConnectTipInvalid, StepEnds, AfterStep, EndOfIteration
<1> QED BY Zenon, <1>1, <1>2, <1>3, <1>4 DEF Next, Invalidate

\* InvalidateBlock goes down from the tip to its block.
LEMMA InvalidateKept ==
    ASSUME TreeFacts, StoreInv, IndexInv, InvalidateInv, StoreInv', [Next]_vars
    PROVE  InvalidateInv'
<1>1. known \subseteq known'
  BY Zenon, Grows
<1>2. calls > 0 => calls' > 0
  BY Frame DEF IndexInv
<1>3. CASE inv' = inv /\ (pc' = "inv" => pc = "inv" /\ tip' = tip)
  BY Zenon, <1>1, <1>2, <1>3 DEF InvalidateInv
<1>4. ASSUME NEW b \in Blocks \ {Genesis}, InvalidateBlock(b)
      PROVE  InvalidateInv'
  <2>1. /\ b \in known \ {Genesis} /\ known' = known /\ calls' = calls + 1
        /\ inv' = [block |-> b, toMark |-> b, wasInChain |-> FALSE,
                   highpow |-> {c \in known \ failed : ~InChain(c) /\ ~Worse(c, Parent[b])}]
    BY Zenon, <1>4 DEF InvalidateBlock, UserCall, index
  <2>2. calls' > 0
    BY <2>1 DEF IndexInv
  <2>3. b \in ChainOf[b] /\ known \subseteq Blocks
    BY Zenon DEF TreeFacts, PathFacts, StoreInv
  <2> QED BY Zenon, <2>1, <2>2, <2>3 DEF InvalidateInv
<1>5. CASE InvalidateDisconnect
  <2>1. PICK h \in SUBSET inv.highpow :
          /\ inv' = [inv EXCEPT !.toMark = tip, !.wasInChain = TRUE, !.highpow = h]
          /\ pc = "inv" /\ known' = known
    <3> DEFINE newTip == Parent[tip]
               atLeast == {c \in inv.highpow : Work[c] >= Work[newTip]}
               under == {c \in atLeast : Descends(c, tip)}
    <3>1. /\ inv' = [inv EXCEPT !.toMark = tip, !.wasInChain = TRUE, !.highpow = inv.highpow \ under]
          /\ pc = "inv" /\ known' = known
      BY Zenon, <1>5 DEF InvalidateDisconnect
    <3>2. inv.highpow \ under \in SUBSET inv.highpow
      BY Zenon
    <3> QED BY Zenon, <3>1, <3>2
  <2>2. /\ tip \in Blocks \ {Genesis} /\ tip' = Parent[tip] /\ inv.block \in ChainOf[tip] /\ tip \in known
    BY Zenon, <1>5, InvalidateFacts DEF StoreInv, IndexInv
  <2>3. /\ inv' = [block |-> inv.block, toMark |-> tip, wasInChain |-> TRUE, highpow |-> h]
    BY Zenon, <2>1 DEF InvalidateInv
  <2>4. /\ inv.block \in known \ {Genesis} /\ inv.block \in Blocks \cup {NoBlock}
        /\ h \in SUBSET Blocks /\ h \subseteq known /\ calls > 0
    BY Zenon, <2>1 DEF InvalidateInv, StoreInv
  <2> QED BY Zenon, <1>2, <2>1, <2>2, <2>3, <2>4 DEF InvalidateInv
<1>6. CASE InvalidateFails \/ InvalidateFinish
  <2>1. inv' = NoInvalidate /\ pc' = "idle"
    BY Zenon, <1>6 DEF InvalidateFails, InvalidateFinish, InvalidateReturns
  <2> QED BY Zenon, <2>1 DEF InvalidateInv, NoInvalidate
<1> QED BY Zenon, <1>3, <1>4, <1>5, <1>6, InvalidateQuiet

\* Without pruning the data of every block that was received is there.
LEMMA DataKept ==
    ASSUME TreeFacts, StoreInv, IndexInv, NeverPruned => ntx \subseteq have, [Next]_vars
    PROVE  NeverPruned' => ntx' \subseteq have'
<1>1. NeverPruned' = NeverPruned
  BY Zenon, Frame DEF NeverPruned
<1>2. CASE UNCHANGED <<ntx, have>>
  BY Zenon, <1>1, <1>2
<1>3. ASSUME NEW b \in Blocks, ProcessNewBlock(b)
      PROVE  NeverPruned' => ntx' \subseteq have'
  BY Zenon, <1>1, <1>3 DEF ProcessNewBlock
<1>4. ASSUME NEW b \in Blocks \ {Genesis}, PruneBlock(b)
      PROVE  ~NeverPruned
  <2>1. b \in known \ {Genesis} /\ Height(b) + scenario.keepBlocks <= Height(tip) /\ tip \in known
    BY Zenon, <1>4 DEF PruneBlock, StoreInv, IndexInv
  <2>2. b \in scenario.blocks /\ Genesis \in ChainOf[b]
    BY Zenon, <2>1 DEF StoreInv, TreeFacts, PathFacts
  <2>3. tip \in scenario.blocks
    BY Zenon, <2>1, <2>2, ScenarioFacts DEF StoreInv
  <2> QED BY Zenon, <2>1, <2>2, <2>3 DEF NeverPruned
<1>5. CASE LinkBlock \/ FindMostWorkChain \/ Restart
  BY Zenon, <1>2, <1>5 DEF LinkBlock, FindMostWorkChain, Restart
<1>6. ASSUME NEW b \in Blocks, AcceptBlockHeader(b)
      PROVE  UNCHANGED <<ntx, have>>
  BY Zenon, <1>6 DEF AcceptBlockHeader
<1> QED BY Zenon, <1>1, <1>2, <1>3, <1>4, <1>5, <1>6, StoreQuiet

\* InvalidBlockFound marks the descendants of the block too.
LEMMA MarkedFound ==
    ASSUME TreeFacts, StoreInv, NEW b \in Blocks, NEW S, Marked(S), known' = known,
           failed' = failed \cup {b} \cup DescendantsOf(b)
    PROVE  \A y \in known' : ChainOf[y] \cap failed' # {} => y \in failed' \cup S
<1>1. ASSUME NEW y \in known, NEW x \in ChainOf[y], x \in failed'
      PROVE  y \in failed' \cup S
  <2>1. CASE x \in failed
    BY Zenon, <2>1 DEF Marked
  <2>2. CASE x = b \/ x \in DescendantsOf(b)
    <3>1. b \in ChainOf[y]
      BY Zenon, <1>1, <2>2 DEF DescendantsOf, Descends, TreeFacts, PathFacts, StoreInv
    <3> QED BY Zenon, <1>1, <3>1 DEF DescendantsOf, Descends
  <2> QED BY Zenon, <1>1, <2>1, <2>2
<1> QED BY Zenon, <1>1

\* ResetBlockFailureFlags clears a whole line: no block below one that is cleared
\* stays marked.
LEMMA MarkedCleared ==
    ASSUME TreeFacts, StoreInv, NEW b \in Blocks, NEW S, Marked(S), known' = known,
           failed' = failed \ Cleared(b)
    PROVE  \A y \in known' : ChainOf[y] \cap failed' # {} => y \in failed' \cup S
<1>1. ASSUME NEW y \in known, NEW x \in ChainOf[y], x \in failed', y \in failed, y \notin failed'
      PROVE  FALSE
  <2>1. y \in Blocks /\ x \in failed /\ b \notin ChainOf[x] /\ x \notin ChainOf[b]
    BY Zenon, <1>1 DEF Cleared, Descends, StoreInv
  <2>2. b \in ChainOf[y] \/ y \in ChainOf[b]
    BY Zenon, <1>1 DEF Cleared, Descends
  <2> QED BY Zenon, <1>1, <2>1, <2>2 DEF TreeFacts, PathFacts
<1>2. ASSUME NEW y \in known, NEW x \in ChainOf[y], x \in failed'
      PROVE  y \in failed' \cup S
  BY Zenon, <1>1, <1>2 DEF Marked
<1> QED BY Zenon, <1>2

\* FindMostWorkChain marks nothing new when the descendants of a marked block are
\* marked.
LEMMA NoNewMarks ==
    ASSUME TreeFacts, StoreInv, IndexInv, Marked({}), FindMostWorkChain
    PROVE  failed' = failed
<1>1. cands # {}
  BY Zenon DEF FindMostWorkChain
<1>2. PICK c \in linked : c = BestOf(cands)
  BY Zenon, <1>1, BestCandidate DEF IndexInv
<1>3. c \in Blocks /\ tip \in Blocks /\ ChainOf[c] \subseteq known
  BY Zenon, <1>2 DEF StoreInv, IndexInv
<1>4. ASSUME failed' # failed PROVE FALSE
  <2> DEFINE test == HighestOf(Unusable(c))
  <2>1. Unusable(c) # {} /\ test \in failed /\ failed' = failed \cup (RuledOut(c) \ {test})
    BY Zenon, <1>2, <1>4 DEF FindMostWorkChain
  <2>2. test \in ChainOf[c] /\ RuledOut(c) \ {test} = ChainOf[c] \ ChainOf[test]
    BY Zenon, <1>3, <2>1, UnusableFacts
  <2> HIDE DEF test
  <2>3. ASSUME NEW x \in ChainOf[c] \ ChainOf[test] PROVE x \in failed
    <3>1. test \in ChainOf[x] /\ x \in known
      BY Zenon, <1>3, <2>2 DEF TreeFacts, PathFacts
    <3> QED BY Zenon, <2>1, <3>1 DEF Marked
  <2> QED BY Zenon, <1>4, <2>1, <2>2, <2>3
<1> QED BY Zenon, <1>4

\* A call has been made.
LEMMA PositiveCalls == ~(0 > 0)
OBVIOUS

\* A mark is on every descendant again when InvalidateBlock is done; it is not only
\* if DisconnectTip fails for want of data, after a block has been pruned.
LEMMA MarksKept ==
    ASSUME TreeFacts, StoreInv, IndexInv, TargetInv, InvalidateInv, FailureInv, [Next]_vars
    PROVE  Orderly' =>
             /\ pc' \notin {"inv", "undefined"} \/ (pc' = "inv" /\ ~inv'.wasInChain) => Marked({})'
             /\ pc' = "inv" /\ inv'.wasInChain => Marked(DescendantsOf(inv.toMark))'
<1> DEFINE Goal ==
             /\ pc' \notin {"inv", "undefined"} \/ (pc' = "inv" /\ ~inv'.wasInChain) => Marked({})'
             /\ pc' = "inv" /\ inv'.wasInChain => Marked(DescendantsOf(inv.toMark))'
           Plain(S) == \A y \in known' : ChainOf[y] \cap failed' # {} => y \in failed' \cup S
<1> SUFFICES ASSUME Orderly' PROVE Goal
  BY Zenon
<1>1. Orderly
  BY Frame DEF Orderly, NeverPruned, IndexInv
<1>2. /\ pc \notin {"inv", "undefined"} \/ (pc = "inv" /\ ~inv.wasInChain) => Marked({})
      /\ pc = "inv" /\ inv.wasInChain => Marked(DescendantsOf(inv.toMark))
  BY Zenon, <1>1 DEF FailureInv
<1>3. Plain({}) <=> Marked({})'
  BY Zenon DEF Marked
<1>4. ASSUME inv' = inv, known' = known
      PROVE  Plain(DescendantsOf(inv.toMark)) <=> Marked(DescendantsOf(inv.toMark))'
  BY Zenon, <1>4 DEF Marked, DescendantsOf
<1>5. ASSUME UNCHANGED <<known, failed, inv>>,
             pc' = pc \/ pc' = "undefined" \/ (pc' # "inv" /\ pc \notin {"inv", "undefined"})
      PROVE  Goal
  <2>1. \A S : Marked(S) => Plain(S)
    BY Zenon, <1>5 DEF Marked
  <2> QED BY Zenon, <1>2, <1>3, <1>4, <1>5, <2>1
<1>6. ASSUME \A S : Marked(S) => Plain(S), UNCHANGED <<known, inv, pc>>
      PROVE  Goal
  BY Zenon, <1>2, <1>3, <1>4, <1>6
<1> HIDE DEF Goal, Plain
<1>7. CASE UNCHANGED vars \/ LinkBlock \/ Interrupt
  BY Zenon, <1>5, <1>7 DEF vars, LinkBlock, Interrupt, index
<1>8. ASSUME NEW b \in Blocks, ProcessNewBlock(b) \/ PruneBlock(b) \/ PreciousBlock(b)
      PROVE  Goal
  BY Zenon, <1>5, <1>8 DEF ProcessNewBlock, PruneBlock, PreciousBlock, index
<1>9. CASE ActivateBestChain \/ NothingToDo \/ DisconnectToFork \/ DisconnectFails
  BY Zenon, <1>5, <1>9
     DEF ActivateBestChain, NothingToDo, DisconnectToFork, DisconnectFails, EndOfIteration, index
<1>10. CASE ConnectTip
  BY Zenon, <1>5, <1>10 DEF ConnectTip, StepEnds, AfterStep, EndOfIteration, index
<1>11. ASSUME NEW b \in Blocks \ {Genesis}, AcceptBlockHeader(b)
       PROVE  Goal
  <2>1. /\ known' = known \cup {b} /\ b \notin known /\ Parent[b] \in known \ failed
        /\ UNCHANGED <<failed, inv, pc>> /\ pc # "undefined"
    BY Zenon, <1>11 DEF AcceptBlockHeader, CsMainFree
  <2>2. b \notin failed /\ \A x : x \in ChainOf[b] <=> (x = b \/ x \in ChainOf[Parent[b]])
    BY Zenon, <2>1, Genealogy DEF IndexInv
  <2>3. ASSUME Marked({}) PROVE Plain({})
    <3>1. \A x \in ChainOf[b] : x \notin failed
      BY Zenon, <2>1, <2>2, <2>3 DEF Marked
    <3> QED BY Zenon, <2>1, <2>3, <3>1 DEF Marked, Plain
  <2>4. ASSUME Marked(DescendantsOf(inv.toMark)), pc = "inv" PROVE Marked(DescendantsOf(inv.toMark))'
    <3>1. DescendantsOf(inv.toMark)' = {d \in known' \ {inv.toMark} : Descends(d, inv.toMark)}
      BY Zenon, <2>1 DEF DescendantsOf, Descends
    <3>2. inv.toMark \in known
      BY Zenon, <2>4 DEF InvalidateInv
    <3>3. DescendantsOf(inv.toMark) \subseteq DescendantsOf(inv.toMark)'
      BY Zenon, <2>1, <3>1 DEF DescendantsOf
    <3>4. ASSUME ChainOf[Parent[b]] \cap failed # {} PROVE b \in DescendantsOf(inv.toMark)'
      <4>1. Parent[b] \in DescendantsOf(inv.toMark)
        BY Zenon, <2>1, <2>4, <3>4 DEF Marked
      <4>2. inv.toMark \in ChainOf[Parent[b]]
        BY Zenon, <4>1 DEF DescendantsOf, Descends
      <4> QED BY Zenon, <2>1, <2>2, <3>1, <3>2, <4>2 DEF Descends
    <3>5. \A y \in known' : ChainOf[y] \cap failed' # {} => y \in failed' \cup DescendantsOf(inv.toMark)'
      BY Zenon, <2>1, <2>2, <2>4, <3>3, <3>4 DEF Marked
    <3> QED BY Zenon, <3>5 DEF Marked
  <2> QED BY Zenon, <1>2, <1>3, <2>1, <2>3, <2>4 DEF Goal
<1>12. ASSUME NEW b \in Blocks, RejectBlock(b)
       PROVE  Goal
  <2>1. /\ failed' = failed \cup {b} \cup DescendantsOf(b) /\ UNCHANGED <<known, inv, pc>>
    BY Zenon, <1>12 DEF RejectBlock, InvalidBlockFound
  <2>2. \A S : Marked(S) => Plain(S)
    BY Zenon, <2>1, MarkedFound DEF Plain
  <2> QED BY Zenon, <1>6, <2>1, <2>2
<1>13. CASE ConnectTipInvalid
  <2>1. /\ pc = "conn" /\ failed' = failed \cup {NextToConnect} \cup DescendantsOf(NextToConnect)
        /\ known' = known /\ pc' \in {"idle", "abc", "find"}
    BY Zenon, <1>13 DEF ConnectTipInvalid, InvalidBlockFound, StepEnds, AfterStep, EndOfIteration
  <2>2. Plain({})
    BY Zenon, <1>2, <2>1, NextFacts, MarkedFound DEF Plain
  <2> QED BY Zenon, <1>3, <2>1, <2>2 DEF Goal
<1>14. ASSUME NEW b \in Blocks, ReconsiderBlock(b)
       PROVE  Goal
  <2>1. failed' = failed \ Cleared(b) /\ UNCHANGED <<known, inv, pc>>
    BY Zenon, <1>14 DEF ReconsiderBlock
  <2>2. \A S : Marked(S) => Plain(S)
    BY Zenon, <2>1, MarkedCleared DEF Plain
  <2> QED BY Zenon, <1>6, <2>1, <2>2
<1>15. CASE FindMostWorkChain
  <2>1. cands # {} /\ pc = "find" /\ UNCHANGED <<known, inv, pc>>
    BY Zenon, <1>15 DEF FindMostWorkChain
  <2>2. failed' = failed
    BY Zenon, <1>2, <1>15, <2>1, NoNewMarks
  <2> QED BY Zenon, <1>5, <2>1, <2>2
<1>16. ASSUME NEW b \in Blocks, InvalidateBlock(b)
       PROVE  Goal
  <2>1. /\ pc = "idle" /\ pc' = "inv" /\ inv'.wasInChain = FALSE /\ UNCHANGED <<known, failed>>
    BY Zenon, <1>16 DEF InvalidateBlock, index
  <2>2. Plain({})
    BY Zenon, <1>2, <2>1 DEF Marked, Plain
  <2> QED BY Zenon, <1>3, <2>1, <2>2 DEF Goal
<1>17. CASE InvalidateDisconnect
  <2> DEFINE newTip == Parent[tip]
             atLeast == {c \in inv.highpow : Work[c] >= Work[newTip]}
             under == {c \in atLeast : Descends(c, tip)}
  <2>1. /\ pc = "inv" /\ pc' = "inv" /\ failed' = failed \cup {tip} \cup under /\ known' = known
        /\ inv' = [inv EXCEPT !.toMark = tip, !.wasInChain = TRUE, !.highpow = inv.highpow \ under]
    BY Zenon, <1>17 DEF InvalidateDisconnect
  <2>2. /\ tip \in Blocks \ {Genesis} /\ inv.highpow \subseteq known /\ inv.toMark \in Blocks \ {Genesis}
        /\ inv.wasInChain => Parent[inv.toMark] = tip
    BY Zenon, <1>17, <2>1, InvalidateFacts DEF InvalidateInv, StoreInv
  <2>3. inv'.toMark = tip /\ inv'.wasInChain
    BY <2>1 DEF InvalidateInv
  <2>4. \A c \in under : tip \in ChainOf[c] /\ c \in known
    BY Zenon, <2>2 DEF Descends
  <2> HIDE DEF under
  <2>5. DescendantsOf(inv.toMark)' = {d \in known \ {tip} : tip \in ChainOf[d]}
    BY Zenon, <2>1, <2>3 DEF DescendantsOf, Descends
  <2>6. inv.wasInChain =>
          /\ inv.toMark \notin ChainOf[tip]
          /\ \A x : x \in ChainOf[inv.toMark] <=> (x = inv.toMark \/ x \in ChainOf[tip])
    BY Zenon, <2>2, Genealogy
  <2>7. ASSUME inv.wasInChain, NEW y \in DescendantsOf(inv.toMark)
        PROVE  tip \in ChainOf[y] /\ y # tip
    <3>1. inv.toMark \in ChainOf[y] /\ y \in Blocks
      BY Zenon DEF DescendantsOf, Descends, StoreInv
    <3>2. tip \in ChainOf[tip]
      BY Zenon, <2>2 DEF TreeFacts, PathFacts
    <3>3. \A m \in ChainOf[y] : ChainOf[m] \subseteq ChainOf[y]
      BY Zenon, <3>1 DEF TreeFacts, PathFacts
    <3> QED BY Zenon, <2>6, <2>7, <3>1, <3>2, <3>3
  <2>8. ASSUME NEW y \in known, NEW x \in ChainOf[y], x \in failed'
        PROVE  y \in failed' \/ (tip \in ChainOf[y] /\ y # tip)
    <3>1. CASE x \in failed
      <4>1. CASE inv.wasInChain
        BY Zenon, <1>2, <2>1, <2>7, <2>8, <3>1, <4>1 DEF Marked, DescendantsOf
      <4>2. CASE ~inv.wasInChain
        BY Zenon, <1>2, <2>1, <2>8, <3>1, <4>2 DEF Marked
      <4> QED BY Zenon, <4>1, <4>2
    <3>2. CASE x = tip \/ x \in under
      <4>1. y \in Blocks /\ tip \in ChainOf[tip]
        BY Zenon, <2>2, <2>8 DEF TreeFacts, PathFacts, StoreInv
      <4>2. tip \in ChainOf[x]
        BY Zenon, <2>4, <3>2, <4>1
      <4>3. ChainOf[x] \subseteq ChainOf[y]
        BY Zenon, <2>8, <4>1 DEF TreeFacts, PathFacts
      <4> QED BY Zenon, <2>1, <4>2, <4>3
    <3> QED BY Zenon, <2>1, <2>8, <3>1, <3>2
  <2>9. \A y \in known' : ChainOf[y] \cap failed' # {} => y \in failed' \cup DescendantsOf(inv.toMark)'
    BY Zenon, <2>1, <2>5, <2>8
  <2>10. Marked(DescendantsOf(inv.toMark))'
    BY Zenon, <2>9 DEF Marked
  <2> QED BY Zenon, <2>1, <2>3, <2>10 DEF Goal
<1>18. CASE InvalidateFails
  <2>1. /\ pc = "inv" /\ pc' = "idle" /\ UNCHANGED <<known, failed>>
        /\ IF stop THEN InChain(inv.toMark) ELSE tip \notin have
    BY Zenon, <1>18 DEF InvalidateFails, InvalidateReturns, index
  <2>2. tip \in have
    BY Zenon, <1>1, <2>1, PositiveCalls DEF Orderly, FailureInv, InvalidateInv, IndexInv, StoreInv
  <2>3. ~inv.wasInChain
    <3>1. SUFFICES ASSUME inv.wasInChain PROVE FALSE
      BY Zenon
    <3>2. Parent[inv.toMark] = tip /\ inv.toMark \in Blocks \ {Genesis} /\ inv.toMark \in ChainOf[tip]
      BY Zenon, <2>1, <2>2, <3>1 DEF InvalidateInv, InChain, StoreInv
    <3> QED BY Zenon, <3>2, TreeAssumption
  <2>4. Plain({})
    BY Zenon, <1>2, <2>1, <2>3 DEF Marked, Plain
  <2> QED BY Zenon, <1>3, <2>1, <2>4 DEF Goal
<1>19. CASE InvalidateFinish
  <2>1. /\ pc = "inv" /\ pc' = "idle" /\ known' = known
        /\ failed' = failed \cup (IF inv.wasInChain THEN {} ELSE {inv.block} \ failed) \cup DescendantsOf(inv.toMark)
    BY Zenon, <1>19 DEF InvalidateFinish, InvalidateReturns
  <2>2. CASE inv.wasInChain
    <3>1. failed' = failed \cup DescendantsOf(inv.toMark) /\ Marked(DescendantsOf(inv.toMark))
      BY Zenon, <1>2, <2>1, <2>2
    <3>2. ASSUME NEW y \in known, NEW x \in ChainOf[y], x \in DescendantsOf(inv.toMark)
          PROVE  y \in DescendantsOf(inv.toMark)
      <4>1. x \in known /\ x # inv.toMark /\ inv.toMark \in ChainOf[x] /\ y \in Blocks /\ inv.toMark \in Blocks
        BY Zenon, <2>1, <3>2 DEF DescendantsOf, Descends, StoreInv, InvalidateInv
      <4>2. ChainOf[x] \subseteq ChainOf[y]
        BY Zenon, <3>2, <4>1 DEF TreeFacts, PathFacts
      <4>3. x \in Blocks
        BY Zenon, <4>1 DEF StoreInv
      <4>4. y \in ChainOf[x] => x = y
        BY Zenon, <3>2, <4>1, <4>3 DEF TreeFacts, PathFacts
      <4> QED BY Zenon, <4>1, <4>2, <4>4 DEF DescendantsOf, Descends
    <3>3. Plain({})
      BY Zenon, <2>1, <3>1, <3>2 DEF Marked, Plain
    <3> QED BY Zenon, <1>3, <2>1, <3>3 DEF Goal
  <2>3. CASE ~inv.wasInChain
    <3>1. inv.toMark = inv.block /\ inv.toMark \in Blocks /\ Marked({})
      BY Zenon, <1>2, <2>1, <2>3 DEF InvalidateInv, StoreInv
    <3>2. failed' = failed \cup {inv.toMark} \cup DescendantsOf(inv.toMark)
      BY Zenon, <2>1, <2>3, <3>1
    <3>3. Plain({})
      BY Zenon, <2>1, <3>1, <3>2, MarkedFound DEF Plain
    <3> QED BY Zenon, <1>3, <2>1, <3>3 DEF Goal
  <2> QED BY Zenon, <2>2, <2>3
<1>20. CASE Restart
  <2>1. /\ pc' = "idle" /\ known' = known /\ failed' = {b \in known : ChainOf[b] \cap failed # {}}
    BY Zenon, <1>20 DEF Restart
  <2>2. ASSUME NEW y \in known, NEW x \in ChainOf[y], x \in failed' PROVE y \in failed'
    <3>1. PICK z \in ChainOf[x] : z \in failed
      BY Zenon, <2>1, <2>2
    <3>2. z \in ChainOf[y]
      BY Zenon, <2>2, <3>1 DEF TreeFacts, PathFacts, StoreInv
    <3> QED BY Zenon, <2>1, <3>1, <3>2
  <2>3. Plain({})
    BY Zenon, <2>1, <2>2 DEF Plain
  <2> QED BY Zenon, <1>3, <2>1, <2>3 DEF Goal
<1> QED
  BY Zenon, <1>7, <1>8, <1>9, <1>10, <1>11, <1>12, <1>13, <1>14, <1>15, <1>16, <1>17, <1>18, <1>19, <1>20
     DEF Next, Activate, Invalidate

\* The header a scan settles on is not failed and has the most work.
LEMMA Rescan ==
    ASSUME NEW F, NEW t \in known \ F
    PROVE  RecalculateBestHeader(F, t) \subseteq MostWorkOf(known \ F)
<1>1. (known \ F) \cup {t} = known \ F
  BY Zenon
<1> QED BY Zenon, <1>1 DEF RecalculateBestHeader, MostWorkOf

\* InvalidBlockFound replaces m_best_header when it is marked.
LEMMA BestHeaderFound ==
    ASSUME TreeFacts, StoreInv, IndexInv, bestHeader \in MostWorkOf(known \ failed),
           NEW b \in Blocks \ {Genesis}, b \notin ChainOf[tip], ChainOf[tip] \cap failed = {},
           InvalidBlockFound(b)
    PROVE  bestHeader' \in MostWorkOf(known \ failed')
<1>1. failed' = failed \cup {b} \cup DescendantsOf(b) /\ bestHeader' \in BestHeaderAfter(failed', b)
  BY Zenon DEF InvalidBlockFound
<1>2. tip \in Blocks /\ tip \in known /\ tip \in ChainOf[tip] /\ b \in ChainOf[b]
  BY Zenon DEF TreeFacts, PathFacts, StoreInv, IndexInv
<1>3. tip \in known \ failed'
  BY Zenon, <1>1, <1>2, DescendantsFacts
<1>4. CASE Descends(bestHeader, b)
  BY Zenon, <1>1, <1>3, <1>4, Rescan DEF BestHeaderAfter
<1>5. CASE ~Descends(bestHeader, b)
  <2>1. bestHeader' = bestHeader
    BY Zenon, <1>1, <1>5 DEF BestHeaderAfter
  <2>2. bestHeader \in known \ failed'
    BY Zenon, <1>1, <1>2, <1>5 DEF MostWorkOf, DescendantsOf, Descends
  <2> QED BY Zenon, <1>1, <2>1, <2>2 DEF MostWorkOf
<1> QED BY Zenon, <1>4, <1>5

\* As long as no user call has been made, m_best_header has the most work among the
\* headers that have not failed.
LEMMA BestHeaderKept ==
    ASSUME TreeFacts, StoreInv, IndexInv, TargetInv, InvalidateInv, FailureInv, [Next]_vars
    PROVE  calls' = 0 => (bestHeader \in MostWorkOf(known \ failed))'
<1> SUFFICES ASSUME calls' = 0 PROVE bestHeader' \in MostWorkOf(known' \ failed')
  BY Zenon, Frame DEF MostWorkOf, Work
<1>1. calls = 0 /\ calls' # calls + 1
  BY Frame DEF IndexInv
<1>2. pc # "inv"
  BY Zenon, <1>1, PositiveCalls DEF InvalidateInv
<1>3. bestHeader \in MostWorkOf(known \ failed) /\ (pc # "undefined" => Marked({}))
  BY Zenon, <1>1, <1>2 DEF FailureInv, Orderly
<1>4. CASE UNCHANGED <<known, failed, bestHeader>>
  BY Zenon, <1>3, <1>4
<1>5. CASE UNCHANGED vars \/ LinkBlock \/ Interrupt
  BY Zenon, <1>4, <1>5 DEF vars, LinkBlock, Interrupt, index, sets
<1>6. ASSUME NEW b \in Blocks, ProcessNewBlock(b) \/ PruneBlock(b)
      PROVE  UNCHANGED <<known, failed, bestHeader>>
  BY Zenon, <1>6 DEF ProcessNewBlock, PruneBlock
<1>7. CASE ActivateBestChain \/ NothingToDo \/ DisconnectToFork \/ DisconnectFails \/ ConnectTip
  BY Zenon, <1>4, <1>7
     DEF ActivateBestChain, NothingToDo, DisconnectToFork, DisconnectFails, ConnectTip, index, sets
<1>8. CASE FindMostWorkChain
  <2>1. pc = "find" /\ UNCHANGED <<known, bestHeader>>
    BY Zenon, <1>8 DEF FindMostWorkChain
  <2> QED BY Zenon, <1>3, <1>4, <1>8, <2>1, NoNewMarks
<1>9. CASE Invalidate
  BY Zenon, <1>2, <1>9 DEF Invalidate, InvalidateDisconnect, InvalidateFails, InvalidateFinish
<1>10. ASSUME NEW b \in Blocks, InvalidateBlock(b) \/ ReconsiderBlock(b) \/ PreciousBlock(b)
       PROVE  FALSE
  BY Zenon, <1>1, <1>10 DEF InvalidateBlock, ReconsiderBlock, PreciousBlock, UserCall
<1>11. ASSUME NEW b \in Blocks \ {Genesis}, RejectBlock(b)
       PROVE  bestHeader' \in MostWorkOf(known' \ failed')
  <2>1. b \in ContextInvalid /\ InvalidBlockFound(b) /\ known' = known
    BY Zenon, <1>11 DEF RejectBlock
  <2>2. b \notin ChainOf[tip] /\ ChainOf[tip] \cap failed = {}
    BY Zenon, <2>1 DEF StoreInv, IndexInv, TargetInv
  <2> QED BY Zenon, <1>3, <2>1, <2>2, BestHeaderFound
<1>12. CASE ConnectTipInvalid
  <2>1. pc = "conn" /\ InvalidBlockFound(NextToConnect) /\ known' = known
    BY Zenon, <1>12 DEF ConnectTipInvalid
  <2>2. NextToConnect \notin ChainOf[tip] /\ NextToConnect \in Blocks \ {Genesis} /\ ChainOf[tip] \cap failed = {}
    BY Zenon, <2>1, NextFacts DEF TargetInv
  <2> QED BY Zenon, <1>3, <2>1, <2>2, BestHeaderFound
<1>13. CASE Restart
  BY Zenon, <1>13 DEF Restart
<1>14. ASSUME NEW b \in Blocks \ {Genesis}, AcceptBlockHeader(b)
       PROVE  bestHeader' \in MostWorkOf(known' \ failed')
  <2>1. /\ known' = known \cup {b} /\ failed' = failed /\ b \notin known
        /\ bestHeader' = IF Work[b] > Work[bestHeader] THEN b ELSE bestHeader
    BY Zenon, <1>14 DEF AcceptBlockHeader
  <2>2. known' \ failed' = (known \ failed) \cup {b}
    BY Zenon, <2>1 DEF IndexInv
  <2>3. /\ bestHeader \in known \ failed /\ \A d \in known \ failed : Work[d] <= Work[bestHeader]
        /\ known \subseteq Blocks
    BY Zenon, <1>3 DEF MostWorkOf, StoreInv
  <2>4. /\ bestHeader' \in (known \ failed) \cup {b}
        /\ \A d \in (known \ failed) \cup {b} : Work[d] <= Work[bestHeader']
    BY <2>1, <2>3, ScenarioFacts
  <2> QED BY Zenon, <2>2, <2>4 DEF MostWorkOf
<1> QED
  BY Zenon, <1>4, <1>5, <1>6, <1>7, <1>8, <1>9, <1>10, <1>11, <1>12, <1>13, <1>14
     DEF Next, Activate

\* Every step keeps the invariant.
LEMMA ChainStep ==
    ASSUME TreeFacts, ChainInv, [Next]_vars
    PROVE  ChainInv'
<1> USE DEF ChainInv
<1>1. StoreInv'  BY Zenon, StoreKept
<1>2. IndexInv'  BY Zenon, IndexKept
<1>3. TargetInv'  BY Zenon, <1>1, <1>2, TargetKept
<1>4. InvalidateInv'  BY Zenon, <1>1, InvalidateKept
<1>5. NeverPruned' => ntx' \subseteq have'
  BY Zenon, DataKept DEF FailureInv
<1>6. FailureInv'
  BY Zenon, <1>5, MarksKept, BestHeaderKept DEF FailureInv
<1> QED BY Zenon, <1>1, <1>2, <1>3, <1>4, <1>6

\* A node that starts has connected Genesis.
LEMMA ChainInit ==
    ASSUME TreeFacts, Init
    PROVE  ChainInv
<1>1. /\ known = {Genesis} /\ ntx = {Genesis} /\ have = {Genesis} /\ linked = {Genesis} /\ failed = {}
      /\ cands = {Genesis} /\ bestHeader = Genesis /\ tip = Genesis /\ rq = <<>> /\ pc = "idle"
      /\ mostWork = NoBlock /\ inv = NoInvalidate /\ calls = 0 /\ scenario \in Scenarios
      /\ unlinked = [b \in Blocks |-> 0]
  BY Zenon DEF Init
<1>2. Genesis \in Blocks /\ ChainOf[Genesis] = {Genesis}
  BY Zenon, TreeAssumption
<1>3. /\ Genesis \notin scenario.contextInvalid \cup scenario.connectInvalid
      /\ scenario.work \in [Blocks -> Nat]
  BY Zenon, <1>1, ScenarioAssumption
<1>4. StoreInv
  <2>1. rq \in Seq(Linkable)
    BY <1>1
  <2>2. unlinked \in [Blocks -> Nat] /\ \A b \in Blocks : unlinked[b] > 0 => b \in ntx
    BY <1>1
  <2> QED BY Zenon, <1>1, <1>2, <1>3, <2>1, <2>2 DEF StoreInv, ContextInvalid
<1>5. IndexInv
  <2>1. seqId \in [Blocks -> Int] /\ nSeq \in Int /\ revSeq \in Int /\ calls \in Nat
    BY <1>1 DEF Init
  <2> QED BY Zenon, <1>1, <2>1 DEF IndexInv, Pcs
<1>6. Work[Genesis] >= Work[Genesis] /\ Work[Genesis] <= Work[Genesis]
  BY <1>2, <1>3 DEF Work
<1>7. TargetInv
  BY Zenon, <1>1, <1>2, <1>3, <1>6 DEF TargetInv, ConnectInvalid
<1>8. InvalidateInv
  BY Zenon, <1>1 DEF InvalidateInv, NoInvalidate
<1>9. FailureInv
  BY Zenon, <1>1, <1>6 DEF FailureInv, Marked, MostWorkOf
<1> QED BY Zenon, <1>4, <1>5, <1>7, <1>8, <1>9 DEF ChainInv
-----------------------------------------------------------------------------
(* What m_blocks_unlinked holds.                                           *)

\* The blocks with an entry in m_blocks_unlinked.
Unlinked == {b \in Blocks : unlinked[b] > 0}

\* The blocks on disk that were not stored under a failed parent.
Placed == have \ missed

\* b waits for m: m is not on disk, stored under a failed parent or about to be
\* linked, and the blocks above m up to b are in m_blocks_unlinked.
WaitsFor(b, m) ==
    /\ m \in ChainOf[b] /\ (m \notin Placed \/ m \in Range(rq))
    /\ ChainOf[b] \ ChainOf[m] \subseteq Unlinked

\* A block stored under a failed parent is not linked, will not be, and has no entry
\* in m_blocks_unlinked.  Until the index is loaded again a block with an entry is on
\* disk.
MissedInv ==
    /\ restarts \in Nat /\ missed \subseteq have
    /\ missed \cap (linked \cup Range(rq) \cup Unlinked) = {}
    /\ restarts = 0 => Unlinked \subseteq have

\* A block that is on disk, not under a failed parent and not linked is in
\* m_blocks_unlinked or about to be linked, and the latter when its parent is linked.
\* A block in m_blocks_unlinked waits for one below it.
UnlinkedInv ==
    /\ MissedInv
    /\ unlinked \in [Blocks -> 0..MaxUnlinked]
    /\ Placed \ linked \subseteq Unlinked \cup Range(rq)
    /\ \A b \in Placed \ linked : Parent[b] \in linked => b \in Range(rq)
    /\ \A b \in Unlinked : \E m \in ChainOf[b] \ {b} : WaitsFor(b, m)

\* A block on a path is below those that are not below it.
LEMMA Upper ==
    ASSUME TreeFacts, NEW d \in Blocks, NEW m \in ChainOf[d], NEW x \in ChainOf[d] \ ChainOf[m]
    PROVE  m \in ChainOf[x] \ {x} /\ ChainOf[x] \subseteq ChainOf[d] /\ ChainOf[m] \subseteq ChainOf[x]
           /\ m \in Blocks /\ x \in Blocks /\ x # Genesis
<1>1. m \in Blocks /\ x \in Blocks /\ ChainOf[x] \subseteq ChainOf[d] /\ m \in ChainOf[x]
  BY Zenon DEF TreeFacts, PathFacts
<1>2. x # m /\ ChainOf[m] \subseteq ChainOf[x] /\ Genesis \in ChainOf[m]
  BY Zenon, <1>1 DEF TreeFacts, PathFacts
<1> QED BY Zenon, <1>1, <1>2

\* The last block of a path that is not in S.
LEMMA LastMissing ==
    ASSUME TreeFacts, NEW d \in Blocks, NEW S, ~(ChainOf[d] \subseteq S)
    PROVE  \E m \in ChainOf[d] \ S : ChainOf[d] \ ChainOf[m] \subseteq S
<1> DEFINE T == ChainOf[d] \ S
           m == HighestOf(T)
<1>1. T \in SUBSET Blocks /\ T # {}
  BY Zenon DEF TreeFacts, PathFacts
<1>2. m \in T /\ \A x \in T : Height(x) <= Height(m)
  BY Zenon, <1>1 DEF TreeFacts, ChoiceFacts
<1>3. ASSUME NEW x \in ChainOf[d] \ ChainOf[m], x \notin S PROVE FALSE
  <2>1. m \in ChainOf[x] \ {x} /\ x \in Blocks /\ m \in Blocks
    BY Zenon, <1>2, Upper
  <2>2. Height(m) < Height(x) /\ Height(m) \in Nat /\ Height(x) \in Nat
    BY Zenon, <2>1 DEF TreeFacts, HeightFacts
  <2>3. Height(x) <= Height(m)
    BY Zenon, <1>2, <1>3
  <2> QED BY <2>2, <2>3
<1> QED BY Zenon, <1>2, <1>3

\* Below a block that is not linked there is a first one.
LEMMA FirstUnlinked ==
    ASSUME TreeFacts, StoreInv, tip \in linked, NEW d \in Blocks \ linked
    PROVE  \E c \in ChainOf[d] \ linked : c # Genesis /\ Parent[c] \in linked
<1>1. Genesis \in linked /\ Genesis \in ChainOf[d] /\ d \in ChainOf[d]
  BY Zenon DEF StoreInv, TreeFacts, PathFacts
<1>2. PICK m \in ChainOf[d] \ (Blocks \ linked) : ChainOf[d] \ ChainOf[m] \subseteq Blocks \ linked
  <2>1. ~(ChainOf[d] \subseteq Blocks \ linked)
    BY Zenon, <1>1
  <2> QED BY Zenon, <2>1, LastMissing
<1>3. m \in linked /\ m # d
  BY Zenon, <1>2 DEF TreeFacts, PathFacts
<1>4. \E c \in ChainOf[d] \ ChainOf[m] : c # Genesis /\ Parent[c] = m
  BY Zenon, <1>2, <1>3 DEF TreeFacts, PathFacts
<1> QED BY Zenon, <1>2, <1>3, <1>4

\* The entries after each kind of change of m_blocks_unlinked.
LEMMA Entries ==
    ASSUME UnlinkedInv
    PROVE  /\ \A S \in SUBSET Blocks : unlinked' = AddUnlinked(unlinked, S) =>
                unlinked' \in [Blocks -> 0..MaxUnlinked] /\ Unlinked' = Unlinked \cup S
           /\ \A b : unlinked' = TakenFromUnlinked(b) =>
                unlinked' \in [Blocks -> 0..MaxUnlinked] /\ Unlinked' = Unlinked \ UnlinkedUnder(b)
           /\ \A b \in Blocks : unlinked' = [unlinked EXCEPT ![b] = 0] =>
                unlinked' \in [Blocks -> 0..MaxUnlinked] /\ Unlinked' = Unlinked \ {b}
           /\ \A S \in SUBSET Blocks : unlinked' = [b \in Blocks |-> IF b \in S THEN 1 ELSE 0] =>
                unlinked' \in [Blocks -> 0..MaxUnlinked] /\ Unlinked' = S
<1>1. unlinked \in [Blocks -> 0..MaxUnlinked] /\ MaxUnlinked \in Nat /\ MaxUnlinked > 0
  BY Zenon, BoundAssumption DEF UnlinkedInv
<1>2. ASSUME NEW S \in SUBSET Blocks, unlinked' = AddUnlinked(unlinked, S)
      PROVE  unlinked' \in [Blocks -> 0..MaxUnlinked] /\ Unlinked' = Unlinked \cup S
  BY <1>1, <1>2 DEF AddUnlinked, Unlinked
<1>3. ASSUME NEW b, unlinked' = TakenFromUnlinked(b)
      PROVE  unlinked' \in [Blocks -> 0..MaxUnlinked] /\ Unlinked' = Unlinked \ UnlinkedUnder(b)
  BY <1>1, <1>3 DEF TakenFromUnlinked, Unlinked
<1>4. ASSUME NEW b \in Blocks, unlinked' = [unlinked EXCEPT ![b] = 0]
      PROVE  unlinked' \in [Blocks -> 0..MaxUnlinked] /\ Unlinked' = Unlinked \ {b}
  BY <1>1, <1>4 DEF Unlinked
<1>5. ASSUME NEW S \in SUBSET Blocks, unlinked' = [b \in Blocks |-> IF b \in S THEN 1 ELSE 0]
      PROVE  unlinked' \in [Blocks -> 0..MaxUnlinked] /\ Unlinked' = S
  BY <1>1, <1>5 DEF Unlinked
<1> QED BY Zenon, <1>2, <1>3, <1>4, <1>5

\* The members of a sequence.
LEMMA Members ==
    ASSUME NEW T, NEW s \in Seq(T)
    PROVE  /\ \A x \in Range(s) : \E i \in 1..Len(s) : s[i] = x
           /\ \A i \in 1..Len(s) : s[i] \in Range(s)
<1>1. DOMAIN s = 1..Len(s)
  OBVIOUS
<1> QED BY Zenon, <1>1 DEF Range

\* The members of two sequences.
LEMMA Joined ==
    ASSUME NEW T, NEW s \in Seq(T), NEW q \in Seq(T)
    PROVE  s \o q \in Seq(T) /\ Range(s \o q) = Range(s) \cup Range(q)
<1> DEFINE w == s \o q
<1>1. w \in Seq(T) /\ \A i \in 1..Len(s) : w[i] = s[i] /\ i \in 1..Len(w)
  OBVIOUS
<1>2. \A i \in 1..Len(q) : w[i + Len(s)] = q[i] /\ i + Len(s) \in 1..Len(w)
  OBVIOUS
<1>3. \A i \in 1..Len(w) : i \in 1..Len(s) \/ (i - Len(s) \in 1..Len(q) /\ w[i] = q[i - Len(s)])
  OBVIOUS
<1> HIDE DEF w
<1>4. \A x \in Range(w) : \E i \in 1..Len(w) : w[i] = x
  BY Zenon, <1>1, Members
<1>5. \A i \in 1..Len(w) : w[i] \in Range(w)
  BY Zenon, <1>1, Members
<1>6. /\ \A x \in Range(s) : \E i \in 1..Len(s) : s[i] = x
      /\ \A x \in Range(q) : \E i \in 1..Len(q) : q[i] = x
  BY Zenon, Members
<1>7. /\ \A i \in 1..Len(s) : s[i] \in Range(s)
      /\ \A i \in 1..Len(q) : q[i] \in Range(q)
  BY Zenon, Members
<1>8. \A x \in Range(w) : x \in Range(s) \cup Range(q)
  BY <1>1, <1>3, <1>4, <1>7
<1>9. \A x \in Range(s) \cup Range(q) : x \in Range(w)
  <2>1. \A x \in Range(s) : x \in Range(w)
    BY <1>1, <1>5, <1>6
  <2>2. \A x \in Range(q) : x \in Range(w)
    BY <1>2, <1>5, <1>6
  <2> QED BY Zenon, <2>1, <2>2
<1>10. Range(w) = Range(s) \cup Range(q)
  BY Zenon, <1>8, <1>9
<1> QED BY <1>1, <1>10 DEF w

\* The first member of a sequence and the others.
LEMMA Taken ==
    ASSUME NEW T, NEW s \in Seq(T), s # <<>>
    PROVE  Tail(s) \in Seq(T) /\ Range(s) = {Head(s)} \cup Range(Tail(s))
<1> DEFINE w == Tail(s)
           h == Head(s)
<1>1. w \in Seq(T) /\ \A i \in 1..Len(w) : w[i] = s[i + 1] /\ i + 1 \in 1..Len(s)
  OBVIOUS
<1>2. \A i \in 1..Len(s) : s[i] = h \/ (i - 1 \in 1..Len(w) /\ s[i] = w[i - 1])
  OBVIOUS
<1>3. 1 \in 1..Len(s) /\ h = s[1]
  OBVIOUS
<1> HIDE DEF w, h
<1>4. \A x \in Range(w) : \E i \in 1..Len(w) : w[i] = x
  BY Zenon, <1>1, Members
<1>5. \A i \in 1..Len(w) : w[i] \in Range(w)
  BY Zenon, <1>1, Members
<1>6. \A x \in Range(s) : \E i \in 1..Len(s) : s[i] = x
  BY Zenon, Members
<1>7. \A i \in 1..Len(s) : s[i] \in Range(s)
  BY Zenon, Members
<1>8. \A x \in Range(s) : x \in {h} \cup Range(w)
  BY <1>2, <1>5, <1>6
<1>9. \A x \in {h} \cup Range(w) : x \in Range(s)
  BY Zenon, <1>1, <1>3, <1>4, <1>7
<1>10. Range(s) = {h} \cup Range(w)
  BY Zenon, <1>8, <1>9
<1> QED BY <1>1, <1>10 DEF w, h

\* The queue of ReceivedBlockTransactions.
LEMMA Queue ==
    /\ Range(<<>>) = {}
    /\ \A b : Range(<<b>>) = {b}
BY DEF Range

\* The queue after one turn of ReceivedBlockTransactions.
LEMMA QueueAfter ==
    ASSUME NEW T, NEW s \in Seq(T), NEW q \in Seq(T), NEW r \in Seq(T), s # <<>>
    PROVE  /\ Range(Tail(s) \o q \o r) = Range(Tail(s)) \cup Range(q) \cup Range(r)
           /\ Range(s) = {Head(s)} \cup Range(Tail(s))
<1> DEFINE w == Tail(s)
           v == w \o q
<1>1. w \in Seq(T) /\ Range(s) = {Head(s)} \cup Range(w)
  BY Zenon, Taken
<1> HIDE DEF w
<1>2. v \in Seq(T) /\ Range(v) = Range(w) \cup Range(q)
  BY <1>1, Joined
<1> HIDE DEF v
<1>3. Range(v \o r) = Range(v) \cup Range(r)
  BY <1>2, Joined
<1>4. v \o r = Tail(s) \o q \o r
  BY Zenon DEF v, w
<1> QED BY Zenon, <1>1, <1>2, <1>3, <1>4 DEF w

\* Who waits for a block that waits for m waits for m.
LEMMA WaitsOn ==
    ASSUME TreeFacts, NEW d \in Blocks, NEW b \in ChainOf[d], NEW m \in ChainOf[b], NEW U,
           ChainOf[d] \ ChainOf[b] \subseteq U, ChainOf[b] \ ChainOf[m] \subseteq U
    PROVE  m \in ChainOf[d] /\ ChainOf[d] \ ChainOf[m] \subseteq U
BY Zenon DEF TreeFacts, PathFacts

\* A block waits for what it waited for, as long as that is not stored and its own
\* entries are not taken.
LEMMA StillWaits ==
    ASSUME NEW d, NEW m, WaitsFor(d, m), m \notin Placed' \/ m \in Range(rq)',
           ChainOf[d] \ ChainOf[m] \subseteq Unlinked'
    PROVE  WaitsFor(d, m)'
BY Zenon DEF WaitsFor

\* What a new block does to those that wait: they wait for another, or for it to be
\* linked (ReceivedBlockTransactions).
LEMMA WaitsAfterArrival ==
    ASSUME TreeFacts, StoreInv, IndexInv, UnlinkedInv, NEW b \in Blocks \ {Genesis}, ProcessNewBlock(b)
    PROVE  /\ Unlinked \subseteq Unlinked' /\ Unlinked' \subseteq Unlinked \cup {b}
           /\ unlinked' \in [Blocks -> 0..MaxUnlinked]
           /\ Range(rq) = {} /\ linked' = linked /\ b \notin Placed
           /\ Placed \subseteq Placed' /\ Placed' \subseteq Placed \cup {b}
           /\ Parent[b] \in linked => Range(rq)' = {b} /\ Unlinked' = Unlinked
           /\ Parent[b] \notin linked => Range(rq)' = {} /\ (b \in Placed' <=> b \in Unlinked')
           /\ Parent[b] \notin linked /\ b \in Placed' => \E m \in ChainOf[b] \ {b} : WaitsFor(b, m)'
<1>1. /\ rq = <<>> /\ have' = have \cup {b} /\ linked' = linked /\ b \notin have
      /\ Parent[b] \in linked => rq' = <<b>> /\ unlinked' = unlinked /\ missed' = missed
      /\ Parent[b] \notin linked =>
           /\ rq' = rq
           /\ \/ unlinked' = AddUnlinked(unlinked, {b}) /\ missed' = missed
              \/ unlinked' = unlinked /\ unlinked[b] # 0 /\ missed' = missed
              \/ unlinked' = unlinked /\ unlinked[b] = 0 /\ missed' = missed \cup {b}
  BY Zenon DEF ProcessNewBlock, CsMainFree
<1>2. Range(rq) = {} /\ b \notin missed
  BY Zenon, <1>1, Queue DEF UnlinkedInv, MissedInv
<1>3. CASE Parent[b] \in linked
  <2>1. Range(rq)' = {b} /\ unlinked' = unlinked
    BY Zenon, <1>1, <1>3, Queue
  <2>2. Unlinked' = Unlinked
    BY Zenon, <2>1 DEF Unlinked
  <2>3. Placed' = Placed \cup {b}
    BY Zenon, <1>1, <1>2, <1>3 DEF Placed
  <2> QED BY Zenon, <1>1, <1>2, <1>3, <2>1, <2>2, <2>3 DEF UnlinkedInv, Placed
<1>4. CASE Parent[b] \notin linked /\ missed' = missed \cup {b} /\ unlinked' = unlinked /\ unlinked[b] = 0
  <2>1. Unlinked' = Unlinked /\ b \notin Unlinked
    BY <1>4 DEF Unlinked
  <2>2. Placed' = Placed /\ b \notin Placed
    BY Zenon, <1>1, <1>4 DEF Placed
  <2> QED BY Zenon, <1>1, <1>2, <1>4, <2>1, <2>2 DEF UnlinkedInv
<1>5. CASE /\ Parent[b] \notin linked /\ missed' = missed
           /\ unlinked' = AddUnlinked(unlinked, {b}) \/ (unlinked' = unlinked /\ unlinked[b] # 0)
  <2>1. /\ Range(rq)' = {} /\ unlinked' \in [Blocks -> 0..MaxUnlinked]
        /\ Unlinked' = Unlinked \cup {b}
    <3>1. Range(rq)' = {}
      BY Zenon, <1>1, <1>2, <1>5
    <3>2. CASE unlinked' = AddUnlinked(unlinked, {b})
      BY Zenon, <3>1, <3>2, Entries
    <3>3. CASE unlinked' = unlinked /\ unlinked[b] # 0
      <4>1. unlinked[b] > 0
        BY <3>3 DEF UnlinkedInv
      <4> QED BY Zenon, <3>1, <3>3, <4>1 DEF UnlinkedInv, Unlinked
    <3> QED BY Zenon, <1>5, <3>2, <3>3
  <2>2. Placed' = Placed \cup {b} /\ b \notin Placed
    BY Zenon, <1>1, <1>2, <1>5 DEF Placed
  <2>3. Parent[b] \in Blocks \ linked /\ b \in ChainOf[b]
    BY Zenon, <1>5, Genealogy
  <2>4. PICK c \in ChainOf[Parent[b]] \ linked : c # Genesis /\ Parent[c] \in linked
    BY Zenon, <2>3, FirstUnlinked DEF IndexInv
  <2>5. c \notin Placed /\ c \in ChainOf[b] /\ c # b
    BY Zenon, <1>2, <2>3, <2>4, Genealogy DEF UnlinkedInv
  <2>6. PICK m \in ChainOf[b] \ Placed' : ChainOf[b] \ ChainOf[m] \subseteq Placed'
    <3>1. ~(ChainOf[b] \subseteq Placed')
      BY Zenon, <2>2, <2>5
    <3> QED BY Zenon, <3>1, LastMissing
  <2>7. c \in ChainOf[m]
    BY Zenon, <2>2, <2>5, <2>6
  <2>8. ASSUME NEW x \in ChainOf[b] \ ChainOf[m] PROVE x \in Unlinked'
    <3>1. x \in Placed' /\ c \in ChainOf[x] /\ x \in Blocks
      BY Zenon, <2>6, <2>7, Upper
    <3>2. x \notin linked
      BY Zenon, <2>4, <3>1 DEF StoreInv
    <3> QED BY Zenon, <1>2, <2>1, <2>2, <3>1, <3>2 DEF UnlinkedInv
  <2>9. WaitsFor(b, m)' /\ m # b
    BY Zenon, <2>2, <2>6, <2>8 DEF WaitsFor
  <2> QED BY Zenon, <1>1, <1>2, <1>5, <2>1, <2>2, <2>6, <2>9
<1> QED BY Zenon, <1>1, <1>3, <1>4, <1>5

\* Taking the entries under the block that is linked leaves every other block in
\* m_blocks_unlinked with one to wait for (ReceivedBlockTransactions).
LEMMA WaitsAfterLink ==
    ASSUME TreeFacts, StoreInv, UnlinkedInv, LinkBlock
    PROVE  /\ unlinked' \in [Blocks -> 0..MaxUnlinked] /\ Unlinked' = Unlinked \ UnlinkedUnder(Head(rq))
           /\ Range(rq) \subseteq Range(rq)' \cup {Head(rq)} /\ UnlinkedUnder(Head(rq)) \subseteq Range(rq)'
           /\ Range(rq)' \subseteq Range(rq) \cup UnlinkedUnder(Head(rq)) /\ Head(rq) \in Range(rq)
           /\ \A d \in Blocks : \A m : WaitsFor(d, m) /\ (d # m \/ d # Head(rq)) =>
                \/ WaitsFor(d, m)'
                \/ \E k \in ChainOf[d] \ ChainOf[m] : WaitsFor(d, k)' /\ k \in UnlinkedUnder(Head(rq))
<1> DEFINE b == Head(rq)
           twice == {d \in UnlinkedUnder(b) : unlinked[d] > 1}
           Taking == UnlinkedUnder(b)
<1>1. rq # <<>> /\ linked' = linked \cup {b} /\ Placed' = Placed /\ unlinked' = TakenFromUnlinked(b)
  BY Zenon DEF LinkBlock, Placed
<1>2. PICK q \in Orders(UnlinkedUnder(b)), r \in Orders(twice) : rq' = Tail(rq) \o q \o r
  BY Zenon DEF LinkBlock
<1>3. UnlinkedUnder(b) \in SUBSET Blocks /\ twice \in SUBSET Blocks
  BY Zenon DEF UnlinkedUnder
<1>4. q \in Seq(UnlinkedUnder(b)) /\ r \in Seq(twice) /\ Range(q) = UnlinkedUnder(b) /\ Range(r) = twice
  BY Zenon, <1>2, <1>3 DEF TreeFacts, ChoiceFacts
<1>5. q \in Seq(Blocks) /\ r \in Seq(Blocks) /\ rq \in Seq(Blocks)
  <2>1. Linkable \subseteq Blocks /\ rq \in Seq(Linkable)
    BY Zenon DEF Linkable, StoreInv
  <2> QED BY Zenon, <1>3, <1>4, <2>1, Requeued
<1>5a. twice \subseteq Taking
  BY Zenon
<1> HIDE DEF b, twice
<1>6. /\ Range(rq) \subseteq Range(rq)' \cup {b} /\ Taking \subseteq Range(rq)'
      /\ Range(rq)' \subseteq Range(rq) \cup Taking /\ b \in Range(rq)
  <2>1. /\ Range(rq') = Range(Tail(rq)) \cup Range(q) \cup Range(r)
        /\ Range(rq) = {Head(rq)} \cup Range(Tail(rq))
    BY <1>1, <1>2, <1>5, QueueAfter
  <2> QED BY <1>4, <1>5a, <2>1 DEF b
<1>7. unlinked' \in [Blocks -> 0..MaxUnlinked] /\ Unlinked' = Unlinked \ Taking
  BY Zenon, <1>1, Entries
<1>8. \A x \in Taking : x \in Blocks \ {Genesis} /\ Parent[x] = b
  BY Zenon DEF UnlinkedUnder
<1>9. \A x \in Unlinked : x # Genesis /\ Parent[x] = b => x \in Taking
  BY Zenon DEF UnlinkedUnder, Unlinked
<1> HIDE DEF Taking
<1>10. ASSUME NEW d \in Blocks, NEW m, WaitsFor(d, m), d # m \/ d # b
      PROVE  WaitsFor(d, m)' \/ \E k \in ChainOf[d] \ ChainOf[m] : WaitsFor(d, k)' /\ k \in Taking
  <2>1. m \in ChainOf[d] /\ ChainOf[d] \ ChainOf[m] \subseteq Unlinked
    BY Zenon, <1>10 DEF WaitsFor
  <2>2. ASSUME NEW k \in (ChainOf[d] \ ChainOf[m]) \cap Taking PROVE WaitsFor(d, k)'
    <3>1. k \in ChainOf[d] /\ m \in ChainOf[k] /\ k \in Blocks \ {Genesis} /\ ChainOf[m] \subseteq ChainOf[k]
      BY Zenon, <2>1, Upper
    <3>2. ASSUME NEW x \in ChainOf[d] \ ChainOf[k], x \in Taking PROVE FALSE
      <4>1. k \in ChainOf[x] \ {x} /\ x \in Blocks \ {Genesis}
        BY Zenon, <3>1, Upper
      <4>2. Parent[x] = b /\ Parent[k] = b
        BY Zenon, <1>8, <3>2
      <4>3. k \in ChainOf[Parent[x]]
        BY Zenon, <4>1, Genealogy
      <4> QED BY Zenon, <3>1, <4>2, <4>3, Genealogy
    <3>3. ChainOf[d] \ ChainOf[k] \subseteq Unlinked'
      BY Zenon, <1>7, <2>1, <3>1, <3>2
    <3> QED BY Zenon, <1>6, <3>1, <3>3 DEF WaitsFor
  <2>3. CASE (ChainOf[d] \ ChainOf[m]) \cap Taking = {}
    <3>1. ChainOf[d] \ ChainOf[m] \subseteq Unlinked'
      BY Zenon, <1>7, <2>1, <2>3
    <3>2. CASE m \notin Placed \/ m \in Range(rq)'
      BY Zenon, <1>1, <1>10, <3>1, <3>2, StillWaits
    <3>3. CASE m \in Placed /\ m \notin Range(rq)'
      <4>1. m = b
        BY Zenon, <1>6, <1>10, <3>3 DEF WaitsFor
      <4>2. PICK c \in ChainOf[d] \ ChainOf[m] : c # Genesis /\ Parent[c] = m
        BY Zenon, <1>10, <2>1, <4>1 DEF TreeFacts, PathFacts
      <4> QED BY Zenon, <1>9, <2>1, <2>3, <4>1, <4>2
    <3> QED BY Zenon, <3>2, <3>3
  <2> QED BY Zenon, <2>2, <2>3
<1> QED BY Zenon, <1>6, <1>7, <1>10 DEF b, Taking

\* A block that waited for one below the pruned block waits for the pruned block.
LEMMA WaitsAfterPrune ==
    ASSUME TreeFacts, UnlinkedInv, NEW b \in Blocks \ {Genesis}, PruneBlock(b)
    PROVE  /\ unlinked' \in [Blocks -> 0..MaxUnlinked] /\ Unlinked' = Unlinked \ {b}
           /\ Range(rq) = {} /\ Range(rq)' = {} /\ Placed' = Placed \ {b} /\ linked' = linked
           /\ \A d \in Blocks : \A m : WaitsFor(d, m) =>
                WaitsFor(d, m)' \/ (b \in ChainOf[d] \ ChainOf[m] /\ WaitsFor(d, b)')
<1>1. /\ Placed' = Placed \ {b} /\ linked' = linked /\ rq = <<>> /\ rq' = rq
      /\ unlinked' = [unlinked EXCEPT ![b] = 0]
  BY Zenon DEF PruneBlock, CsMainFree, Placed
<1>2. unlinked' \in [Blocks -> 0..MaxUnlinked] /\ Unlinked' = Unlinked \ {b} /\ Range(rq) = {} /\ Range(rq)' = {}
  BY Zenon, <1>1, Entries, Queue
<1>3. ASSUME NEW d \in Blocks, NEW m, WaitsFor(d, m)
      PROVE  WaitsFor(d, m)' \/ (b \in ChainOf[d] \ ChainOf[m] /\ WaitsFor(d, b)')
  <2>1. m \in ChainOf[d] /\ ChainOf[d] \ ChainOf[m] \subseteq Unlinked /\ m \notin Placed'
    BY Zenon, <1>1, <1>2, <1>3 DEF WaitsFor
  <2>2. CASE b \notin ChainOf[d] \ ChainOf[m]
    BY Zenon, <1>2, <1>3, <2>1, <2>2, StillWaits
  <2>3. CASE b \in ChainOf[d] \ ChainOf[m]
    <3>1. ChainOf[m] \subseteq ChainOf[b] /\ b \in ChainOf[b]
      BY Zenon, <2>1, <2>3, Upper DEF TreeFacts, PathFacts
    <3>2. ChainOf[d] \ ChainOf[b] \subseteq Unlinked'
      BY Zenon, <1>2, <2>1, <3>1
    <3> QED BY Zenon, <1>1, <2>3, <3>2 DEF WaitsFor
  <2> QED BY Zenon, <2>2, <2>3
<1> QED BY Zenon, <1>1, <1>2, <1>3

\* Only a restart counts as one.
LEMMA Lifetime ==
    ASSUME [Next]_vars
    PROVE  restarts' = restarts \/ Restart
<1>1. CASE UNCHANGED vars
  BY Zenon, <1>1 DEF vars, env
<1>2. ASSUME NEW b \in Blocks, AcceptBlockHeader(b) \/ RejectBlock(b) \/ ProcessNewBlock(b) \/ PruneBlock(b)
      PROVE  restarts' = restarts
  BY Zenon, <1>2 DEF AcceptBlockHeader, RejectBlock, ProcessNewBlock, PruneBlock, env
<1>3. ASSUME NEW b \in Blocks, InvalidateBlock(b) \/ ReconsiderBlock(b) \/ PreciousBlock(b)
      PROVE  restarts' = restarts
  BY Zenon, <1>3 DEF InvalidateBlock, ReconsiderBlock, PreciousBlock
<1>4. CASE LinkBlock \/ Interrupt
  BY Zenon, <1>4 DEF LinkBlock, Interrupt, env
<1>5. CASE Activate
  BY Zenon, <1>5 DEF Activate, ActivateBestChain, FindMostWorkChain, NothingToDo, DisconnectToFork,
                     DisconnectFails, ConnectTip, ConnectTipInvalid, env
<1>6. CASE Invalidate
  BY Zenon, <1>6 DEF Invalidate, InvalidateDisconnect, InvalidateFails, InvalidateFinish, env
<1> QED BY Zenon, <1>1, <1>2, <1>3, <1>4, <1>5, <1>6 DEF Next

\* A block stored under a failed parent stays without an entry until it is pruned or
\* the index is loaded again: FindMostWorkChain gives entries to linked blocks only,
\* and to such as are on disk.
LEMMA MissedKept ==
    ASSUME TreeFacts, StoreInv, IndexInv, UnlinkedInv, [Next]_vars
    PROVE  MissedInv'
<1>1. /\ restarts \in Nat /\ missed \subseteq have
      /\ missed \cap (linked \cup Range(rq) \cup Unlinked) = {}
      /\ restarts = 0 => Unlinked \subseteq have
  BY Zenon DEF UnlinkedInv, MissedInv
<1>2. CASE UNCHANGED <<known, ntx, have, linked, rq, unlinked, missed>> /\ ~Restart
  BY Zenon, <1>1, <1>2, Lifetime DEF MissedInv, Unlinked
<1>3. ASSUME NEW b \in Blocks \ {Genesis}, AcceptBlockHeader(b)
      PROVE  MissedInv'
  <2>1. UNCHANGED <<have, linked, rq, unlinked, missed, restarts>>
    BY Zenon, <1>3 DEF AcceptBlockHeader, env
  <2> QED BY Zenon, <1>1, <2>1 DEF MissedInv, Unlinked
<1>4. ASSUME NEW b \in Blocks \ {Genesis}, ProcessNewBlock(b)
      PROVE  MissedInv'
  <2>1. /\ have' = have \cup {b} /\ restarts' = restarts /\ b \notin have /\ linked' = linked
        /\ missed' = missed \/ (missed' = missed \cup {b} /\ Parent[b] \notin linked)
    BY Zenon, <1>4 DEF ProcessNewBlock, env
  <2>2. /\ Unlinked' \subseteq Unlinked \cup {b}
        /\ Range(rq)' \subseteq {b}
        /\ Parent[b] \notin linked => Range(rq)' = {} /\ (b \in Placed' <=> b \in Unlinked')
    BY Zenon, <1>4, WaitsAfterArrival
  <2>3. b \notin linked \/ Parent[b] \in linked
    BY Zenon, Genealogy DEF StoreInv
  <2>4. missed' \cap (linked' \cup Range(rq)' \cup Unlinked') = {}
    BY Zenon, <1>1, <2>1, <2>2, <2>3 DEF Placed
  <2> QED BY Zenon, <1>1, <2>1, <2>2, <2>4 DEF MissedInv
<1>5. ASSUME NEW b \in Blocks \ {Genesis}, PruneBlock(b)
      PROVE  MissedInv'
  <2>1. /\ have' = have \ {b} /\ missed' = missed \ {b} /\ restarts' = restarts
        /\ UNCHANGED <<linked, rq>>
    BY Zenon, <1>5 DEF PruneBlock, env
  <2>2. Unlinked' = Unlinked \ {b}
    BY Zenon, <1>5, WaitsAfterPrune
  <2> QED BY Zenon, <1>1, <2>1, <2>2 DEF MissedInv
<1>6. CASE LinkBlock
  <2>1. linked' = linked \cup {Head(rq)} /\ UNCHANGED <<have, missed, restarts>>
    BY Zenon, <1>6 DEF LinkBlock, env
  <2>2. /\ Unlinked' = Unlinked \ UnlinkedUnder(Head(rq))
        /\ Range(rq)' \subseteq Range(rq) \cup UnlinkedUnder(Head(rq)) /\ Head(rq) \in Range(rq)
    BY Zenon, <1>6, WaitsAfterLink
  <2>3. UnlinkedUnder(Head(rq)) \subseteq Unlinked
    BY Zenon DEF UnlinkedUnder, Unlinked
  <2> QED BY Zenon, <1>1, <2>1, <2>2, <2>3 DEF MissedInv
<1>7. CASE FindMostWorkChain
  <2> DEFINE c == BestOf(cands)
             test == HighestOf(Unusable(c))
             above == RuledOut(c) \ {test}
  <2>1. /\ UNCHANGED <<have, linked, rq, missed, restarts>> /\ cands # {}
        /\ \/ unlinked' = unlinked
           \/ Unusable(c) # {} /\ unlinked' = AddUnlinked(unlinked, above)
    BY Zenon, <1>7 DEF FindMostWorkChain, env
  <2>2. CASE unlinked' = unlinked
    BY Zenon, <1>1, <2>1, <2>2 DEF MissedInv, Unlinked
  <2>3. CASE Unusable(c) # {} /\ unlinked' = AddUnlinked(unlinked, above)
    <3>1. c \in linked /\ c \in Blocks /\ tip \in Blocks /\ ChainOf[c] \subseteq linked
      BY Zenon, <2>1, BestCandidate DEF StoreInv, IndexInv
    <3>2. /\ test \in ChainOf[c] \ ChainOf[tip] /\ test \in Unusable(c)
          /\ above = ChainOf[c] \ ChainOf[test]
      BY Zenon, <2>3, <3>1, UnusableFacts
    <3>3. above \in SUBSET Blocks /\ above \subseteq linked
      BY Zenon, <3>1, <3>2 DEF TreeFacts, PathFacts
    <3>4. ASSUME NEW x \in above PROVE x \in have
      <4>1. x \notin ChainOf[tip]
        BY Zenon, <3>1, <3>2, AboveSpared
      <4>2. x \notin have => x \in Unusable(c)
        BY Zenon, <3>2, <4>1 DEF Unusable
      <4>3. \A y \in Unusable(c) : Height(y) <= Height(test)
        <5>1. Unusable(c) \in SUBSET Blocks
          BY Zenon, <3>1 DEF Unusable, TreeFacts, PathFacts
        <5> QED BY Zenon, <2>3, <5>1 DEF TreeFacts, ChoiceFacts
      <4>4. test \in ChainOf[x] \ {x} /\ x \in Blocks
        BY Zenon, <3>1, <3>2, Upper
      <4>5. Height(test) < Height(x) /\ Height(test) \in Nat /\ Height(x) \in Nat
        BY Zenon, <3>1, <3>2, <4>4 DEF TreeFacts, HeightFacts, PathFacts
      <4> HIDE DEF c, test, above
      <4> QED BY <4>2, <4>3, <4>5
    <3> HIDE DEF c, test, above
    <3>5. Unlinked' = Unlinked \cup above
      BY Zenon, <2>3, <3>3, Entries
    <3> QED BY Zenon, <1>1, <2>1, <3>3, <3>4, <3>5 DEF MissedInv
  <2> QED BY Zenon, <2>1, <2>2, <2>3
<1>8. CASE Restart
  <2>1. missed' = {} /\ restarts' = restarts + 1
    BY Zenon, <1>8 DEF Restart
  <2>2. restarts' \in Nat /\ restarts' # 0
    BY <1>1, <2>1
  <2> QED BY Zenon, <2>1, <2>2 DEF MissedInv
<1> QED BY Zenon, <1>2, <1>3, <1>4, <1>5, <1>6, <1>7, <1>8, StoreQuiet

\* A block that is on disk and not linked is linked when its parent is: nothing that
\* is stored, linked, pruned or ruled out by FindMostWorkChain loses its entry.
LEMMA UnlinkedKept ==
    ASSUME TreeFacts, StoreInv, IndexInv, UnlinkedInv, [Next]_vars
    PROVE  UnlinkedInv'
<1>0. MissedInv /\ MissedInv'
  BY Zenon, MissedKept DEF UnlinkedInv
<1>1. CASE UNCHANGED <<known, ntx, have, linked, rq, unlinked, missed>>
  BY Zenon, <1>0, <1>1 DEF UnlinkedInv, Unlinked, WaitsFor, Placed
<1>2. ASSUME NEW b \in Blocks \ {Genesis}, AcceptBlockHeader(b)
      PROVE  UnlinkedInv'
  <2>1. UNCHANGED <<have, linked, rq, unlinked, missed>>
    BY Zenon, <1>2 DEF AcceptBlockHeader
  <2> QED BY Zenon, <1>0, <2>1 DEF UnlinkedInv, Unlinked, WaitsFor, Placed
<1>3. ASSUME NEW b \in Blocks \ {Genesis}, ProcessNewBlock(b)
      PROVE  UnlinkedInv'
  <2>1. /\ Unlinked \subseteq Unlinked' /\ Unlinked' \subseteq Unlinked \cup {b}
        /\ unlinked' \in [Blocks -> 0..MaxUnlinked]
        /\ Range(rq) = {} /\ Placed \subseteq Placed' /\ Placed' \subseteq Placed \cup {b} /\ linked' = linked
    BY Zenon, <1>3, WaitsAfterArrival
  <2>2. /\ Parent[b] \in linked => Range(rq)' = {b} /\ Unlinked' = Unlinked
        /\ Parent[b] \notin linked => Range(rq)' = {} /\ (b \in Placed' <=> b \in Unlinked')
        /\ Parent[b] \notin linked /\ b \in Placed' => \E m \in ChainOf[b] \ {b} : WaitsFor(b, m)'
    BY Zenon, <1>3, WaitsAfterArrival
  <2>3. Placed' \ linked' \subseteq Unlinked' \cup Range(rq)'
    BY Zenon, <2>1, <2>2 DEF UnlinkedInv
  <2>4. \A d \in Placed' \ linked' : Parent[d] \in linked' => d \in Range(rq)'
    BY Zenon, <2>1, <2>2 DEF UnlinkedInv
  <2>5. ASSUME NEW d \in Unlinked, d # b
        PROVE  \E m \in ChainOf[d] \ {d} : WaitsFor(d, m)'
    <3>1. PICK m \in ChainOf[d] \ {d} : WaitsFor(d, m)
      BY Zenon DEF UnlinkedInv
    <3>2. ChainOf[d] \ ChainOf[m] \subseteq Unlinked' /\ m \notin Placed
      BY Zenon, <2>1, <3>1 DEF WaitsFor
    <3>3. CASE m # b \/ Parent[b] \in linked \/ b \notin Placed'
      BY Zenon, <2>1, <2>2, <3>1, <3>2, <3>3, StillWaits
    <3>4. CASE m = b /\ Parent[b] \notin linked /\ b \in Placed'
      <4>1. PICK k \in ChainOf[b] \ {b} : WaitsFor(b, k)'
        BY Zenon, <2>2, <3>4
      <4>2. k \notin Placed' /\ ChainOf[b] \ ChainOf[k] \subseteq Unlinked'
        BY Zenon, <2>2, <3>4, <4>1 DEF WaitsFor
      <4>3. k \in ChainOf[d] /\ ChainOf[d] \ ChainOf[k] \subseteq Unlinked' /\ k # d
        <5>1. d \in Blocks /\ b \in ChainOf[d] /\ b # d
          BY Zenon, <3>1, <3>4 DEF Unlinked
        <5> QED BY Zenon, <3>2, <3>4, <4>1, <4>2, <5>1, WaitsOn DEF TreeFacts, PathFacts
      <4> QED BY Zenon, <4>2, <4>3 DEF WaitsFor
    <3> QED BY Zenon, <3>3, <3>4
  <2>6. \A d \in Unlinked' : \E m \in ChainOf[d] \ {d} : WaitsFor(d, m)'
    <3>1. ASSUME b \in Unlinked', Parent[b] \in linked
          PROVE  \E m \in ChainOf[b] \ {b} : WaitsFor(b, m)'
      <4>1. b \in Unlinked
        BY Zenon, <2>2, <3>1
      <4>2. PICK m \in ChainOf[b] \ {b} : WaitsFor(b, m)
        BY Zenon, <4>1 DEF UnlinkedInv
      <4>3. ChainOf[b] \ ChainOf[m] \subseteq Unlinked' /\ m \notin Placed'
        BY Zenon, <2>1, <4>2 DEF WaitsFor
      <4> QED BY Zenon, <4>2, <4>3, StillWaits
    <3> QED BY Zenon, <2>1, <2>2, <2>5, <3>1
  <2> QED BY Zenon, <1>0, <2>1, <2>3, <2>4, <2>6 DEF UnlinkedInv
<1>4. ASSUME NEW b \in Blocks \ {Genesis}, PruneBlock(b)
      PROVE  UnlinkedInv'
  <2>1. /\ unlinked' \in [Blocks -> 0..MaxUnlinked] /\ Unlinked' = Unlinked \ {b}
        /\ Range(rq) = {} /\ Range(rq)' = {} /\ Placed' = Placed \ {b} /\ linked' = linked
    BY Zenon, <1>4, WaitsAfterPrune
  <2>2. ASSUME NEW d \in Unlinked \ {b} PROVE \E m \in ChainOf[d] \ {d} : WaitsFor(d, m)'
    <3>1. PICK m \in ChainOf[d] \ {d} : WaitsFor(d, m)
      BY Zenon DEF UnlinkedInv
    <3>2. WaitsFor(d, m)' \/ (b \in ChainOf[d] \ ChainOf[m] /\ WaitsFor(d, b)')
      BY Zenon, <1>4, <3>1, WaitsAfterPrune DEF Unlinked
    <3> QED BY Zenon, <3>1, <3>2
  <2> QED BY Zenon, <1>0, <2>1, <2>2 DEF UnlinkedInv
<1>5. CASE LinkBlock
  <2>1. /\ unlinked' \in [Blocks -> 0..MaxUnlinked] /\ Unlinked' = Unlinked \ UnlinkedUnder(Head(rq))
        /\ Range(rq) \subseteq Range(rq)' \cup {Head(rq)} /\ UnlinkedUnder(Head(rq)) \subseteq Range(rq)'
    BY Zenon, <1>5, WaitsAfterLink
  <2>2. linked' = linked \cup {Head(rq)} /\ Placed' = Placed /\ Placed \subseteq have
    BY Zenon, <1>5 DEF LinkBlock, Placed
  <2>3. Placed' \ linked' \subseteq Unlinked' \cup Range(rq)'
    BY Zenon, <2>1, <2>2 DEF UnlinkedInv
  <2>4. ASSUME NEW d \in Placed' \ linked', Parent[d] \in linked' PROVE d \in Range(rq)'
    <3>1. CASE Parent[d] \in linked
      BY Zenon, <2>1, <2>2, <3>1 DEF UnlinkedInv
    <3>2. CASE Parent[d] = Head(rq)
      <4>1. d \in Blocks \ {Genesis}
        BY Zenon, <2>2 DEF StoreInv, IndexInv, TreeFacts, PathFacts
      <4>2. d \in Unlinked => d \in UnlinkedUnder(Head(rq))
        BY Zenon, <3>2, <4>1 DEF Unlinked, UnlinkedUnder
      <4> QED BY Zenon, <2>1, <2>2, <4>2 DEF UnlinkedInv
    <3> QED BY Zenon, <2>2, <2>4, <3>1, <3>2
  <2>5. ASSUME NEW d \in Unlinked' PROVE \E m \in ChainOf[d] \ {d} : WaitsFor(d, m)'
    <3>1. d \in Unlinked /\ d \in Blocks /\ d \notin UnlinkedUnder(Head(rq))
      BY Zenon, <2>1 DEF Unlinked
    <3>2. PICK m \in ChainOf[d] \ {d} : WaitsFor(d, m)
      BY Zenon, <3>1 DEF UnlinkedInv
    <3>3. WaitsFor(d, m)' \/ \E k \in ChainOf[d] \ ChainOf[m] : WaitsFor(d, k)' /\ k \in UnlinkedUnder(Head(rq))
      BY Zenon, <1>5, <3>1, <3>2, WaitsAfterLink
    <3> QED BY Zenon, <3>1, <3>2, <3>3
  <2> QED BY Zenon, <1>0, <2>1, <2>3, <2>4, <2>5 DEF UnlinkedInv
<1>6. CASE FindMostWorkChain
  <2> DEFINE c == BestOf(cands)
             test == HighestOf(Unusable(c))
             above == RuledOut(c) \ {test}
  <2>1. /\ UNCHANGED <<have, linked, rq, missed>> /\ cands # {}
        /\ \/ unlinked' = unlinked
           \/ Unusable(c) # {} /\ test \notin failed /\ unlinked' = AddUnlinked(unlinked, above)
    BY Zenon, <1>6 DEF FindMostWorkChain
  <2>2. CASE unlinked' = unlinked
    BY Zenon, <1>0, <2>1, <2>2 DEF UnlinkedInv, Unlinked, WaitsFor, Placed
  <2>3. CASE Unusable(c) # {} /\ test \notin failed /\ unlinked' = AddUnlinked(unlinked, above)
    <3>1. c \in Blocks /\ tip \in Blocks
      BY Zenon, <2>1, BestCandidate DEF StoreInv, IndexInv
    <3>2. test \in ChainOf[c] /\ test \in Unusable(c) /\ above = ChainOf[c] \ ChainOf[test]
      BY Zenon, <2>3, <3>1, UnusableFacts
    <3>3. test \notin have
      BY Zenon, <2>3, <3>2 DEF Unusable
    <3>4. above \in SUBSET Blocks
      BY Zenon, <3>1, <3>2 DEF TreeFacts, PathFacts
    <3> HIDE DEF c, test, above
    <3>5. unlinked' \in [Blocks -> 0..MaxUnlinked] /\ Unlinked' = Unlinked \cup above
      BY Zenon, <2>3, <3>4, Entries
    <3>6. ASSUME NEW d \in above PROVE \E m \in ChainOf[d] \ {d} : WaitsFor(d, m)'
      <4>1. test \in ChainOf[d] \ {d} /\ ChainOf[d] \subseteq ChainOf[c]
        BY Zenon, <3>1, <3>2, Upper
      <4>2. ChainOf[d] \ ChainOf[test] \subseteq Unlinked'
        BY Zenon, <3>2, <3>5, <4>1
      <4> QED BY Zenon, <2>1, <3>3, <4>1, <4>2 DEF WaitsFor, Placed
    <3>7. ASSUME NEW d \in Unlinked PROVE \E m \in ChainOf[d] \ {d} : WaitsFor(d, m)'
      BY Zenon, <2>1, <3>5 DEF UnlinkedInv, WaitsFor, Placed
    <3> QED BY Zenon, <1>0, <2>1, <3>5, <3>6, <3>7 DEF UnlinkedInv, Placed
  <2> QED BY Zenon, <2>1, <2>2, <2>3
<1>7. CASE Restart
  <2>1. /\ linked' = LinkedOnLoad /\ UNCHANGED <<known, ntx, have, rq>> /\ Placed' \subseteq have
        /\ unlinked' = [b \in Blocks |-> IF b \in ntx \ linked' THEN 1 ELSE 0]
    BY Zenon, <1>7 DEF Restart, Placed
  <2>2. unlinked' \in [Blocks -> 0..MaxUnlinked] /\ Unlinked' = ntx \ linked'
    <3>1. ntx \ linked' \in SUBSET Blocks
      BY Zenon DEF StoreInv
    <3> QED BY Zenon, <2>1, <3>1, Entries
  <2>3. \A d \in known : d \in linked' <=> ChainOf[d] \subseteq ntx
    BY Zenon, <2>1 DEF LinkedOnLoad
  <2>4. ASSUME NEW d \in Placed' \ linked', Parent[d] \in linked' PROVE FALSE
    <3>1. Genesis \in linked
      <4>1. tip \in Blocks /\ ChainOf[tip] \subseteq linked
        BY Zenon DEF StoreInv, IndexInv
      <4> QED BY Zenon, <4>1 DEF TreeFacts, PathFacts
    <3>2. d \in Blocks \ {Genesis} /\ d \in known /\ d \in ntx
      BY Zenon, <2>1, <2>3, <3>1, Genealogy DEF StoreInv
    <3>3. ChainOf[Parent[d]] \subseteq ntx
      BY Zenon, <2>1, <2>4 DEF LinkedOnLoad
    <3> QED BY Zenon, <2>3, <2>4, <3>2, <3>3, Genealogy
  <2>5. ASSUME NEW d \in Unlinked' PROVE \E m \in ChainOf[d] \ {d} : WaitsFor(d, m)'
    <3>1. d \in Blocks /\ d \in known /\ d \in ntx /\ ~(ChainOf[d] \subseteq ntx)
      BY Zenon, <2>2, <2>3 DEF StoreInv
    <3>2. PICK m \in ChainOf[d] \ ntx : ChainOf[d] \ ChainOf[m] \subseteq ntx
      BY Zenon, <3>1, LastMissing
    <3>3. ASSUME NEW x \in ChainOf[d] \ ChainOf[m], x \in linked' PROVE FALSE
      <4>1. m \in ChainOf[x] /\ x \in ntx
        BY Zenon, <3>1, <3>2, Upper
      <4> QED BY Zenon, <2>3, <3>2, <3>3, <4>1 DEF StoreInv
    <3> QED BY Zenon, <2>1, <2>2, <3>1, <3>2, <3>3 DEF WaitsFor, StoreInv
  <2> QED BY Zenon, <1>0, <2>1, <2>2, <2>4, <2>5 DEF UnlinkedInv, StoreInv
<1> QED BY Zenon, <1>1, <1>2, <1>3, <1>4, <1>5, <1>6, <1>7, StoreQuiet

-----------------------------------------------------------------------------
(* The tip before an iteration of ActivateBestChain.                       *)

\* The tip before the iteration can be connected again, and the search for a target
\* goes on only from a tip that is no better.
StartInv ==
    pc \in {"find", "conn"} =>
        /\ rq = <<>> /\ startTip \in linked
        /\ ChainOf[startTip] \cap (failed \cup ConnectInvalid) = {}
        /\ ChainOf[startTip] \ ChainOf[tip] \subseteq have
        /\ pc = "find" => ~Worse(startTip, tip)

\* CBlockIndexWorkComparator is a strict total order.
LEMMA Comparator ==
    ASSUME StoreInv, NEW s \in [Blocks -> Int]
    PROVE  /\ \A a \in Blocks : ~WorseBy(s, a, a)
           /\ \A a, b \in Blocks : WorseBy(s, a, b) => ~WorseBy(s, b, a)
           /\ \A a, b \in Blocks : a = b \/ WorseBy(s, a, b) \/ WorseBy(s, b, a)
           /\ \A a, b, c \in Blocks : ~WorseBy(s, a, b) /\ ~WorseBy(s, b, c) => ~WorseBy(s, a, c)
           /\ \A a, b \in Blocks : Work[a] < Work[b] => WorseBy(s, a, b)
<1>1. /\ Addr \in [Blocks -> Nat] /\ \A b, d \in Blocks : Addr[b] = Addr[d] => b = d
      /\ Work \in [Blocks -> Nat]
  BY Zenon, TreeAssumption, ScenarioFacts
<1> QED BY <1>1 DEF WorseBy

\* The order in which the candidates are.
LEMMA InOrder ==
    ASSUME StoreInv, IndexInv
    PROVE  /\ \A a \in Blocks : ~Worse(a, a)
           /\ \A a, b \in Blocks : Worse(a, b) => ~Worse(b, a)
           /\ \A a, b \in Blocks : a = b \/ Worse(a, b) \/ Worse(b, a)
           /\ \A a, b, c \in Blocks : ~Worse(a, b) /\ ~Worse(b, c) => ~Worse(a, c)
           /\ \A a, b \in Blocks : Work[a] < Work[b] => Worse(a, b)
<1>1. seqId \in [Blocks -> Int]
  BY Zenon DEF IndexInv
<1> QED BY Zenon, <1>1, Comparator DEF Worse

\* A step that assigns no sequence id keeps the order.
LEMMA OrderKept ==
    ASSUME scenario' = scenario
    PROVE  /\ \A a, b : Worse(a, b)' <=> WorseBy(seqId', a, b)
           /\ seqId' = seqId => \A a, b : Worse(a, b)' <=> Worse(a, b)
BY Zenon DEF Worse, WorseBy, Work

\* A block on the path to another is worse.
LEMMA LowerIsWorse ==
    ASSUME TreeFacts, StoreInv, IndexInv, NEW b \in Blocks, NEW a \in ChainOf[b] \ {b}
    PROVE  Worse(a, b) /\ ~Worse(b, a)
<1>1. a \in Blocks /\ Work[a] < Work[b]
  BY Zenon, WorkOnPath DEF TreeFacts, PathFacts
<1> QED BY Zenon, <1>1, InOrder

\* The steps of the thread that holds cs_main.
LEMMA Busy ==
    ASSUME [Next]_vars, pc \in {"find", "conn"}, rq = <<>>
    PROVE  \/ UNCHANGED vars
           \/ FindMostWorkChain \/ NothingToDo \/ DisconnectToFork \/ DisconnectFails
           \/ ConnectTip \/ ConnectTipInvalid
<1>1. ~CsMainFree /\ pc # "idle" /\ pc # "inv" /\ pc # "abc"
  BY Zenon DEF CsMainFree
<1>2. \A b \in Blocks : ~AcceptBlockHeader(b) /\ ~RejectBlock(b) /\ ~ProcessNewBlock(b) /\ ~PruneBlock(b)
  BY Zenon, <1>1 DEF AcceptBlockHeader, RejectBlock, ProcessNewBlock, PruneBlock
<1>3. \A b \in Blocks : ~InvalidateBlock(b) /\ ~ReconsiderBlock(b) /\ ~PreciousBlock(b)
  BY Zenon, <1>1 DEF InvalidateBlock, ReconsiderBlock, PreciousBlock, UserCall
<1>4. ~LinkBlock /\ ~Interrupt /\ ~Restart /\ ~Invalidate /\ ~ActivateBestChain
  BY Zenon, <1>1 DEF LinkBlock, Interrupt, Restart, Invalidate, InvalidateDisconnect, InvalidateFails,
                     InvalidateFinish, ActivateBestChain
<1> QED BY Zenon, <1>2, <1>3, <1>4 DEF Next, Activate

\* ActivateBestChain is how a thread comes to hold cs_main for an iteration.
LEMMA Locking ==
    ASSUME [Next]_vars, pc \notin {"find", "conn"}, ~ActivateBestChain
    PROVE  pc' \notin {"find", "conn"}
<1>1. CASE UNCHANGED vars
  BY Zenon, <1>1 DEF vars
<1>2. ASSUME NEW b \in Blocks, AcceptBlockHeader(b) \/ RejectBlock(b) \/ ProcessNewBlock(b) \/ PruneBlock(b)
      PROVE  pc' = pc
  BY Zenon, <1>2 DEF AcceptBlockHeader, RejectBlock, ProcessNewBlock, PruneBlock
<1>3. ASSUME NEW b \in Blocks, InvalidateBlock(b) \/ ReconsiderBlock(b) \/ PreciousBlock(b)
      PROVE  pc' \in {pc, "inv"}
  BY Zenon, <1>3 DEF InvalidateBlock, ReconsiderBlock, PreciousBlock
<1>4. CASE LinkBlock \/ Interrupt \/ Restart
  <2>1. pc' \in {pc, "undefined"}
    BY Zenon, <1>4 DEF LinkBlock, Interrupt, Restart
  <2> QED BY Zenon, <2>1
<1>5. CASE Invalidate
  <2>1. pc' = pc \/ pc' = "idle"
    BY Zenon, <1>5 DEF Invalidate, InvalidateDisconnect, InvalidateFails, InvalidateFinish, InvalidateReturns
  <2> QED BY Zenon, <2>1
<1>6. CASE Activate
  BY Zenon, <1>6 DEF Activate, FindMostWorkChain, NothingToDo, DisconnectToFork,
                     DisconnectFails, ConnectTip, ConnectTipInvalid
<1> QED BY Zenon, <1>1, <1>2, <1>3, <1>4, <1>5, <1>6 DEF Next

\* One turn of FindMostWorkChain: it settles on a candidate no other is better than,
\* or rules one out because of a block t on the way to it, with the blocks above t.
LEMMA SearchFacts ==
    ASSUME TreeFacts, StoreInv, IndexInv, UnlinkedInv, FindMostWorkChain
    PROVE  \/ /\ mostWork' \in cands /\ \A d \in cands : ~Worse(mostWork', d)
              /\ UNCHANGED <<failed, cands, unlinked, missed>>
           \/ /\ mostWork' = NoBlock
              /\ \E c \in cands, t \in Blocks :
                   /\ t \in ChainOf[c] \ ChainOf[tip] /\ (t \in failed \/ t \notin have)
                   /\ \A d : d \in cands' <=> d \in cands /\ d # t /\ d \notin ChainOf[c] \ ChainOf[t]
                   /\ \/ t \in failed /\ failed' = failed \cup (ChainOf[c] \ ChainOf[t]) /\ Unlinked' = Unlinked
                      \/ t \notin failed /\ failed' = failed /\ Unlinked' = Unlinked \cup (ChainOf[c] \ ChainOf[t])
<1> DEFINE c == BestOf(cands)
           t == HighestOf(Unusable(c))
           above == RuledOut(c) \ {t}
<1>1. /\ mostWork = NoBlock /\ cands # {}
      /\ IF Unusable(c) = {}
         THEN mostWork' = c /\ UNCHANGED <<failed, cands, unlinked, missed>>
         ELSE /\ cands' = cands \ RuledOut(c)
              /\ IF t \in failed
                 THEN failed' = failed \cup above /\ UNCHANGED unlinked
                 ELSE unlinked' = AddUnlinked(unlinked, above) /\ UNCHANGED failed
              /\ UNCHANGED mostWork
  BY Zenon DEF FindMostWorkChain
<1>2. c \in cands /\ (\A d \in cands \ {c} : Worse(d, c)) /\ cands \subseteq Blocks /\ c \in Blocks /\ tip \in Blocks
  BY Zenon, <1>1, BestCandidate DEF StoreInv, IndexInv
<1>3. CASE Unusable(c) = {}
  <2>1. mostWork' = c /\ UNCHANGED <<failed, cands, unlinked, missed>>
    BY Zenon, <1>1, <1>3
  <2>2. \A d \in cands : ~Worse(c, d)
    BY Zenon, <1>2, InOrder
  <2> QED BY Zenon, <1>2, <2>1, <2>2
<1>4. CASE Unusable(c) # {}
  <2>1. t \in ChainOf[c] \ ChainOf[tip] /\ t \in Unusable(c) /\ above = ChainOf[c] \ ChainOf[t]
    BY Zenon, <1>2, <1>4, UnusableFacts
  <2>2. t \in Blocks /\ above \in SUBSET Blocks /\ (t \in failed \/ t \notin have)
    <3>1. \A x \in Unusable(c) : x \in failed \/ x \notin have
      BY Zenon DEF Unusable
    <3> QED BY Zenon, <1>2, <2>1, <3>1 DEF TreeFacts, PathFacts
  <2>3. RuledOut(c) = (ChainOf[c] \ ChainOf[t]) \cup {t}
    BY Zenon DEF RuledOut
  <2>4. /\ mostWork' = NoBlock /\ cands' = cands \ RuledOut(c)
        /\ \/ t \in failed /\ failed' = failed \cup above /\ unlinked' = unlinked
           \/ t \notin failed /\ failed' = failed /\ unlinked' = AddUnlinked(unlinked, above)
    BY Zenon, <1>1, <1>4
  <2>5. /\ unlinked' = unlinked => Unlinked' = Unlinked
        /\ unlinked' = AddUnlinked(unlinked, above) => Unlinked' = Unlinked \cup above
    BY Zenon, <2>2, Entries DEF Unlinked
  <2> HIDE DEF c, t, above
  <2>6. \/ t \in failed /\ failed' = failed \cup (ChainOf[c] \ ChainOf[t]) /\ Unlinked' = Unlinked
        \/ t \notin failed /\ failed' = failed /\ Unlinked' = Unlinked \cup (ChainOf[c] \ ChainOf[t])
    BY Zenon, <2>1, <2>4, <2>5
  <2>7. \A d : d \in cands' <=> d \in cands /\ d # t /\ d \notin ChainOf[c] \ ChainOf[t]
    BY Zenon, <2>3, <2>4
  <2> QED BY Zenon, <1>2, <2>1, <2>2, <2>4, <2>6, <2>7
<1> QED BY Zenon, <1>3, <1>4

\* ActivateBestChain begins an iteration with a tip that is valid, and what fails to
\* connect in it was not connected before.
LEMMA StartKept ==
    ASSUME TreeFacts, StoreInv, IndexInv, TargetInv, UnlinkedInv, StartInv, [Next]_vars
    PROVE  StartInv'
<1>1. scenario' = scenario
  BY Zenon, Frame
<1>2. /\ \A a, b : Worse(a, b)' <=> WorseBy(seqId', a, b)
      /\ seqId' = seqId => \A a, b : Worse(a, b)' <=> Worse(a, b)
  BY Zenon, <1>1, OrderKept
<1>3. ConnectInvalid' = ConnectInvalid
  BY Zenon, <1>1 DEF ConnectInvalid
<1>4. tip \in Blocks /\ linked \subseteq Blocks /\ tip \in linked
  BY Zenon DEF StoreInv, IndexInv
<1>5. CASE pc \notin {"find", "conn"} /\ ~ActivateBestChain
  BY Zenon, <1>5, Locking DEF StartInv
<1>6. CASE ActivateBestChain
  <2>1. rq = <<>> /\ pc' = "find" /\ startTip' = tip /\ UNCHANGED <<linked, failed, have, tip, rq, seqId>>
    BY Zenon, <1>6 DEF ActivateBestChain, index, order
  <2>2. ~Worse(tip, tip) /\ ChainOf[tip] \cap (failed \cup ConnectInvalid) = {}
    BY Zenon, <1>4, InOrder DEF TargetInv
  <2> QED BY Zenon, <1>2, <1>3, <1>4, <2>1, <2>2 DEF StartInv
<1>7. CASE pc \in {"find", "conn"}
  <2>1. /\ rq = <<>> /\ startTip \in linked /\ startTip \in Blocks
        /\ ChainOf[startTip] \cap (failed \cup ConnectInvalid) = {}
        /\ ChainOf[startTip] \ ChainOf[tip] \subseteq have
        /\ pc = "find" => ~Worse(startTip, tip)
    BY Zenon, <1>4, <1>7 DEF StartInv
  <2>2. CASE UNCHANGED vars
    BY Zenon, <1>2, <1>3, <2>2 DEF vars, index, order, abc, StartInv
  <2>3. CASE FindMostWorkChain
    <3>1. UNCHANGED <<linked, have, tip, rq, seqId, pc, startTip>>
      BY Zenon, <2>3 DEF FindMostWorkChain, order
    <3>2. failed' = failed \/ \E c \in cands, t \in Blocks : t \in failed /\ t \in ChainOf[c]
                                        /\ failed' = failed \cup (ChainOf[c] \ ChainOf[t])
      BY Zenon, <2>3, SearchFacts
    <3>3. ChainOf[startTip] \cap (failed' \cup ConnectInvalid) = {}
      <4>1. CASE failed' = failed
        BY Zenon, <2>1, <4>1
      <4>2. ASSUME NEW c \in cands, NEW t \in Blocks, t \in failed, t \in ChainOf[c],
                   failed' = failed \cup (ChainOf[c] \ ChainOf[t])
            PROVE  ChainOf[startTip] \cap (failed' \cup ConnectInvalid) = {}
        <5>1. c \in Blocks
          BY Zenon, <1>4 DEF IndexInv
        <5>2. ASSUME NEW x \in ChainOf[startTip], x \in ChainOf[c] \ ChainOf[t] PROVE FALSE
          <6>1. t \in ChainOf[x]
            BY Zenon, <4>2, <5>1, <5>2, Upper
          <6>2. t \in ChainOf[startTip]
            BY Zenon, <2>1, <6>1 DEF TreeFacts, PathFacts
          <6> QED BY Zenon, <2>1, <4>2, <6>2
        <5> QED BY Zenon, <2>1, <4>2, <5>2
      <4> QED BY Zenon, <3>2, <4>1, <4>2
    <3> QED BY Zenon, <1>2, <1>3, <2>1, <3>1, <3>3 DEF StartInv
  <2>4. CASE NothingToDo \/ DisconnectFails
    <3>1. pc' \in {"idle", "abc"}
      BY Zenon, <2>4 DEF NothingToDo, DisconnectFails, EndOfIteration
    <3> QED BY Zenon, <3>1 DEF StartInv
  <2>5. CASE DisconnectToFork
    <3>1. /\ UNCHANGED <<linked, failed, have, rq, startTip>> /\ pc' = "conn" /\ mostWork # NoBlock
          /\ tip' = FindFork(mostWork) /\ ChainOf[tip] \ ChainOf[tip'] \subseteq have
      BY Zenon, <2>5 DEF DisconnectToFork, index
    <3> QED BY Zenon, <1>3, <2>1, <3>1 DEF StartInv
  <2>6. CASE ConnectTip
    <3>1. /\ UNCHANGED <<linked, failed, have, rq, seqId>> /\ pc = "conn" /\ tip' = NextToConnect
          /\ (pc' = pc /\ startTip' = startTip) \/ StepEnds(tip', mostWork)
      BY Zenon, <2>6 DEF ConnectTip, index, order, abc
    <3>2. tip' \in Blocks /\ ChainOf[tip] \subseteq ChainOf[tip']
      BY Zenon, <3>1, NextFacts, Genealogy
    <3>3. pc' = "find" => Worse(tip', startTip)
      BY Zenon, <3>1 DEF StepEnds, AfterStep, EndOfIteration
    <3>4. pc' = "find" => ~Worse(startTip, tip')
      BY Zenon, <2>1, <3>2, <3>3, InOrder
    <3>5. pc' \in {"find", "conn"} => startTip' = startTip
      BY Zenon, <3>1 DEF StepEnds, AfterStep, EndOfIteration
    <3> QED BY Zenon, <1>2, <1>3, <2>1, <3>1, <3>2, <3>4, <3>5 DEF StartInv
  <2>7. CASE ConnectTipInvalid
    <3>1. /\ UNCHANGED <<linked, have, rq, seqId, tip>> /\ pc = "conn" /\ NextToConnect \in ConnectInvalid
          /\ failed' = failed \cup {NextToConnect} \cup DescendantsOf(NextToConnect)
          /\ StepEnds(tip, NoBlock)
      BY Zenon, <2>7 DEF ConnectTipInvalid, InvalidBlockFound, order
    <3>2. pc' \in {"find", "idle", "abc"} /\ (pc' = "find" => startTip' = startTip /\ Worse(tip, startTip))
      BY Zenon, <3>1 DEF StepEnds, AfterStep, EndOfIteration
    <3>3. pc' = "find" => ~Worse(startTip, tip)
      BY Zenon, <1>4, <2>1, <3>2, InOrder
    <3>4. ChainOf[startTip] \cap ({NextToConnect} \cup DescendantsOf(NextToConnect)) = {}
      BY Zenon, <2>1, <3>1, NextFacts, DescendantsFacts
    <3>5. ChainOf[startTip] \cap (failed' \cup ConnectInvalid) = {}
      BY Zenon, <2>1, <3>1, <3>4
    <3> QED BY Zenon, <1>2, <1>3, <2>1, <3>1, <3>2, <3>3, <3>5 DEF StartInv
  <2> QED BY Zenon, <1>7, <2>1, <2>2, <2>3, <2>4, <2>5, <2>6, <2>7, Busy
<1> QED BY Zenon, <1>5, <1>6, <1>7

-----------------------------------------------------------------------------
(* What setBlockIndexCandidates holds, and what is chosen from it.         *)

\* A block between b and the active chain keeps b from being connected.
Held(b) == \E m \in ChainOf[b] \ ChainOf[tip] : WaitsFor(b, m)

\* No candidate is worse than the tip.  A valid block that is no worse than the
\* tip, and than the tip before the iteration, is a candidate unless it is held.
SelectionInv ==
    /\ pc # "undefined" => \A b \in cands : ~Worse(b, tip)
    /\ pc = "inv" => tip \in cands
    /\ pc \in {"idle", "abc", "find", "conn"} =>
         \A b \in linked \ failed :
            Worse(b, tip) \/ b \in cands \/ Held(b) \/ (pc \in {"find", "conn"} /\ Worse(b, startTip))

\* pindexMostWork is no worse than the tip before the iteration, and than any
\* candidate unless a call of ActivateBestChain is to come.
BestInv ==
    /\ pc \in {"find", "conn"} /\ mostWork # NoBlock => ~Worse(mostWork, startTip)
    /\ rq = <<>> /\ ~pending /\ mostWork # NoBlock => \A b \in cands : ~Worse(mostWork, b)
    /\ rq = <<>> /\ ~pending /\ pc = "idle" => \A b \in cands : ~Worse(tip, b)

ChoiceInv == Orderly /\ ~stop => SelectionInv /\ BestInv

\* The tip is a candidate when cs_main is free.
LEMMA TipListed ==
    ASSUME TreeFacts, StoreInv, IndexInv, TargetInv, SelectionInv, pc \in {"idle", "abc", "inv"}
    PROVE  tip \in cands
<1>1. tip \in Blocks /\ tip \in linked /\ tip \notin failed
  BY Zenon DEF StoreInv, IndexInv, TargetInv, TreeFacts, PathFacts
<1>2. ~Worse(tip, tip) /\ ~Held(tip)
  BY Zenon, <1>1, InOrder DEF Held
<1> QED BY Zenon, <1>1, <1>2 DEF SelectionInv

\* The tip before the iteration is a candidate while a target is looked for.
LEMMA StartListed ==
    ASSUME TreeFacts, StoreInv, IndexInv, UnlinkedInv, StartInv, SelectionInv, pc = "find"
    PROVE  startTip \in cands
<1>1. /\ startTip \in linked /\ startTip \in Blocks /\ ~Worse(startTip, tip) /\ rq = <<>>
      /\ ChainOf[startTip] \cap failed = {} /\ ChainOf[startTip] \ ChainOf[tip] \subseteq have
  BY Zenon DEF StoreInv, StartInv
<1>2. startTip \notin failed /\ ~Worse(startTip, startTip)
  BY Zenon, <1>1, InOrder DEF TreeFacts, PathFacts
<1>3. ChainOf[startTip] \ ChainOf[tip] \subseteq Placed
  BY Zenon, <1>1 DEF StoreInv, UnlinkedInv, MissedInv, Placed
<1>4. ~Held(startTip)
  BY Zenon, <1>1, <1>3, Queue DEF Held, WaitsFor
<1> QED BY Zenon, <1>1, <1>2, <1>4 DEF SelectionInv

\* Steps that leave the tip alone, and drop only failed and held candidates.
LEMMA SelectionSame ==
    ASSUME SelectionInv, scenario' = scenario, UNCHANGED <<tip, seqId, linked, pc, startTip>>,
           cands' \subseteq cands, \A b \in cands \ cands' : b \in failed' \/ Held(b)',
           failed \subseteq failed', tip \notin failed', \A b \in linked : Held(b) => Held(b)'
    PROVE  SelectionInv'
<1>1. \A a, b : Worse(a, b)' <=> Worse(a, b)
  BY Zenon, OrderKept
<1>2. ~Held(tip)'
  BY Zenon DEF Held
<1>3. pc' = "inv" => tip' \in cands'
  BY Zenon, <1>2 DEF SelectionInv
<1>4. pc' # "undefined" => \A b \in cands' : ~Worse(b, tip)'
  BY Zenon, <1>1 DEF SelectionInv
<1>5. ASSUME pc \in {"idle", "abc", "find", "conn"}, NEW b \in linked \ failed'
      PROVE  Worse(b, tip) \/ b \in cands' \/ Held(b)' \/ (pc \in {"find", "conn"} /\ Worse(b, startTip))
  BY Zenon, <1>5 DEF SelectionInv
<1> QED BY Zenon, <1>1, <1>3, <1>4, <1>5 DEF SelectionInv

\* The same for the choice made.
LEMMA BestSame ==
    ASSUME BestInv, scenario' = scenario, UNCHANGED <<tip, seqId, pc, startTip, mostWork>>,
           cands' \subseteq cands, rq' = <<>> /\ ~pending' => rq = <<>> /\ ~pending
    PROVE  BestInv'
<1>1. \A a, b : Worse(a, b)' <=> Worse(a, b)
  BY Zenon, OrderKept
<1> QED BY Zenon, <1>1 DEF BestInv

\* A call of ActivateBestChain is to come.
LEMMA BestOpen ==
    ASSUME pc' \notin {"find", "conn"}, pending' \/ rq' # <<>>
    PROVE  BestInv'
BY Zenon DEF BestInv

\* What is held stays so when nothing is stored and no entry taken.
LEMMA HeldSame ==
    ASSUME Placed' \subseteq Placed, Range(rq) \subseteq Range(rq)', Unlinked \subseteq Unlinked', tip' = tip
    PROVE  \A b : Held(b) => Held(b)'
BY Zenon DEF Held, WaitsFor

\* Headers, blocks and pruning: a block that arrives may end a wait only by being
\* about to be linked.
LEMMA SelectionArrival ==
    ASSUME TreeFacts, StoreInv, IndexInv, TargetInv, UnlinkedInv, SelectionInv, BestInv, TargetInv',
           [Next]_vars, NEW b \in Blocks \ {Genesis}, AcceptBlockHeader(b) \/ RejectBlock(b) \/ ProcessNewBlock(b)
    PROVE  SelectionInv' /\ BestInv'
<1>1. scenario' = scenario
  BY Zenon, Frame
<1>2. tip \in Blocks /\ tip' = tip => tip \notin failed'
  BY Zenon DEF TargetInv, TreeFacts, PathFacts
<1>3. tip \in Blocks /\ linked \subseteq Blocks
  BY Zenon DEF StoreInv, IndexInv
<1>4. CASE AcceptBlockHeader(b)
  <2>1. UNCHANGED <<have, linked, failed, seqId, cands, unlinked, missed, tip, rq, pending, pc, mostWork, startTip>>
    BY Zenon, <1>4 DEF AcceptBlockHeader, order, abc
  <2>2. \A d : Held(d) => Held(d)'
    BY Zenon, <2>1 DEF Held, WaitsFor, Placed, Unlinked
  <2>3. SelectionInv'
    BY Zenon, <1>1, <1>2, <1>3, <2>1, <2>2, SelectionSame
  <2> QED BY Zenon, <1>1, <2>1, <2>3, BestSame
<1>5. CASE RejectBlock(b)
  <2>1. /\ UNCHANGED <<have, linked, seqId, unlinked, missed, tip, rq, pending, pc, mostWork, startTip>>
        /\ failed' = failed \cup {b} \cup DescendantsOf(b) /\ cands' = cands \ {b}
    BY Zenon, <1>5 DEF RejectBlock, InvalidBlockFound, order, abc
  <2>2. \A d : Held(d) => Held(d)'
    BY Zenon, <2>1 DEF Held, WaitsFor, Placed, Unlinked
  <2>3. SelectionInv'
    BY Zenon, <1>1, <1>2, <1>3, <2>1, <2>2, SelectionSame
  <2> QED BY Zenon, <1>1, <2>1, <2>3, BestSame
<1>6. CASE ProcessNewBlock(b)
  <2>1. /\ UNCHANGED <<linked, failed, seqId, cands, tip, pc, mostWork, startTip>>
        /\ rq = <<>> /\ (rq' # <<>> \/ pending')
    <3>1. <<b>> # <<>>
      OBVIOUS
    <3> QED BY Zenon, <1>6, <3>1 DEF ProcessNewBlock, CsMainFree, order, abc
  <2>2. /\ Unlinked \subseteq Unlinked' /\ Range(rq) = {} /\ Placed' \subseteq Placed \cup {b}
        /\ Parent[b] \in linked => Range(rq)' = {b}
    BY Zenon, <1>6, WaitsAfterArrival
  <2>3. ASSUME NEW d \in linked, Held(d) PROVE Held(d)'
    <3>1. PICK m \in ChainOf[d] \ ChainOf[tip] : WaitsFor(d, m)
      BY Zenon, <2>3 DEF Held
    <3>2. m \notin Placed /\ ChainOf[d] \ ChainOf[m] \subseteq Unlinked'
      BY Zenon, <2>2, <3>1 DEF WaitsFor
    <3>3. m = b => Parent[b] \in linked
      <4>1. m = b => b \in linked /\ Parent[b] \in ChainOf[b]
        BY Zenon, <3>1, Genealogy DEF StoreInv
      <4> QED BY Zenon, <4>1 DEF StoreInv
    <3>4. WaitsFor(d, m)'
      BY Zenon, <2>2, <3>1, <3>2, <3>3, StillWaits
    <3> QED BY Zenon, <2>1, <3>1, <3>4 DEF Held
  <2>4. SelectionInv'
    BY Zenon, <1>1, <1>2, <1>3, <2>1, <2>3, SelectionSame
  <2> QED BY Zenon, <1>1, <2>1, <2>4, BestSame
<1> QED BY Zenon, <1>4, <1>5, <1>6

\* Pruning: a candidate that is held stays held.
LEMMA SelectionPrune ==
    ASSUME TreeFacts, StoreInv, IndexInv, TargetInv, UnlinkedInv, SelectionInv, BestInv, TargetInv',
           [Next]_vars, NEW b \in Blocks \ {Genesis}, PruneBlock(b)
    PROVE  SelectionInv' /\ BestInv'
<1>1. scenario' = scenario
  BY Zenon, Frame
<1>2. tip \in Blocks /\ linked \subseteq Blocks
  BY Zenon DEF StoreInv, IndexInv
<1>3. UNCHANGED <<linked, failed, seqId, cands, tip, rq, pending, pc, mostWork, startTip>>
  BY Zenon DEF PruneBlock, order, abc
<1>4. tip \notin failed'
  BY Zenon, <1>2, <1>3 DEF TargetInv, TreeFacts, PathFacts
<1>5. ASSUME NEW d \in linked, Held(d) PROVE Held(d)'
  <2>1. PICK m \in ChainOf[d] \ ChainOf[tip] : WaitsFor(d, m)
    BY Zenon, <1>5 DEF Held
  <2>2. WaitsFor(d, m)' \/ (b \in ChainOf[d] \ ChainOf[m] /\ WaitsFor(d, b)')
    BY Zenon, <1>2, <2>1, WaitsAfterPrune
  <2>3. b \in ChainOf[d] \ ChainOf[m] => b \notin ChainOf[tip]
    BY Zenon, <1>2, <2>1, AboveSpared
  <2> QED BY Zenon, <1>3, <2>1, <2>2, <2>3 DEF Held
<1>6. SelectionInv'
  BY Zenon, <1>1, <1>3, <1>4, <1>5, SelectionSame
<1> QED BY Zenon, <1>1, <1>3, <1>6, BestSame

\* The sequence id of a block other than the two compared does not matter, and a lower
\* one of the second does not make the first better.
LEMMA Reassigned ==
    ASSUME StoreInv, NEW s \in [Blocks -> Int], NEW u \in [Blocks -> Int], NEW a \in Blocks, NEW b \in Blocks,
           s[a] = u[a], s[b] <= u[b], WorseBy(u, a, b)
    PROVE  WorseBy(s, a, b)
<1>1. Work[a] \in Nat /\ Work[b] \in Nat /\ s[a] \in Int /\ s[b] \in Int /\ u[a] \in Int /\ u[b] \in Int
  BY Zenon, ScenarioFacts
<1> QED BY <1>1 DEF WorseBy

\* A block that is linked becomes a candidate when it is no worse than the tip, and
\* those that waited for it wait for the next one.
LEMMA SelectionLink ==
    ASSUME TreeFacts, StoreInv, IndexInv, TargetInv, UnlinkedInv, StartInv, SelectionInv, IndexInv',
           [Next]_vars, LinkBlock
    PROVE  SelectionInv' /\ BestInv'
<1> DEFINE b == Head(rq)
           s == [seqId EXCEPT ![b] = nSeq]
<1>1. /\ rq # <<>> /\ linked' = linked \cup {b} /\ seqId' = s /\ UNCHANGED <<have, failed, tip, startTip>>
      /\ pc' = (IF b \in cands THEN "undefined" ELSE pc) /\ cands' = TryAddBlockIndexCandidate(b, s)
      /\ pending' = (pending \/ rq' = <<>>) /\ pc # "undefined"
  BY Zenon DEF LinkBlock, abc
<1>2. pc \in {"idle", "abc", "inv"}
  BY Zenon, <1>1 DEF IndexInv, Pcs, StartInv
<1>3. tip \in cands /\ tip \in Blocks /\ linked \subseteq Blocks /\ cands \subseteq Blocks
  BY Zenon, <1>2, TipListed DEF StoreInv, IndexInv
<1>4. scenario' = scenario
  BY Zenon, Frame
<1>5. BestInv'
  <2>1. pc' \notin {"find", "conn"}
    BY Zenon, <1>1, <1>2
  <2> QED BY Zenon, <1>1, <2>1, BestOpen
<1>6. \A a \in Blocks : a # b => s[a] = seqId[a]
  BY Zenon DEF IndexInv
<1>7. s \in [Blocks -> Int] /\ seqId \in [Blocks -> Int]
  BY Zenon, <1>1 DEF IndexInv
<1> HIDE DEF s
<1>8. \A a, d : Worse(a, d)' <=> WorseBy(s, a, d)
  BY Zenon, <1>1, <1>4, OrderKept
<1>9. \A n \in Int : n <= n
  OBVIOUS
<1>10. CASE b \in cands
  BY Zenon, <1>1, <1>5, <1>10 DEF SelectionInv
<1>11. CASE b \notin cands
  <2>1. tip # b /\ s[tip] = seqId[tip] /\ seqId[tip] \in Int
    BY Zenon, <1>3, <1>6, <1>7, <1>11
  <2>2. \A a \in Blocks : a # b => (WorseBy(s, a, tip) <=> Worse(a, tip))
    BY Zenon, <1>3, <1>6, <1>7, <1>9, <2>1, Reassigned DEF Worse
  <2>3. cands \subseteq cands' /\ (cands' \subseteq cands \cup {b}) /\ (b \in cands' => ~WorseBy(s, b, tip))
        /\ (~WorseBy(s, b, tip) => b \in cands')
    BY Zenon, <1>1, <1>11 DEF TryAddBlockIndexCandidate
  <2>4. pc' = pc
    BY Zenon, <1>1, <1>11
  <2>5. \A d \in cands' : ~Worse(d, tip)'
    BY Zenon, <1>1, <1>3, <1>8, <1>11, <2>2, <2>3 DEF SelectionInv
  <2>6. ASSUME NEW d \in linked, d # b, Held(d) PROVE Held(d)'
    <3>1. PICK m \in ChainOf[d] \ ChainOf[tip] : WaitsFor(d, m)
      BY Zenon, <2>6 DEF Held
    <3>2. d \in Blocks
      BY Zenon, <1>3
    <3>3. \/ WaitsFor(d, m)'
          \/ \E k \in ChainOf[d] \ ChainOf[m] : WaitsFor(d, k)'
      BY Zenon, <2>6, <3>1, <3>2, WaitsAfterLink
    <3>4. \A k \in ChainOf[d] \ ChainOf[m] : k \notin ChainOf[tip]
      BY Zenon, <1>3, <3>1, <3>2, AboveSpared
    <3> QED BY Zenon, <1>1, <3>1, <3>3, <3>4 DEF Held
  <2>7. ASSUME pc' \in {"idle", "abc", "find", "conn"}, NEW d \in linked' \ failed'
        PROVE  Worse(d, tip)' \/ d \in cands' \/ Held(d)'
    <3>1. CASE d = b
      BY Zenon, <1>1, <1>8, <2>3, <3>1
    <3>2. CASE d # b
      <4>1. d \in linked \ failed /\ d \in Blocks /\ pc \in {"idle", "abc"}
        BY Zenon, <1>1, <1>2, <1>3, <2>4, <2>7, <3>2
      <4>2. Worse(d, tip) \/ d \in cands \/ Held(d)
        BY Zenon, <4>1 DEF SelectionInv
      <4> QED BY Zenon, <1>1, <1>8, <2>2, <2>3, <2>6, <3>2, <4>1, <4>2
    <3> QED BY Zenon, <3>1, <3>2
  <2> QED BY Zenon, <1>1, <1>3, <1>5, <2>3, <2>5, <2>7 DEF SelectionInv
<1> QED BY Zenon, <1>10, <1>11

\* Between taking and giving up cs_main: what ActivateBestChain rules out is failed or
\* held, and it gives up cs_main with a tip that is no worse than before.
LEMMA SelectionBusy ==
    ASSUME TreeFacts, StoreInv, IndexInv, TargetInv, UnlinkedInv, StartInv, SelectionInv, BestInv,
           TargetInv', [Next]_vars, pc \in {"find", "conn"}, ~stop'
    PROVE  /\ SelectionInv' /\ BestInv'
           /\ pc' \in {"idle", "abc"} => ~Worse(tip', startTip)
<1>1. scenario' = scenario
  BY Zenon, Frame
<1>2. seqId' = seqId => \A a, b : Worse(a, b)' <=> Worse(a, b)
  BY Zenon, <1>1, OrderKept
<1>3. /\ rq = <<>> /\ Range(rq) = {} /\ tip \in Blocks /\ startTip \in Blocks /\ linked \subseteq Blocks
      /\ cands \subseteq Blocks /\ NoBlock \notin Blocks
  BY Zenon, Queue, Genealogy DEF StoreInv, IndexInv, StartInv
<1>4. /\ \A b \in cands : ~Worse(b, tip)
      /\ \A b \in linked \ failed : Worse(b, tip) \/ b \in cands \/ Held(b) \/ Worse(b, startTip)
  BY Zenon DEF SelectionInv
<1>5. CASE UNCHANGED vars
  <2>1. UNCHANGED <<have, linked, failed, seqId, cands, unlinked, missed, tip, rq, pending, pc, mostWork, startTip>>
    BY Zenon, <1>5 DEF vars, index, order, sets, abc
  <2>2. \A b : Held(b) => Held(b)'
    BY Zenon, <2>1 DEF Held, WaitsFor, Placed, Unlinked
  <2>3. tip \notin failed'
    BY Zenon, <1>3, <2>1 DEF TargetInv, TreeFacts, PathFacts
  <2> QED BY Zenon, <1>1, <2>1, <2>2, <2>3, SelectionSame, BestSame
<1>6. CASE FindMostWorkChain
  <2>1. /\ UNCHANGED <<have, missed, linked, seqId, tip, rq, pending, pc, startTip>> /\ pc = "find"
    BY Zenon, <1>6 DEF FindMostWorkChain, order
  <2>2. tip \notin failed'
    BY Zenon, <1>3, <2>1 DEF TargetInv, TreeFacts, PathFacts
  <2>3. CASE mostWork' \in cands /\ (\A d \in cands : ~Worse(mostWork', d)) /\ UNCHANGED <<failed, cands, unlinked, missed>>
    <3>1. \A b : Held(b) => Held(b)'
      BY Zenon, <2>1, <2>3 DEF Held, WaitsFor, Placed, Unlinked
    <3>2. SelectionInv'
      BY Zenon, <1>1, <2>1, <2>2, <2>3, <3>1, SelectionSame
    <3>3. startTip \in cands
      BY Zenon, <2>1, StartListed
    <3>4. BestInv'
      BY Zenon, <1>2, <2>1, <2>3, <3>3 DEF BestInv
    <3> QED BY Zenon, <2>1, <3>2, <3>4
  <2>4. ASSUME mostWork' = NoBlock, NEW c \in cands, NEW t \in Blocks, t \in ChainOf[c] \ ChainOf[tip],
               t \in failed \/ t \notin have,
               \A d : d \in cands' <=> d \in cands /\ d # t /\ d \notin ChainOf[c] \ ChainOf[t],
               \/ t \in failed /\ failed' = failed \cup (ChainOf[c] \ ChainOf[t]) /\ Unlinked' = Unlinked
               \/ t \notin failed /\ failed' = failed /\ Unlinked' = Unlinked \cup (ChainOf[c] \ ChainOf[t])
        PROVE  SelectionInv' /\ BestInv'
    <3>1. \A b : Held(b) => Held(b)'
      <4>1. Unlinked \subseteq Unlinked' /\ Placed' \subseteq Placed /\ Range(rq) \subseteq Range(rq)'
        BY Zenon, <2>1, <2>4 DEF Placed
      <4> QED BY Zenon, <2>1, <4>1, HeldSame
    <3>2. ASSUME NEW b \in cands \ cands' PROVE b \in failed' \/ Held(b)'
      <4>1. b = t \/ b \in ChainOf[c] \ ChainOf[t]
        BY Zenon, <2>4
      <4>2. t \in ChainOf[b] /\ ChainOf[b] \subseteq ChainOf[c]
        BY Zenon, <1>3, <2>4, <4>1, Upper DEF TreeFacts, PathFacts
      <4>3. CASE t \in failed
        BY Zenon, <2>4, <4>1, <4>3
      <4>4. CASE t \notin failed
        <5>1. WaitsFor(b, t)'
          BY Zenon, <2>1, <2>4, <4>2, <4>4 DEF WaitsFor, Placed
        <5> QED BY Zenon, <2>1, <2>4, <4>2, <5>1 DEF Held
      <4> QED BY Zenon, <4>3, <4>4
    <3>3. SelectionInv'
      BY Zenon, <1>1, <2>1, <2>2, <2>4, <3>1, <3>2, SelectionSame
    <3> QED BY Zenon, <2>1, <2>4, <3>3 DEF BestInv
  <2> QED BY Zenon, <1>6, <2>1, <2>3, <2>4, SearchFacts
<1>7. CASE NothingToDo
  <2>1. /\ UNCHANGED <<have, linked, failed, seqId, cands, unlinked, missed, tip, rq, pending>> /\ pc = "find"
        /\ mostWork = tip \/ (mostWork = NoBlock /\ cands = {})
        /\ pc' \in {"idle", "abc"} /\ mostWork' = (IF pc' = "idle" THEN NoBlock ELSE mostWork)
    BY Zenon, <1>7 DEF NothingToDo, EndOfIteration, index, order, sets
  <2>2. mostWork = tip
    BY Zenon, <2>1, StartListed
  <2>3. ~Worse(tip, startTip)
    BY Zenon, <1>3, <2>1, <2>2 DEF BestInv
  <2>4. \A b : Held(b) => Held(b)'
    BY Zenon, <2>1 DEF Held, WaitsFor, Placed, Unlinked
  <2>5. \A b \in linked \ failed : Worse(b, tip) \/ b \in cands \/ Held(b)
    BY Zenon, <1>3, <1>4, <2>3, InOrder
  <2>6. SelectionInv'
    BY Zenon, <1>2, <1>4, <2>1, <2>4, <2>5 DEF SelectionInv
  <2>7. BestInv'
    BY Zenon, <1>2, <1>3, <2>1, <2>2 DEF BestInv
  <2> QED BY Zenon, <2>1, <2>3, <2>6, <2>7
<1>8. CASE DisconnectToFork
  <2>1. /\ UNCHANGED <<have, linked, failed, seqId, cands, unlinked, missed, rq, pending, mostWork, startTip>>
        /\ pc = "find" /\ pc' = "conn" /\ tip' = FindFork(mostWork) /\ mostWork # NoBlock
    BY Zenon, <1>8 DEF DisconnectToFork, index, order, sets
  <2>2. tip' \in ChainOf[tip] /\ tip' \in Blocks /\ ChainOf[tip'] \subseteq ChainOf[tip]
    <3>1. mostWork \in Blocks
      BY Zenon, <1>3, <2>1 DEF TargetInv
    <3> QED BY Zenon, <1>3, <2>1, <3>1, ForkFacts DEF TreeFacts, PathFacts
  <2>3. ~Worse(tip, tip')
    BY Zenon, <1>3, <2>2, InOrder, LowerIsWorse
  <2>4. \A b \in cands : ~Worse(b, tip')
    BY Zenon, <1>3, <1>4, <2>2, <2>3, InOrder
  <2>5. \A b : Held(b) => Held(b)'
    BY Zenon, <2>1, <2>2 DEF Held, WaitsFor, Placed, Unlinked
  <2>6. ~Worse(startTip, tip)
    BY Zenon, <2>1 DEF StartInv
  <2>7. \A b \in linked \ failed : b \in cands \/ Held(b) \/ Worse(b, startTip)
    BY Zenon, <1>3, <1>4, <2>6, InOrder
  <2>8. SelectionInv'
    BY Zenon, <1>2, <2>1, <2>4, <2>5, <2>7 DEF SelectionInv
  <2> QED BY Zenon, <1>2, <2>1, <2>8 DEF BestInv
<1>9. CASE DisconnectFails
  BY Zenon, <1>9 DEF DisconnectFails
<1>10. CASE ConnectTip
  <2>1. /\ UNCHANGED <<have, linked, failed, seqId, unlinked, missed, rq, pending, stop>> /\ pc = "conn"
        /\ tip' = NextToConnect /\ cands' = PruneBlockIndexCandidates(cands, tip')
        /\ (pc' = pc /\ startTip' = startTip /\ mostWork' = mostWork) \/ StepEnds(tip', mostWork)
    BY Zenon, <1>10 DEF ConnectTip, index, order, abc, env
  <2>2. /\ tip' \in Blocks \ {Genesis} /\ tip' \in ChainOf[mostWork] \ ChainOf[tip] /\ Parent[tip'] = tip
        /\ mostWork # NoBlock /\ mostWork \in Blocks
    BY Zenon, <1>3, <2>1, NextFacts
  <2>3. tip \in ChainOf[tip'] \ {tip'} /\ ~Worse(tip', tip)
    <3>1. tip \in ChainOf[tip'] \ {tip'}
      BY Zenon, <1>3, <2>2, Genealogy
    <3> QED BY Zenon, <2>2, <3>1, LowerIsWorse
  <2>4. \A b \in cands' : b \in cands /\ ~Worse(b, tip')
    BY Zenon, <2>1 DEF PruneBlockIndexCandidates
  <2>5. \A b \in linked : Held(b) => Held(b)'
    <3>1. tip' \in Placed
      BY Zenon, <2>2 DEF TargetInv, StoreInv, IndexInv, UnlinkedInv, MissedInv, Placed
    <3>2. \A m : m \in ChainOf[tip'] <=> m = tip' \/ m \in ChainOf[tip]
      BY Zenon, <2>2, Genealogy
    <3>3. \A b : ~WaitsFor(b, tip')
      BY Zenon, <1>3, <3>1 DEF WaitsFor
    <3>4. \A b, m : WaitsFor(b, m) => WaitsFor(b, m)'
      BY Zenon, <2>1 DEF WaitsFor, Placed, Unlinked
    <3> QED BY Zenon, <3>2, <3>3, <3>4 DEF Held
  <2>6. \A b \in linked \ failed : Worse(b, tip') \/ b \in cands' \/ Held(b)' \/ Worse(b, startTip)
    <3>1. \A b \in cands : ~Worse(b, tip') => b \in cands'
      BY Zenon, <2>1 DEF PruneBlockIndexCandidates
    <3>2. \A b \in linked : Worse(b, tip) => Worse(b, tip')
      BY Zenon, <1>3, <2>2, <2>3, InOrder
    <3> QED BY Zenon, <1>4, <2>5, <3>1, <3>2
  <2>7. /\ pc' \in {"find", "conn", "abc", "idle"}
        /\ pc' \in {"find", "conn"} => startTip' = startTip
        /\ pc' \in {"idle", "abc"} => ~Worse(tip', startTip)
        /\ pc' = "idle" => tip' = mostWork \/ stop
        /\ mostWork' \in {NoBlock, mostWork}
    BY Zenon, <2>1 DEF StepEnds, AfterStep, EndOfIteration
  <2>8. pc' \in {"idle", "abc"} => \A b \in linked \ failed : Worse(b, tip') \/ b \in cands' \/ Held(b)'
    BY Zenon, <1>3, <2>2, <2>6, <2>7, InOrder
  <2>9. SelectionInv'
    BY Zenon, <1>2, <2>1, <2>4, <2>6, <2>7, <2>8 DEF SelectionInv
  <2>10. BestInv'
    BY Zenon, <1>2, <1>3, <2>1, <2>2, <2>4, <2>7 DEF BestInv
  <2> QED BY Zenon, <2>7, <2>9, <2>10
<1>11. CASE ConnectTipInvalid
  <2>1. /\ UNCHANGED <<have, linked, seqId, unlinked, missed, rq, pending, tip, stop>> /\ pc = "conn"
        /\ failed' = failed \cup {NextToConnect} \cup DescendantsOf(NextToConnect)
        /\ cands' = cands \ {NextToConnect} /\ StepEnds(tip, NoBlock)
    BY Zenon, <1>11 DEF ConnectTipInvalid, InvalidBlockFound, order, env
  <2>2. /\ pc' \in {"find", "abc"} /\ mostWork' = NoBlock
        /\ pc' = "find" => startTip' = startTip
        /\ pc' = "abc" => ~Worse(tip, startTip)
    BY Zenon, <1>3, <2>1 DEF StepEnds, AfterStep, EndOfIteration
  <2>3. \A b : Held(b) => Held(b)'
    BY Zenon, <2>1 DEF Held, WaitsFor, Placed, Unlinked
  <2>4. \A b \in linked \ failed' : Worse(b, tip) \/ b \in cands' \/ Held(b)' \/ Worse(b, startTip)
    BY Zenon, <1>4, <2>1, <2>3
  <2>5. pc' = "abc" => \A b \in linked \ failed' : Worse(b, tip) \/ b \in cands' \/ Held(b)'
    BY Zenon, <1>3, <2>2, <2>4, InOrder
  <2>6. SelectionInv'
    BY Zenon, <1>2, <1>4, <2>1, <2>2, <2>4, <2>5 DEF SelectionInv
  <2> QED BY Zenon, <2>1, <2>2, <2>6 DEF BestInv
<1> QED BY Zenon, <1>3, <1>5, <1>6, <1>7, <1>8, <1>9, <1>10, <1>11, Busy

\* A call of PreciousBlock for the tip does not make the tip less preferred.
Preferred == PreciousBlock(tip) => seqId'[tip] <= seqId[tip]

\* PreciousBlock: only blocks that are worse than the tip leave the candidates.
LEMMA SelectionPrecious ==
    ASSUME TreeFacts, StoreInv, IndexInv, TargetInv, SelectionInv, IndexInv',
           [Next]_vars, Preferred, NEW b \in Blocks, PreciousBlock(b)
    PROVE  SelectionInv' /\ BestInv'
<1> DEFINE rev == IF Work[tip] > lastPrecious THEN -1 ELSE revSeq
           s == [seqId EXCEPT ![b] = rev]
<1>1. /\ UNCHANGED <<have, linked, failed, unlinked, missed, tip, rq, pc>> /\ pending' = TRUE /\ seqId' = s
      /\ cands' = IF Eligible(b, failed) THEN {d \in cands \cup {b} : ~WorseBy(s, d, tip)} ELSE cands \ {b}
      /\ pc \in {"idle", "abc", "inv"}
  BY Zenon DEF PreciousBlock, UserCall, CsMainFree, index
<1>2. scenario' = scenario
  BY Zenon, Frame
<1>3. tip \in cands /\ tip \in Blocks /\ linked \subseteq Blocks /\ cands \subseteq linked
  BY Zenon, <1>1, TipListed DEF StoreInv, IndexInv
<1>4. s \in [Blocks -> Int] /\ seqId \in [Blocks -> Int] /\ \A a \in Blocks : a # b => s[a] = seqId[a]
  BY Zenon, <1>1 DEF IndexInv
<1>5. tip \in linked \ failed
  BY Zenon, <1>3 DEF IndexInv, TargetInv, TreeFacts, PathFacts
<1>6. b = tip => s[tip] <= seqId[tip]
  BY Zenon, <1>1 DEF Preferred
<1> HIDE DEF s
<1>7. \A a, d : Worse(a, d)' <=> WorseBy(s, a, d)
  BY Zenon, <1>1, <1>2, OrderKept
<1>8. s[tip] <= seqId[tip] /\ (b # tip => seqId[tip] <= s[tip])
  <2>1. \A n \in Int : n <= n
    OBVIOUS
  <2> QED BY Zenon, <1>3, <1>4, <1>6, <2>1
<1>9. \A d \in Blocks : d # b /\ Worse(d, tip) => WorseBy(s, d, tip)
  BY Zenon, <1>3, <1>4, <1>8, Reassigned DEF Worse
<1>10. b # tip => \A d \in Blocks : d # b /\ WorseBy(s, d, tip) => Worse(d, tip)
  BY Zenon, <1>3, <1>4, <1>8, Reassigned DEF Worse
<1>11. ~WorseBy(s, tip, tip)
  BY Zenon, <1>3, <1>4, Comparator
<1>12. tip \in cands' /\ \A d \in cands' : ~WorseBy(s, d, tip)
  <2>1. CASE Eligible(b, failed)
    BY Zenon, <1>1, <1>3, <1>11, <2>1
  <2>2. CASE ~Eligible(b, failed)
    <3>1. b # tip
      BY Zenon, <1>5, <2>2 DEF Eligible
    <3> QED BY Zenon, <1>1, <1>3, <1>10, <2>2, <3>1 DEF SelectionInv
  <2> QED BY Zenon, <2>1, <2>2
<1>13. ASSUME pc \in {"idle", "abc", "find", "conn"}, NEW d \in linked \ failed
       PROVE  WorseBy(s, d, tip) \/ d \in cands' \/ Held(d)'
  <2>1. Held(d) => Held(d)'
    BY Zenon, <1>1 DEF Held, WaitsFor, Placed, Unlinked
  <2>2. CASE d = b
    BY Zenon, <1>1, <2>2 DEF Eligible
  <2>3. CASE d # b
    <3>1. Worse(d, tip) \/ d \in cands \/ Held(d)
      BY Zenon, <1>1, <1>13 DEF SelectionInv
    <3> QED BY Zenon, <1>1, <1>3, <1>9, <2>1, <2>3, <3>1
  <2> QED BY Zenon, <2>2, <2>3
<1>14. SelectionInv'
  BY Zenon, <1>1, <1>7, <1>12, <1>13 DEF SelectionInv
<1>15. pc' \notin {"find", "conn"}
  BY Zenon, <1>1
<1> QED BY Zenon, <1>1, <1>14, <1>15, BestOpen

\* The other calls: ReconsiderBlock and InvalidateBlock add every block that has become
\* a candidate.
LEMMA SelectionCalls ==
    ASSUME TreeFacts, StoreInv, IndexInv, TargetInv, InvalidateInv, FailureInv, Orderly, ~stop,
           UnlinkedInv, SelectionInv, BestInv, [Next]_vars,
           \/ \E b \in Blocks : InvalidateBlock(b) \/ ReconsiderBlock(b)
           \/ ActivateBestChain \/ Invalidate
    PROVE  SelectionInv' /\ BestInv'
<1>1. scenario' = scenario
  BY Zenon, Frame
<1>2. seqId' = seqId => \A a, b : Worse(a, b)' <=> Worse(a, b)
  BY Zenon, <1>1, OrderKept
<1>3. /\ tip \in Blocks /\ linked \subseteq Blocks /\ cands \subseteq Blocks /\ NoBlock \notin Blocks
      /\ linked \subseteq known
  BY Zenon, Genealogy DEF StoreInv, IndexInv
<1>4. CASE ActivateBestChain
  <2>1. /\ UNCHANGED <<have, linked, failed, seqId, cands, unlinked, missed, tip, rq, mostWork>>
        /\ startTip' = tip /\ pc' = "find" /\ pc \in {"idle", "abc"} /\ rq = <<>>
        /\ pc # "idle" => pending' = pending
    BY Zenon, <1>4 DEF ActivateBestChain, index, order, sets
  <2>2. \A b : Held(b) => Held(b)'
    BY Zenon, <2>1 DEF Held, WaitsFor, Placed, Unlinked
  <2>3. SelectionInv'
    BY Zenon, <1>2, <2>1, <2>2 DEF SelectionInv
  <2>4. pc = "idle" => mostWork = NoBlock
    BY Zenon DEF TargetInv
  <2>5. mostWork # NoBlock => ~Worse(mostWork, tip)
    <3>1. mostWork # NoBlock => mostWork \in Blocks /\ tip \in ChainOf[mostWork]
      BY Zenon, <1>3, <2>1, <2>4 DEF TargetInv
    <3> QED BY Zenon, <1>3, <3>1, InOrder, LowerIsWorse
  <2>6. ~pending' /\ mostWork # NoBlock => \A b \in cands : ~Worse(mostWork, b)
    <3>1. mostWork # NoBlock => pending' = pending
      BY Zenon, <2>1, <2>4
    <3>2. mostWork # NoBlock /\ ~pending' => ~pending
      BY <3>1
    <3> QED BY Zenon, <2>1, <3>2 DEF BestInv
  <2>7. BestInv'
    BY Zenon, <1>2, <2>1, <2>5, <2>6 DEF BestInv
  <2> QED BY Zenon, <2>3, <2>7
<1>5. ASSUME NEW b \in Blocks, InvalidateBlock(b)
      PROVE  SelectionInv' /\ BestInv'
  <2>1. UNCHANGED <<seqId, cands, tip, rq, mostWork>> /\ pc = "idle" /\ pc' = "inv"
    BY Zenon, <1>5 DEF InvalidateBlock, order, sets, abc
  <2>2. tip \in cands /\ mostWork = NoBlock
    BY Zenon, <2>1, TipListed DEF TargetInv
  <2>3. SelectionInv'
    BY Zenon, <1>2, <2>1, <2>2 DEF SelectionInv
  <2> QED BY Zenon, <2>1, <2>2, <2>3 DEF BestInv
<1>6. ASSUME NEW b \in Blocks, ReconsiderBlock(b)
      PROVE  SelectionInv' /\ BestInv'
  <2>1. /\ UNCHANGED <<have, linked, seqId, unlinked, missed, tip, rq, pc>> /\ pc \in {"idle", "abc", "inv"}
        /\ failed' = failed \ Cleared(b) /\ pending' = TRUE
        /\ cands' = cands \cup {d \in Cleared(b) : Eligible(d, failed') /\ Worse(tip, d)}
    BY Zenon, <1>6 DEF ReconsiderBlock, UserCall, CsMainFree, order
  <2>2. Cleared(b) \subseteq failed
    BY Zenon DEF Cleared
  <2>3. \A d : Held(d) => Held(d)'
    BY Zenon, <2>1 DEF Held, WaitsFor, Placed, Unlinked
  <2>4. \A d \in cands' : ~Worse(d, tip)
    <3>1. \A d \in cands' : d \in cands \/ (d \in linked /\ Worse(tip, d))
      BY Zenon, <2>1 DEF Eligible
    <3>2. pc # "undefined"
      BY Zenon, <2>1
    <3> QED BY Zenon, <1>3, <3>1, <3>2, InOrder DEF SelectionInv
  <2>5. ASSUME pc \in {"idle", "abc"}, NEW d \in linked \ failed'
        PROVE  Worse(d, tip) \/ d \in cands' \/ Held(d)'
    <3>1. CASE d \notin failed
      BY Zenon, <2>1, <2>3, <2>5, <3>1 DEF SelectionInv
    <3>2. CASE d \in failed
      <4>1. d \in Cleared(b) /\ Eligible(d, failed') /\ d # tip
        <5>1. tip \notin failed
          BY Zenon, <1>3 DEF TargetInv, TreeFacts, PathFacts
        <5> QED BY Zenon, <2>1, <3>2, <5>1 DEF Eligible
      <4>2. Worse(d, tip) \/ Worse(tip, d)
        BY Zenon, <1>3, <4>1, InOrder
      <4> QED BY Zenon, <2>1, <4>1, <4>2
    <3> QED BY Zenon, <3>1, <3>2
  <2>6. SelectionInv'
    BY Zenon, <1>2, <2>1, <2>4, <2>5 DEF SelectionInv
  <2>7. pc' \notin {"find", "conn"}
    BY Zenon, <2>1
  <2> QED BY Zenon, <2>1, <2>6, <2>7, BestOpen
<1>7. CASE InvalidateDisconnect
  <2> DEFINE rest == {c \in inv.highpow : Work[c] >= Work[Parent[tip]]}
                       \ {c \in {c \in inv.highpow : Work[c] >= Work[Parent[tip]]} : Descends(c, tip)}
  <2>1. /\ UNCHANGED <<seqId, rq, pc, mostWork>> /\ pc = "inv" /\ tip' = Parent[tip]
        /\ cands' = (cands \ {tip}) \cup {Parent[tip]}
                    \cup {c \in rest : ~Worse(c, Parent[tip]) /\ Eligible(c, failed)}
    BY Zenon, <1>7 DEF InvalidateDisconnect, order, abc
  <2>2. tip' \in ChainOf[tip] /\ tip' \in linked /\ tip' \in Blocks /\ tip' # tip
    BY Zenon, <1>3, <1>7, InvalidateFacts, Genealogy
  <2>3. ~Worse(tip, tip') /\ ~Worse(tip', tip')
    BY Zenon, <1>3, <2>2, InOrder, LowerIsWorse
  <2>4. \A d \in cands : ~Worse(d, tip')
    BY Zenon, <1>3, <2>1, <2>2, <2>3, InOrder DEF SelectionInv
  <2>5. tip' \in cands' /\ \A d \in cands' : ~Worse(d, tip')
    BY Zenon, <2>1, <2>3, <2>4
  <2>6. SelectionInv'
    BY Zenon, <1>2, <2>1, <2>5 DEF SelectionInv
  <2>7. mostWork = NoBlock
    BY Zenon, <2>1 DEF TargetInv
  <2> QED BY Zenon, <2>1, <2>6, <2>7 DEF BestInv
<1>8. CASE InvalidateFails
  <2>1. pc = "inv" /\ tip \notin have
    BY Zenon, <1>8 DEF InvalidateFails
  <2>2. calls > 0
    BY Zenon, <2>1 DEF InvalidateInv
  <2>3. NeverPruned
    BY Zenon, <2>2, PositiveCalls DEF Orderly
  <2> QED BY Zenon, <2>1, <2>3 DEF FailureInv, IndexInv, StoreInv
<1>9. CASE InvalidateFinish
  <2> DEFINE mark == IF inv.wasInChain THEN {} ELSE {inv.block} \ failed
  <2>1. /\ UNCHANGED <<have, linked, seqId, unlinked, missed, tip>> /\ pc' = "idle" /\ pending' = TRUE /\ pc = "inv"
        /\ failed' = failed \cup mark \cup DescendantsOf(inv.toMark)
        /\ cands' = (cands \ mark) \cup MissedCandidates(failed \cup mark)
    BY Zenon, <1>9 DEF InvalidateFinish, InvalidateReturns, order
  <2> HIDE DEF mark
  <2>2. \A d \in cands' : ~Worse(d, tip)
    BY Zenon, <2>1 DEF SelectionInv, MissedCandidates
  <2>3. \A d \in linked \ failed' : Worse(d, tip) \/ d \in cands'
    BY Zenon, <1>3, <2>1 DEF MissedCandidates, Eligible
  <2>4. SelectionInv'
    BY Zenon, <1>2, <2>1, <2>2, <2>3 DEF SelectionInv
  <2>5. pc' \notin {"find", "conn"}
    BY Zenon, <2>1
  <2> QED BY Zenon, <2>1, <2>4, <2>5, BestOpen
<1> QED BY Zenon, <1>4, <1>5, <1>6, <1>7, <1>8, <1>9 DEF Invalidate

\* The candidates a restart begins with.
LEMMA SelectionRestart ==
    ASSUME [Next]_vars, Restart
    PROVE  SelectionInv' /\ BestInv'
<1>1. scenario' = scenario
  BY Zenon, Frame
<1>2. \A a, b : Worse(a, b)' <=> WorseBy(seqId', a, b)
  BY Zenon, <1>1, OrderKept
<1>3. /\ pc' = "idle" /\ tip' = tip /\ pending' = TRUE
      /\ cands' = {b \in linked' \ failed' : ~WorseBy(seqId', b, tip)}
  BY Zenon DEF Restart
<1>4. SelectionInv'
  BY Zenon, <1>2, <1>3 DEF SelectionInv
<1>5. pc' \notin {"find", "conn"}
  BY Zenon, <1>3
<1> QED BY Zenon, <1>3, <1>4, <1>5, BestOpen

\* Who changes what: a step that is none of the others leaves all of it alone.
LEMMA SelectionSteps ==
    ASSUME [Next]_vars, pc \notin {"find", "conn"}
    PROVE  \/ UNCHANGED <<have, linked, failed, seqId, cands, unlinked, missed, tip, rq, pending, pc, mostWork, startTip>>
           \/ \E b \in Blocks \ {Genesis} : AcceptBlockHeader(b) \/ RejectBlock(b) \/ ProcessNewBlock(b)
           \/ \E b \in Blocks \ {Genesis} : PruneBlock(b)
           \/ \E b \in Blocks : PreciousBlock(b)
           \/ \E b \in Blocks : InvalidateBlock(b) \/ ReconsiderBlock(b)
           \/ ActivateBestChain \/ Invalidate \/ LinkBlock \/ Restart
<1>1. CASE UNCHANGED vars
  BY Zenon, <1>1 DEF vars, index, order, sets, abc
<1>2. CASE Interrupt
  BY Zenon, <1>2 DEF Interrupt, index, order, sets, abc
<1>3. Activate => ActivateBestChain
  BY Zenon DEF Activate, FindMostWorkChain, NothingToDo, DisconnectToFork, DisconnectFails, ConnectTip,
               ConnectTipInvalid
<1> QED BY Zenon, <1>1, <1>2, <1>3 DEF Next

\* A call count that is too high stays so, and only a restart ends a shutdown.
LEMMA StopKept ==
    ASSUME IndexInv, [Next]_vars
    PROVE  /\ Orderly' => Orderly
           /\ ~stop' => ~stop \/ Restart
<1>1. scenario' = scenario /\ (calls' = calls \/ calls' = calls + 1) /\ calls \in Nat
  BY Zenon, Frame DEF IndexInv
<1>2. calls' = 0 => calls = 0
  BY <1>1
<1>3. NeverPruned' => NeverPruned
  BY Zenon, <1>1 DEF NeverPruned
<1>4. Orderly' => Orderly
  BY Zenon, <1>2, <1>3 DEF Orderly
<1>5. UNCHANGED vars => (stop => stop')
  BY Zenon DEF vars, env
<1>6. ASSUME NEW b \in Blocks, AcceptBlockHeader(b) \/ RejectBlock(b) \/ ProcessNewBlock(b) \/ PruneBlock(b)
      PROVE  stop => stop'
  BY Zenon, <1>6 DEF AcceptBlockHeader, RejectBlock, ProcessNewBlock, PruneBlock, env
<1>7. ASSUME NEW b \in Blocks, InvalidateBlock(b) \/ ReconsiderBlock(b) \/ PreciousBlock(b)
      PROVE  stop => stop'
  BY Zenon, <1>7 DEF InvalidateBlock, ReconsiderBlock, PreciousBlock
<1>8. LinkBlock \/ Invalidate => (stop => stop')
  BY Zenon DEF LinkBlock, Invalidate, InvalidateDisconnect, InvalidateFails, InvalidateFinish, env
<1>9. Activate \/ Interrupt => (stop => stop')
  BY Zenon DEF Activate, ActivateBestChain, FindMostWorkChain, NothingToDo, DisconnectToFork,
               DisconnectFails, ConnectTip, ConnectTipInvalid, Interrupt, env
<1> QED BY Zenon, <1>4, <1>5, <1>6, <1>7, <1>8, <1>9 DEF Next

\* Every step keeps the candidates complete and the choice right.
LEMMA ChoiceKept ==
    ASSUME TreeFacts, ChainInv, UnlinkedInv, StartInv, ChoiceInv, ChainInv', [Next]_vars, Preferred
    PROVE  /\ ChoiceInv'
           /\ Orderly' /\ ~stop' /\ pc \in {"find", "conn"} /\ pc' \in {"idle", "abc"} => ~Worse(tip', startTip)
<1> USE DEF ChainInv
<1>1. SUFFICES ASSUME Orderly', ~stop'
               PROVE  /\ SelectionInv' /\ BestInv'
                      /\ pc \in {"find", "conn"} /\ pc' \in {"idle", "abc"} => ~Worse(tip', startTip)
  BY Zenon DEF ChoiceInv
<1>2. CASE Restart
  <2>1. pc \notin {"find", "conn"}
    BY Zenon, <1>2 DEF Restart
  <2> QED BY Zenon, <1>2, <2>1, SelectionRestart
<1>3. CASE ~Restart
  <2>1. Orderly /\ ~stop
    BY Zenon, <1>1, <1>3, StopKept
  <2>2. SelectionInv /\ BestInv
    BY Zenon, <2>1 DEF ChoiceInv
  <2>3. CASE pc \in {"find", "conn"}
    BY Zenon, <1>1, <2>2, <2>3, SelectionBusy
  <2>4. CASE pc \notin {"find", "conn"}
    <3>1. CASE UNCHANGED <<have, linked, failed, seqId, cands, unlinked, missed, tip, rq, pending, pc, mostWork, startTip>>
      <4>1. scenario' = scenario
        BY Zenon, Frame
      <4>2. \A b : Held(b) => Held(b)'
        BY Zenon, <3>1 DEF Held, WaitsFor, Placed, Unlinked
      <4>3. tip \notin failed'
        BY Zenon, <3>1 DEF TargetInv, StoreInv, IndexInv, TreeFacts, PathFacts
      <4> QED BY Zenon, <2>2, <2>4, <3>1, <4>1, <4>2, <4>3, SelectionSame, BestSame
    <3>2. ASSUME NEW b \in Blocks \ {Genesis}, AcceptBlockHeader(b) \/ RejectBlock(b) \/ ProcessNewBlock(b)
          PROVE  SelectionInv' /\ BestInv'
      BY Zenon, <2>2, <3>2, SelectionArrival
    <3>3. ASSUME NEW b \in Blocks \ {Genesis}, PruneBlock(b)
          PROVE  SelectionInv' /\ BestInv'
      BY Zenon, <2>2, <3>3, SelectionPrune
    <3>4. ASSUME NEW b \in Blocks, PreciousBlock(b)
          PROVE  SelectionInv' /\ BestInv'
      BY Zenon, <2>2, <3>4, SelectionPrecious
    <3>5. CASE (\E b \in Blocks : InvalidateBlock(b) \/ ReconsiderBlock(b)) \/ ActivateBestChain \/ Invalidate
      BY Zenon, <2>1, <2>2, <2>4, <3>5, SelectionCalls
    <3>6. CASE LinkBlock
      BY Zenon, <2>2, <2>4, <3>6, SelectionLink
    <3> QED BY Zenon, <1>3, <2>4, <3>1, <3>2, <3>3, <3>4, <3>5, <3>6, SelectionSteps
  <2> QED BY Zenon, <2>3, <2>4
<1> QED BY Zenon, <1>2, <1>3

\* A node that starts has one candidate.
LEMMA ChoiceInit ==
    ASSUME TreeFacts, Init
    PROVE  UnlinkedInv /\ StartInv /\ ChoiceInv
<1>1. /\ have = {Genesis} /\ linked = {Genesis} /\ failed = {} /\ cands = {Genesis} /\ tip = Genesis
      /\ rq = <<>> /\ pc = "idle" /\ mostWork = NoBlock /\ unlinked = [b \in Blocks |-> 0] /\ missed = {}
  BY Zenon DEF Init
<1>2. unlinked \in [Blocks -> 0..MaxUnlinked] /\ Unlinked = {}
  BY <1>1, BoundAssumption DEF Unlinked
<1>3. UnlinkedInv
  <2>1. restarts \in Nat
    BY DEF Init
  <2> QED BY Zenon, <1>1, <1>2, <2>1 DEF UnlinkedInv, MissedInv, Placed
<1>4. ~Worse(Genesis, Genesis)
  BY Zenon, ChainInit, InOrder DEF ChainInv, StoreInv
<1>5. ChoiceInv
  BY Zenon, <1>1, <1>4 DEF ChoiceInv, SelectionInv, BestInv
<1> QED BY Zenon, <1>1, <1>3, <1>5 DEF StartInv

-----------------------------------------------------------------------------
(* The sequence ids PreciousBlock assigns.                                 *)

\* PreciousBlock assigns negative ids, and -1 when it is called first.
RankInv ==
    /\ nSeq \in Nat /\ revSeq \in Int /\ revSeq <= -1 /\ (calls = 0 => revSeq = -1)
    /\ calls \in Nat /\ seqId \in [Blocks -> Int] /\ (calls <= 1 => \A b \in Blocks : seqId[b] >= -1)

\* Few steps assign sequence ids.
LEMMA RankQuiet ==
    ASSUME [Next]_vars
    PROVE  \/ UNCHANGED <<seqId, nSeq, revSeq>>
           \/ \E b \in Blocks : PreciousBlock(b)
           \/ LinkBlock \/ Restart
<1>1. CASE UNCHANGED vars
  BY Zenon, <1>1 DEF vars, order
<1>2. ASSUME NEW b \in Blocks, AcceptBlockHeader(b) \/ RejectBlock(b) \/ ProcessNewBlock(b) \/ PruneBlock(b)
      PROVE  UNCHANGED <<seqId, nSeq, revSeq>>
  BY Zenon, <1>2 DEF AcceptBlockHeader, RejectBlock, ProcessNewBlock, PruneBlock, order
<1>3. ASSUME NEW b \in Blocks, InvalidateBlock(b) \/ ReconsiderBlock(b)
      PROVE  UNCHANGED <<seqId, nSeq, revSeq>>
  BY Zenon, <1>3 DEF InvalidateBlock, ReconsiderBlock, order
<1>4. CASE Activate
  BY Zenon, <1>4 DEF Activate, ActivateBestChain, FindMostWorkChain, NothingToDo, DisconnectToFork,
                     DisconnectFails, ConnectTip, ConnectTipInvalid, order
<1>5. CASE Invalidate \/ Interrupt
  BY Zenon, <1>5 DEF Invalidate, InvalidateDisconnect, InvalidateFails, InvalidateFinish, Interrupt, order
<1> QED BY Zenon, <1>1, <1>2, <1>3, <1>4, <1>5 DEF Next

\* What PreciousBlock assigns.
LEMMA PreciousRank ==
    ASSUME RankInv, NEW b \in Blocks, PreciousBlock(b)
    PROVE  /\ \E rev \in Int : /\ rev <= -1 /\ seqId' = [seqId EXCEPT ![b] = rev] /\ revSeq' = rev - 1
                               /\ calls = 0 => rev = -1
           /\ nSeq' = nSeq /\ calls' = calls + 1
<1> DEFINE rev == IF Work[tip] > lastPrecious THEN -1 ELSE revSeq
<1>1. seqId' = [seqId EXCEPT ![b] = rev] /\ revSeq' = rev - 1 /\ nSeq' = nSeq /\ calls' = calls + 1
  BY Zenon DEF PreciousBlock, UserCall
<1>2. rev \in Int /\ rev <= -1 /\ (calls = 0 => rev = -1)
  BY DEF RankInv
<1> QED BY Zenon, <1>1, <1>2

\* What the assignment of a sequence id does to the ids.
LEMMA Ranked ==
    ASSUME NEW s \in [Blocks -> Int], NEW b, NEW n \in Int, NEW t, t = [s EXCEPT ![b] = n]
    PROVE  t \in [Blocks -> Int] /\ \A d \in Blocks : t[d] \in {n, s[d]}
<1>1. DOMAIN s = Blocks /\ \A d \in Blocks : s[d] \in Int
  OBVIOUS
<1>2. t = [d \in Blocks |-> IF d = b THEN n ELSE s[d]]
  BY Zenon, <1>1
<1>3. \A d \in Blocks : t[d] = (IF d = b THEN n ELSE s[d])
  BY Zenon, <1>2
<1>4. \A d \in Blocks : t[d] \in {n, s[d]} /\ t[d] \in Int
  BY Zenon, <1>1, <1>3
<1> QED BY Zenon, <1>2, <1>4

\* Every step keeps this.
LEMMA RankKept ==
    ASSUME RankInv, [Next]_vars
    PROVE  RankInv'
<1>1. calls \in Nat /\ (calls' = calls \/ calls' = calls + 1)
  BY Zenon, Frame DEF RankInv
<1>2. CASE UNCHANGED <<seqId, nSeq, revSeq>>
  BY <1>1, <1>2 DEF RankInv
<1>3. ASSUME NEW b \in Blocks, PreciousBlock(b) PROVE RankInv'
  <2>1. PICK rev \in Int : /\ rev <= -1 /\ seqId' = [seqId EXCEPT ![b] = rev] /\ revSeq' = rev - 1
                           /\ calls = 0 => rev = -1
    BY Zenon, <1>3, PreciousRank
  <2>2. nSeq' = nSeq /\ calls' = calls + 1
    BY Zenon, <1>3, PreciousRank
  <2>3. seqId' \in [Blocks -> Int] /\ \A d \in Blocks : seqId'[d] = (IF d = b THEN rev ELSE seqId[d])
    BY <2>1 DEF RankInv
  <2> QED BY <2>1, <2>2, <2>3 DEF RankInv
<1>4. CASE LinkBlock
  <2>1. /\ seqId' = [seqId EXCEPT ![Head(rq)] = nSeq] /\ nSeq' = nSeq + 1 /\ revSeq' = revSeq
        /\ calls' = calls
    BY Zenon, <1>4 DEF LinkBlock, env
  <2> DEFINE first == Head(rq)
  <2>2. seqId' = [seqId EXCEPT ![first] = nSeq]
    BY Zenon, <2>1
  <2> HIDE DEF first
  <2>3. seqId \in [Blocks -> Int] /\ nSeq \in Int /\ nSeq >= 0
    BY DEF RankInv
  <2>4. seqId' \in [Blocks -> Int] /\ \A d \in Blocks : seqId'[d] \in {nSeq, seqId[d]}
    BY Zenon, <2>2, <2>3, Ranked
  <2> QED BY <2>1, <2>3, <2>4 DEF RankInv
<1>5. CASE Restart
  <2>1. /\ seqId' = [b \in Blocks |-> IF InChain(b) THEN 0 ELSE 1]
        /\ nSeq' = 2 /\ revSeq' = -1 /\ calls' = calls
    BY Zenon, <1>5 DEF Restart
  <2> QED BY <2>1 DEF RankInv
<1> QED BY Zenon, <1>2, <1>3, <1>4, <1>5, RankQuiet
-----------------------------------------------------------------------------
(* The facts about the tree.                                               *)

INSTANCE FiniteSetTheorems
INSTANCE WellFoundedInduction

\* Of some blocks one has the least number.
LEMMA Least ==
    ASSUME NEW S \in SUBSET Blocks, S # {}, NEW f \in [Blocks -> Nat]
    PROVE  \E b \in S : \A d \in S : f[b] <= f[d]
<1> DEFINE T == {f[b] : b \in S}
<1>1. T \subseteq Nat /\ T # {}
  BY Zenon
<1> HIDE DEF T
<1>2. PICK m \in T : \A n \in T : ~(<<n, m>> \in OpToRel(<, Nat))
  BY Zenon, <1>1, NatLessThanWellFounded, WFMin
<1>3. ASSUME NEW n \in T PROVE m <= n
  <2>1. ~(<<n, m>> \in {x \in Nat \X Nat : x[1] < x[2]})
    BY Zenon, <1>2 DEF OpToRel
  <2> QED BY <1>1, <2>1
<1> QED BY Zenon, <1>3 DEF T

\* The number of blocks in a set, and of fewer blocks.
LEMMA Count ==
    ASSUME NEW S \in SUBSET Blocks
    PROVE  /\ IsFiniteSet(S) /\ Cardinality(S) \in Nat
           /\ \A T \in SUBSET S : T # S => Cardinality(T) < Cardinality(S)
<1>1. IsFiniteSet(S)
  BY Zenon, TreeAssumption, FS_Subset
<1>2. \A T \in SUBSET S : IsFiniteSet(T) /\ Cardinality(T) <= Cardinality(S)
                          /\ (Cardinality(S) = Cardinality(T) => S = T)
  BY Zenon, <1>1, FS_Subset
<1>3. \A T : IsFiniteSet(T) => Cardinality(T) \in Nat
  BY Zenon, FS_CardinalityType
<1> QED BY <1>1, <1>2, <1>3

\* The chain of a block is longer than that of its parent.
LEMMA Length ==
    /\ \A b \in Blocks : ChainOf[b] \in SUBSET Blocks /\ b \in ChainOf[b] /\ Cardinality(ChainOf[b]) \in Nat
    /\ \A b \in Blocks : Cardinality(ChainOf[b]) > 0 /\ Cardinality(ChainOf[b]) <= Cardinality(Blocks)
    /\ \A b \in Blocks \ {Genesis} :
         Parent[b] \in Blocks /\ Cardinality(ChainOf[Parent[b]]) < Cardinality(ChainOf[b])
<1>1. \A b \in Blocks : ChainOf[b] \in SUBSET Blocks /\ b \in ChainOf[b]
  BY Zenon, Genealogy
<1>2. \A b \in Blocks : Cardinality(ChainOf[b]) \in Nat
  BY Zenon, <1>1, Count
<1>3. \A b \in Blocks \ {Genesis} :
         Parent[b] \in Blocks /\ Cardinality(ChainOf[Parent[b]]) < Cardinality(ChainOf[b])
  <2> TAKE b \in Blocks \ {Genesis}
  <2>1. /\ Parent[b] \in Blocks /\ ChainOf[Parent[b]] \in SUBSET ChainOf[b]
        /\ ChainOf[Parent[b]] # ChainOf[b] /\ ChainOf[b] \in SUBSET Blocks
    BY Zenon, <1>1, Genealogy
  <2> QED BY Zenon, <2>1, Count
<1>4. \A b \in Blocks : Cardinality(ChainOf[b]) > 0 /\ Cardinality(ChainOf[b]) <= Cardinality(Blocks)
  <2> TAKE b \in Blocks
  <2>1. IsFiniteSet(Blocks) /\ ChainOf[b] \in SUBSET Blocks /\ ChainOf[b] # {} /\ IsFiniteSet(ChainOf[b])
    BY Zenon, <1>1, Count, TreeAssumption
  <2>2. Cardinality(ChainOf[b]) <= Cardinality(Blocks) /\ Cardinality(ChainOf[b]) # 0
    BY Zenon, <2>1, FS_Subset, FS_EmptySet
  <2> QED BY <1>2, <2>2
<1> QED BY Zenon, <1>1, <1>2, <1>3, <1>4

\* What holds of Genesis and passes from a block to its children holds of all blocks.
LEMMA Upwards ==
    ASSUME NEW G \in SUBSET Blocks, Genesis \in G,
           \A b \in Blocks \ {Genesis} : Parent[b] \in G => b \in G
    PROVE  \A b \in Blocks : b \in G
<1> DEFINE f == [b \in Blocks |-> Cardinality(ChainOf[b])]
<1>1. f \in [Blocks -> Nat] /\ \A b \in Blocks : f[b] = Cardinality(ChainOf[b])
  BY Zenon, Length
<1> HIDE DEF f
<1>2. SUFFICES ASSUME Blocks \ G # {} PROVE FALSE
  BY Zenon
<1>3. PICK b \in Blocks \ G : \A d \in Blocks \ G : f[b] <= f[d]
  BY Zenon, <1>1, <1>2, Least
<1>4. b \in Blocks \ {Genesis} /\ Parent[b] \in Blocks \ G
  BY Zenon, Length
<1>5. f[Parent[b]] < f[b] /\ f[Parent[b]] \in Nat /\ f[b] \in Nat
  <2>1. f[b] = Cardinality(ChainOf[b]) /\ f[Parent[b]] = Cardinality(ChainOf[Parent[b]])
    BY Zenon, <1>1, <1>4
  <2>2. Cardinality(ChainOf[Parent[b]]) < Cardinality(ChainOf[b])
    BY Zenon, <1>4, Length
  <2>3. f[Parent[b]] \in Nat /\ f[b] \in Nat
    BY Zenon, <1>1, <1>4
  <2> QED BY <2>1, <2>2, <2>3
<1>6. f[b] <= f[Parent[b]]
  BY Zenon, <1>3, <1>4
<1> QED BY <1>5, <1>6

\* The chain of a block on a path is a part of the path.
LEMMA Transitive == \A b \in Blocks : \A a \in ChainOf[b] : ChainOf[a] \subseteq ChainOf[b]
<1> DEFINE G == {b \in Blocks : \A a \in ChainOf[b] : ChainOf[a] \subseteq ChainOf[b]}
<1>1. Genesis \in G
  BY Zenon, Genealogy
<1>2. ASSUME NEW b \in Blocks \ {Genesis}, Parent[b] \in G PROVE b \in G
  BY Zenon, <1>2, Genealogy
<1> HIDE DEF G
<1>3. G \in SUBSET Blocks
  BY Zenon DEF G
<1>4. \A b \in Blocks : b \in G
  BY Zenon, <1>1, <1>2, <1>3, Upwards
<1> QED BY Zenon, <1>4 DEF G

\* The first part of PathFacts.
LEMMA Rooted == \A b \in Blocks : b \in ChainOf[b] /\ Genesis \in ChainOf[b] /\ ChainOf[b] \subseteq Blocks
<1> DEFINE G == {b \in Blocks : Genesis \in ChainOf[b]}
<1>1. Genesis \in G
  BY Zenon, Genealogy
<1>2. ASSUME NEW b \in Blocks \ {Genesis}, Parent[b] \in G PROVE b \in G
  BY Zenon, <1>2, Genealogy
<1> HIDE DEF G
<1>3. G \in SUBSET Blocks
  BY Zenon DEF G
<1>4. \A b \in Blocks : b \in G
  BY Zenon, <1>1, <1>2, <1>3, Upwards
<1> QED BY Zenon, <1>4, Length DEF G

\* Two blocks on a path are in line.
LEMMA InLine == \A b \in Blocks : \A a, c \in ChainOf[b] : a \in ChainOf[c] \/ c \in ChainOf[a]
<1> DEFINE G == {b \in Blocks : \A a, c \in ChainOf[b] : a \in ChainOf[c] \/ c \in ChainOf[a]}
<1>1. Genesis \in G
  BY Zenon, Genealogy
<1>2. ASSUME NEW b \in Blocks \ {Genesis}, Parent[b] \in G PROVE b \in G
  BY Zenon, <1>2, Genealogy
<1> HIDE DEF G
<1>3. G \in SUBSET Blocks
  BY Zenon DEF G
<1>4. \A b \in Blocks : b \in G
  BY Zenon, <1>1, <1>2, <1>3, Upwards
<1> QED BY Zenon, <1>4 DEF G

\* A block is not below one that is below it.
LEMMA Acyclic == \A b \in Blocks : \A a \in ChainOf[b] \ {b} : a \in Blocks /\ b \notin ChainOf[a]
<1> SUFFICES ASSUME NEW b \in Blocks, NEW a \in ChainOf[b] \ {b} PROVE a \in Blocks /\ b \notin ChainOf[a]
  BY Zenon
<1>1. b # Genesis
  BY Zenon, Genealogy
<1>2. a \in ChainOf[Parent[b]] /\ b \notin ChainOf[Parent[b]] /\ Parent[b] \in Blocks
  BY Zenon, <1>1, Genealogy
<1> QED BY Zenon, <1>2, Transitive, Rooted

\* From a block on a path one step leads towards the end of the path.
LEMMA Child ==
    \A b \in Blocks : \A a \in ChainOf[b] \ {b} :
        \E c \in ChainOf[b] \ ChainOf[a] : c # Genesis /\ Parent[c] = a
<1> DEFINE G == {b \in Blocks : \A a \in ChainOf[b] \ {b} :
                                  \E c \in ChainOf[b] \ ChainOf[a] : c # Genesis /\ Parent[c] = a}
<1>1. Genesis \in G
  BY Zenon, Genealogy
<1>2. ASSUME NEW b \in Blocks \ {Genesis}, Parent[b] \in G PROVE b \in G
  <2>1. ASSUME NEW a \in ChainOf[b] \ {b}
        PROVE  \E c \in ChainOf[b] \ ChainOf[a] : c # Genesis /\ Parent[c] = a
    <3>1. CASE a = Parent[b]
      BY Zenon, <3>1, Genealogy
    <3>2. CASE a # Parent[b]
      BY Zenon, <1>2, <3>2, Genealogy
    <3> QED BY Zenon, <3>1, <3>2
  <2> QED BY Zenon, <2>1
<1> HIDE DEF G
<1>3. G \in SUBSET Blocks
  BY Zenon DEF G
<1>4. \A b \in Blocks : b \in G
  BY Zenon, <1>1, <1>2, <1>3, Upwards
<1> QED BY Zenon, <1>4 DEF G

\* nChainWork grows along a path.
LEMMA WorkGrows ==
    ASSUME NEW s \in Scenarios
    PROVE  \A b \in Blocks : \A a \in ChainOf[b] \ {b} : s.work[a] < s.work[b]
<1> DEFINE G == {b \in Blocks : \A a \in ChainOf[b] \ {b} : s.work[a] < s.work[b]}
<1>0. s.work \in [Blocks -> Nat] /\ \A b \in Blocks \ {Genesis} : s.work[b] > s.work[Parent[b]]
  BY Zenon, ScenarioAssumption
<1>1. Genesis \in G
  BY Zenon, Genealogy
<1>2. ASSUME NEW b \in Blocks \ {Genesis}, Parent[b] \in G PROVE b \in G
  <2>1. ASSUME NEW a \in ChainOf[b] \ {b} PROVE s.work[a] < s.work[b]
    <3>1. a = Parent[b] \/ s.work[a] < s.work[Parent[b]]
      BY Zenon, <1>2, Genealogy
    <3>2. a \in Blocks /\ Parent[b] \in Blocks
      BY Zenon, Genealogy, Rooted
    <3> QED BY <1>0, <3>1, <3>2
  <2> QED BY Zenon, <2>1
<1> HIDE DEF G
<1>3. G \in SUBSET Blocks
  BY Zenon DEF G
<1>4. \A b \in Blocks : b \in G
  BY Zenon, <1>1, <1>2, <1>3, Upwards
<1> QED BY Zenon, <1>4 DEF G

\* Heights are numbers that grow along a path.
LEMMA Heights == HeightFacts
<1>1. \A b \in Blocks : Height(b) \in Nat
  BY Length DEF Height
<1>2. ASSUME NEW b \in Blocks, NEW a \in ChainOf[b] \ {b} PROVE Height(a) < Height(b)
  <2>1. a \in Blocks /\ ChainOf[a] \in SUBSET ChainOf[b] /\ ChainOf[a] # ChainOf[b] /\ ChainOf[b] \in SUBSET Blocks
    BY Zenon, Acyclic, Transitive, Rooted
  <2>2. Cardinality(ChainOf[a]) < Cardinality(ChainOf[b])
    BY Zenon, <2>1, Count
  <2>3. Cardinality(ChainOf[a]) \in Nat /\ Cardinality(ChainOf[b]) \in Nat
    BY Zenon, <2>1, Length
  <2> QED BY <2>2, <2>3 DEF Height
<1> QED BY Zenon, <1>1, <1>2, WorkGrows DEF HeightFacts

\* One of some blocks is the highest.
LEMMA Highest ==
    ASSUME NEW S \in SUBSET Blocks, S # {}
    PROVE  HighestOf(S) \in S /\ \A d \in S : Height(d) <= Height(HighestOf(S))
<1> DEFINE f == [b \in Blocks |-> Cardinality(Blocks) - Cardinality(ChainOf[b])]
<1>1. Cardinality(Blocks) \in Nat
  BY Zenon, Count
<1>2. f \in [Blocks -> Nat]
  BY <1>1, Length
<1>3. \A b, d \in Blocks : f[b] <= f[d] => Height(d) <= Height(b)
  BY <1>1, Length DEF Height
<1> HIDE DEF f
<1>4. \E b \in S : \A d \in S : Height(d) <= Height(b)
  BY Zenon, <1>2, <1>3, Least
<1> QED BY Zenon, <1>4 DEF HighestOf

\* The order is total.
LEMMA SortedFacts ==
    ASSUME NEW w \in [Blocks -> Nat], NEW s \in [Blocks -> Int]
    PROVE  /\ \A a \in Blocks : ~Sorted(w, s, a, a)
           /\ \A a, b, c \in Blocks : Sorted(w, s, a, b) /\ Sorted(w, s, b, c) => Sorted(w, s, a, c)
           /\ \A a, b \in Blocks : a = b \/ Sorted(w, s, a, b) \/ Sorted(w, s, b, a)
<1>1. Addr \in [Blocks -> Nat] /\ \A b, d \in Blocks : Addr[b] = Addr[d] => b = d
  BY Zenon, TreeAssumption
<1> QED BY <1>1 DEF Sorted

\* setBlockIndexCandidates has a last element when it is not empty.
LEMMA LastExists ==
    ASSUME NEW S \in SUBSET Blocks, S # {}, NEW w \in [Blocks -> Nat], NEW s \in [Blocks -> Int]
    PROVE  \E b \in S : \A d \in S \ {b} : Sorted(w, s, d, b)
<1> DEFINE Over(b) == {d \in S : Sorted(w, s, b, d)}
           f == [b \in Blocks |-> Cardinality(Over(b))]
<1>1. \A b \in Blocks : Over(b) \in SUBSET Blocks
  BY Zenon
<1>2. f \in [Blocks -> Nat] /\ \A b \in Blocks : f[b] = Cardinality(Over(b))
  BY Zenon, <1>1, Count
<1>3. ASSUME NEW b \in S, NEW d \in S, Sorted(w, s, b, d)
      PROVE  Over(d) \in SUBSET Over(b) /\ Over(d) # Over(b)
  BY Zenon, <1>3, SortedFacts
<1> HIDE DEF Over, f
<1>4. PICK b \in S : \A d \in S : f[b] <= f[d]
  BY Zenon, <1>2, Least
<1>5. ASSUME NEW d \in S, Sorted(w, s, b, d) PROVE FALSE
  <2>1. Cardinality(Over(d)) < Cardinality(Over(b))
    BY Zenon, <1>1, <1>3, <1>5, Count
  <2>2. f[d] < f[b] /\ f[d] \in Nat /\ f[b] \in Nat /\ f[b] <= f[d]
    BY Zenon, <1>2, <1>4, <2>1
  <2> QED BY <2>2
<1>6. \A d \in S \ {b} : Sorted(w, s, d, b)
  BY Zenon, <1>5, SortedFacts
<1> QED BY Zenon, <1>6

\* An order of some blocks is a sequence of them, and of all of them.
LEMMA Listed ==
    ASSUME NEW S \in SUBSET Blocks, NEW q \in Orders(S)
    PROVE  q \in Seq(S) /\ Range(q) = S
<1>1. Cardinality(S) \in Nat
  BY Zenon, Count
<1>2. q \in [1..Cardinality(S) -> S] /\ \A b \in S : \E i \in 1..Cardinality(S) : q[i] = b
  BY Zenon DEF Orders, Bijection, Injection, Surjection
<1>3. Range(q) = S
  BY <1>2 DEF Range
<1> QED BY <1>1, <1>2, <1>3

\* The facts the lemmas above assume.
LEMMA Facts == TreeFacts
<1>1. PathFacts
  BY Zenon, Rooted, Transitive, InLine, Acyclic, Child DEF PathFacts
<1>2. ChoiceFacts
  <2>1. \A S \in SUBSET Blocks :
          S # {} => HighestOf(S) \in S /\ \A d \in S : Height(d) <= Height(HighestOf(S))
    BY Zenon, Highest
  <2>2. \A S \in SUBSET Blocks : \A q \in Orders(S) : q \in Seq(S) /\ Range(q) = S
    BY Zenon, Listed
  <2>3. \A S \in SUBSET Blocks, w \in [Blocks -> Nat], s \in [Blocks -> Int] :
          S # {} => \E b \in S : \A d \in S \ {b} : Sorted(w, s, d, b)
    BY Zenon, LastExists
  <2> QED BY Zenon, <2>1, <2>2, <2>3 DEF ChoiceFacts
<1> QED BY Zenon, <1>1, <1>2, Heights DEF TreeFacts
-----------------------------------------------------------------------------
(* The theorems.                                                           *)

\* The invariant holds throughout, whatever headers and blocks arrive and
\* whichever calls, restarts and prunings come between the iterations of
\* ActivateBestChain and InvalidateBlock.
THEOREM ChainInvariant == Spec => []ChainInv
<1>1. Init => ChainInv
  BY Zenon, Facts, ChainInit
<1>2. ChainInv /\ [Next]_vars => ChainInv'
  BY Zenon, Facts, ChainStep
<1> QED BY <1>1, <1>2, PTL DEF Spec

\* At no point, also while cs_main is held, is a block of the active chain marked
\* as failed, one that ConnectBlock rejects, or not linked.
THEOREM ActiveChainValid ==
    Spec => [](ChainOf[tip] \cap (failed \cup ConnectInvalid) = {} /\ ChainOf[tip] \subseteq linked)
<1>1. ChainInv => ChainOf[tip] \cap (failed \cup ConnectInvalid) = {} /\ ChainOf[tip] \subseteq linked
  BY Zenon DEF ChainInv, TargetInv, StoreInv, IndexInv
<1> QED BY <1>1, ChainInvariant, PTL

\* FailuresExcluded holds as long as no user call has been made, and with user calls
\* on a node that does not prune: InvalidateBlock gives up when it has to disconnect a
\* pruned block, and leaves descendants of what it has disconnected unmarked.
THEOREM FailuresAreExcluded == Spec => [](Orderly => FailuresExcluded)
<1>1. ASSUME ChainInv, Orderly PROVE FailuresExcluded
  <2>1. ChainOf[tip] \cap (failed \cup ConnectInvalid) = {} /\ ChainOf[tip] \subseteq linked
    BY Zenon, <1>1 DEF ChainInv, TargetInv, StoreInv, IndexInv
  <2>2. Quiet => pc \notin {"inv", "undefined"}
    BY Zenon DEF Quiet, CsMainFree
  <2>3. Quiet => Marked({})
    BY Zenon, <1>1, <2>2 DEF ChainInv, FailureInv
  <2>4. calls = 0 => bestHeader \in MostWorkOf(known \ failed)
    BY Zenon, <1>1 DEF ChainInv, FailureInv
  <2> QED BY Zenon, <2>1, <2>3, <2>4 DEF FailuresExcluded, Marked
<1>2. ChainInv => (Orderly => FailuresExcluded)
  BY Zenon, <1>1
<1> QED BY <1>2, ChainInvariant, PTL

\* The block ConnectTip reads is on disk, however blocks are pruned between the
\* iterations of ActivateBestChain.
THEOREM ConnectReadsStored == Spec => []ConnectHasData
<1>1. ASSUME ChainInv PROVE ConnectHasData
  BY Zenon, <1>1, Facts, NextFacts DEF ChainInv, ConnectHasData, TargetInv
<1>2. ChainInv => ConnectHasData
  BY Zenon, <1>1
<1> QED BY <1>2, ChainInvariant, PTL

\* A block that is on disk waits in m_blocks_unlinked unless it was stored under a
\* failed parent, and a block there waits for data, whatever is pruned, linked twice,
\* invalidated or loaded at a restart.
THEOREM UnlinkedIsExact == Spec => []UnlinkedExact
<1>1. Init => UnlinkedInv /\ StartInv
  BY Zenon, Facts, ChoiceInit
<1>2. ChainInv /\ UnlinkedInv /\ StartInv /\ [Next]_vars => UnlinkedInv' /\ StartInv'
  BY Zenon, Facts, UnlinkedKept, StartKept DEF ChainInv
<1>3. ASSUME ChainInv, UnlinkedInv PROVE UnlinkedExact
  <2>1. CsMainFree => Range(rq) = {}
    BY Zenon, Queue DEF CsMainFree
  <2>2. \A b \in Blocks : unlinked[b] > 0 <=> b \in Unlinked
    BY Zenon DEF Unlinked
  <2>3. have \subseteq Blocks /\ known \subseteq Blocks
    BY Zenon, <1>3 DEF ChainInv, StoreInv
  <2>4. CsMainFree => \A b \in have \ linked : unlinked[b] > 0 \/ b \in missed
    BY Zenon, <1>3, <2>1, <2>2, <2>3 DEF UnlinkedInv, Placed
  <2>5. CsMainFree => \A b \in Unlinked : /\ ~(ChainOf[b] \subseteq have \ missed)
                                          /\ restarts = 0 => b \in have
    BY Zenon, <1>3, <2>1 DEF UnlinkedInv, MissedInv, WaitsFor, Placed
  <2>6. Quiet => \A b \in known : unlinked[b] > 0 => /\ ~(ChainOf[b] \subseteq have \ missed)
                                                     /\ restarts = 0 => b \in have
    BY Zenon, <2>2, <2>3, <2>5 DEF Quiet
  <2> QED BY Zenon, <2>4, <2>6 DEF UnlinkedExact
<1>4. ChainInv /\ UnlinkedInv => UnlinkedExact
  BY Zenon, <1>3
<1> QED BY <1>1, <1>2, <1>4, ChainInvariant, PTL DEF Spec

\* The tip never becomes less preferred by a call of PreciousBlock for it.
PreferenceKept == [][Preferred]_vars

\* The invariant about the candidates, for behaviours in which PreciousBlock does what
\* it is called for.
THEOREM ChoiceInvariant == Spec /\ PreferenceKept => [](UnlinkedInv /\ StartInv /\ ChoiceInv)
<1>1. Init => UnlinkedInv /\ StartInv /\ ChoiceInv
  BY Zenon, Facts, ChoiceInit
<1>2. ChainInv /\ ChainInv' /\ UnlinkedInv /\ StartInv /\ ChoiceInv /\ [Next]_vars /\ [Preferred]_vars
      => (UnlinkedInv /\ StartInv /\ ChoiceInv)'
  <2> SUFFICES ASSUME ChainInv, ChainInv', UnlinkedInv, StartInv, ChoiceInv, [Next]_vars, [Preferred]_vars
               PROVE  UnlinkedInv' /\ StartInv' /\ ChoiceInv'
    BY Zenon
  <2>1. UnlinkedInv' /\ StartInv'
    BY Zenon, Facts, UnlinkedKept, StartKept DEF ChainInv
  <2>2. Preferred \/ UNCHANGED vars
    BY Zenon
  <2>3. CASE Preferred
    BY Zenon, <2>1, <2>3, Facts, ChoiceKept
  <2>4. CASE UNCHANGED vars
    <3>1. UNCHANGED <<have, linked, failed, seqId, cands, unlinked, missed, tip, rq, pending, pc, mostWork, startTip>>
          /\ UNCHANGED <<stop, calls, scenario>>
      BY Zenon, <2>4 DEF vars, index, order, sets, abc, env
    <3>2. ChoiceInv'
      BY Zenon, <3>1 DEF ChoiceInv, SelectionInv, BestInv, Orderly, NeverPruned, Held, WaitsFor, Placed, Unlinked,
                         Worse, WorseBy, Work
    <3> QED BY Zenon, <2>1, <3>2
  <2> QED BY Zenon, <2>2, <2>3, <2>4
<1> QED BY <1>1, <1>2, ChainInvariant, PTL DEF Spec, PreferenceKept

\* When cs_main is free, setBlockIndexCandidates holds every usable block that is no
\* worse than the tip and no block that is worse.
THEOREM CandidatesAreExact == Spec /\ PreferenceKept => [](Orderly => CandidatesExact)
<1>1. ASSUME ChainInv, UnlinkedInv, StartInv PROVE TypeOK
  <2>1. rq \in Seq(ntx)
    <3>1. Linkable \subseteq ntx /\ rq \in Seq(Linkable)
      BY Zenon, <1>1 DEF Linkable, ChainInv, StoreInv
    <3> QED BY Zenon, <3>1, Requeued
  <2> QED BY Zenon, <1>1, <2>1 DEF TypeOK, ChainInv, StoreInv, IndexInv, TargetInv, InvalidateInv, Pcs,
                                   UnlinkedInv, MissedInv, StartInv
<1>2. ASSUME ChainInv, UnlinkedInv, ChoiceInv, Orderly, Quiet
      PROVE  /\ \A b \in known : Usable(b) /\ ~Worse(b, tip) => b \in cands
             /\ \A b \in cands : ~Worse(b, tip)
  <2>1. SelectionInv /\ pc \in {"idle", "abc"} /\ rq = <<>>
    BY Zenon, <1>2 DEF ChoiceInv, Quiet, CsMainFree
  <2>2. \A b \in linked : Unusable(b) = {} => ~Held(b)
    BY Zenon, <1>2, <2>1, Queue DEF Held, WaitsFor, Unusable, Placed, UnlinkedInv, MissedInv, ChainInv, StoreInv
  <2> QED BY Zenon, <2>1, <2>2 DEF SelectionInv, Usable, Eligible
<1>3. ChainInv /\ UnlinkedInv /\ StartInv /\ ChoiceInv => (Orderly => CandidatesExact)
  BY Zenon, <1>1, <1>2 DEF CandidatesExact
<1> QED BY <1>3, ChainInvariant, ChoiceInvariant, PTL

\* No usable block beats the tip when no activation is running or due.
THEOREM TipIsTheBest == Spec /\ PreferenceKept => [](Orderly => TipIsBest)
<1>1. ASSUME ChainInv, UnlinkedInv, ChoiceInv, Orderly PROVE TipIsBest
  <2>1. SUFFICES ASSUME Quiet, pc = "idle", ~pending, NEW b \in known, Usable(b), Worse(tip, b) PROVE FALSE
    BY Zenon DEF TipIsBest
  <2>2. SelectionInv /\ BestInv /\ rq = <<>>
    BY Zenon, <1>1, <2>1 DEF ChoiceInv, Quiet, CsMainFree
  <2>3. ~Held(b)
    BY Zenon, <1>1, <2>1, <2>2, Queue DEF Held, WaitsFor, Unusable, Usable, Eligible, Placed, UnlinkedInv,
                                         MissedInv, ChainInv, StoreInv
  <2>4. ~Worse(b, tip)
    BY Zenon, <1>1, <2>1, InOrder DEF ChainInv, StoreInv, IndexInv
  <2>5. b \in cands
    BY Zenon, <2>1, <2>2, <2>3, <2>4 DEF SelectionInv, Usable, Eligible
  <2> QED BY Zenon, <2>1, <2>2, <2>5 DEF BestInv
<1>2. ChainInv /\ UnlinkedInv /\ ChoiceInv => (Orderly => TipIsBest)
  BY Zenon, <1>1
<1> QED BY <1>2, ChainInvariant, ChoiceInvariant, PTL

\* ActivateBestChain gives up cs_main with a tip that is no worse than the one it found,
\* whatever failed to connect in between.
THEOREM ProgressIsMade == Spec /\ PreferenceKept /\ []Orderly => ProgressBeforeUnlock
<1> DEFINE A == (pc \in {"find", "conn"} /\ pc' \in {"abc", "idle"} /\ ~stop') => ~Worse(tip', startTip)
<1>1. ASSUME ChainInv, ChainInv', UnlinkedInv, StartInv, ChoiceInv, Orderly', [Next]_vars, Preferred
      PROVE  A
  <2>1. Orderly' /\ ~stop' /\ pc \in {"find", "conn"} /\ pc' \in {"idle", "abc"} => ~Worse(tip', startTip)
    BY Zenon, <1>1, Facts, ChoiceKept
  <2> QED BY Zenon, <1>1, <2>1
<1>2. ChainInv /\ ChainInv' /\ UnlinkedInv /\ StartInv /\ ChoiceInv /\ Orderly' /\ [Next]_vars /\ [Preferred]_vars
      => [A]_vars
  BY Zenon, <1>1
<1> HIDE DEF A
<1>3. Spec /\ PreferenceKept /\ []Orderly => [][A]_vars
  BY <1>2, ChainInvariant, ChoiceInvariant, PTL DEF Spec, PreferenceKept
<1> QED BY <1>3 DEF ProgressBeforeUnlock, A

\* Up to two user calls keep the preference: the first id assigned is -1 and no block
\* that was not called precious has a lower one.
THEOREM PreferenceHolds == Spec /\ [](calls <= 2) => PreferenceKept
<1>1. Init => RankInv
  BY DEF Init, RankInv
<1>2. RankInv /\ [Next]_vars => RankInv'
  BY Zenon, RankKept
<1>3. ASSUME RankInv, calls' <= 2, PreciousBlock(tip), tip \in Blocks PROVE seqId'[tip] <= seqId[tip]
  <2>1. PICK rev \in Int : rev <= -1 /\ seqId' = [seqId EXCEPT ![tip] = rev]
    BY Zenon, <1>3, PreciousRank
  <2>2. calls' = calls + 1
    BY Zenon, <1>3, PreciousRank
  <2>3. calls <= 1 /\ seqId'[tip] = rev
    BY <1>3, <2>1, <2>2 DEF RankInv
  <2> QED BY <1>3, <2>1, <2>3 DEF RankInv
<1>4. ChainInv => tip \in Blocks
  BY Zenon DEF ChainInv, StoreInv, IndexInv
<1>5. RankInv /\ ChainInv /\ (calls <= 2)' /\ [Next]_vars => [Preferred]_vars
  BY Zenon, <1>3, <1>4 DEF Preferred
<1> QED BY <1>1, <1>2, <1>5, ChainInvariant, PTL DEF Spec, PreferenceKept
=============================================================================
