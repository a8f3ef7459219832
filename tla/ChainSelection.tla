--------------------------- MODULE ChainSelection ---------------------------
(***************************************************************************)
(* Which chain a node follows: the block index, setBlockIndexCandidates,   *)
(* m_blocks_unlinked, m_best_header and the active tip, and the calls that *)
(* change them: headers and blocks arriving, ActivateBestChain,            *)
(* InvalidateBlock, ReconsiderBlock, PreciousBlock, pruning and restart.   *)
(*                                                                         *)
(* Everything here is guarded by cs_main.  ActivateBestChain and           *)
(* InvalidateBlock exclude each other through m_chainstate_mutex but give  *)
(* up cs_main between iterations, so every other call may run in between.  *)
(* pc says where the holder of m_chainstate_mutex is: in "find" and "conn" *)
(* it holds cs_main, in "abc" and "inv" it is between two iterations.      *)
(*                                                                         *)
(* One chainstate without an assumeutxo snapshot.  m_best_invalid, which   *)
(* only feeds warnings, and the contents of blocks are left out: a block   *)
(* is good, fails ContextualCheckBlock or fails ConnectBlock.              *)
(***************************************************************************)
EXTENDS Integers, Sequences, FiniteSets, Functions

CONSTANTS
    Blocks,          \* the block tree, Genesis included
    Genesis,
    Parent,          \* pprev, a function on Blocks \ {Genesis}
    Addr,            \* addresses of the CBlockIndex entries: the last tie break
    NoBlock,         \* nullptr
    MaxUnlinked,     \* entries of m_blocks_unlinked for one block, capped here
    MaxSequenceId,   \* bound on nBlockSequenceId
    MaxPrecious,     \* bound on -nBlockReverseSequenceId
    Scenarios        \* what the node meets; a behaviour is about one of them:
                     \*  blocks: the part of the tree that is mined
                     \*  work: nChainWork
                     \*  contextInvalid: blocks that fail ContextualCheckBlock
                     \*  connectInvalid: blocks that fail ConnectBlock
                     \*  keepBlocks: MIN_BLOCKS_TO_KEEP, above every height: no pruning
                     \*  maxRestarts: bound on restarts of the node
                     \*  userCalls: bound on invalidateblock, reconsiderblock,
                     \*             preciousblock

\* The blocks from Genesis to b, as CBlockIndex::GetAncestor sees them.
ChainOf[b \in Blocks] ==
    IF b = Genesis THEN {b} ELSE {b} \cup ChainOf[Parent[b]]

Height(b) == Cardinality(ChainOf[b]) - 1

\* pprev leads from every block to Genesis.
ASSUME TreeAssumption ==
    /\ Genesis \in Blocks /\ NoBlock \notin Blocks /\ IsFiniteSet(Blocks)
    /\ Parent \in [Blocks \ {Genesis} -> Blocks]
    /\ ChainOf \in [Blocks -> SUBSET Blocks] /\ ChainOf[Genesis] = {Genesis}
    /\ \A b \in Blocks \ {Genesis} :
         ChainOf[b] = {b} \cup ChainOf[Parent[b]] /\ b \notin ChainOf[Parent[b]]
    /\ Addr \in [Blocks -> Nat]
    /\ \A b, d \in Blocks : Addr[b] = Addr[d] => b = d
ASSUME BoundAssumption == {MaxUnlinked, MaxSequenceId, MaxPrecious} \subseteq Nat /\ MaxUnlinked > 0
ASSUME ScenarioAssumption ==
    \A s \in Scenarios :
        /\ s.blocks \subseteq Blocks /\ \A b \in s.blocks : ChainOf[b] \subseteq s.blocks
        /\ s.work \in [Blocks -> Nat]
        /\ \A b \in Blocks \ {Genesis} : s.work[b] > s.work[Parent[b]]
        /\ s.contextInvalid \cup s.connectInvalid \subseteq Blocks \ {Genesis}
        /\ {s.keepBlocks, s.maxRestarts, s.userCalls} \subseteq Nat

VARIABLES
    known,       \* blocks in m_block_index
    ntx,         \* blocks received at some time: nTx > 0, VALID_TRANSACTIONS
    have,        \* BLOCK_HAVE_DATA, and the undo data of connected blocks
    linked,      \* HaveNumChainTxs
    failed,      \* BLOCK_FAILED_VALID
    seqId,       \* nSequenceId
    nSeq,        \* nBlockSequenceId
    revSeq,      \* nBlockReverseSequenceId
    lastPrecious,\* nLastPreciousChainwork
    cands,       \* setBlockIndexCandidates
    unlinked,    \* number of entries (pprev(b), b) of m_blocks_unlinked
    missed,      \* history: blocks stored under a failed parent, without an entry
    bestHeader,  \* m_best_header
    tip,         \* m_chain.Tip()
    rq,          \* queue of ReceivedBlockTransactions, which holds cs_main
    pending,     \* an ActivateBestChain call waits for m_chainstate_mutex
    pc,          \* the holder of m_chainstate_mutex: idle, abc, find, conn, inv, undefined
    mostWork,    \* pindexMostWork
    startTip,    \* starting_tip
    oldTip,      \* pindexOldTip
    connected,   \* blocks_connected
    inv,         \* InvalidateBlock's locals
    stop,        \* m_interrupt
    restarts,
    calls,
    scenario     \* never changes

index == <<known, ntx, have, linked, failed>>
order == <<seqId, nSeq, revSeq, lastPrecious>>
sets == <<cands, unlinked, missed, bestHeader>>
abc == <<mostWork, startTip, oldTip, connected>>
env == <<stop, restarts, calls, scenario>>
vars == <<index, order, sets, tip, rq, pending, pc, abc, inv, env>>

Work == scenario.work
ContextInvalid == scenario.contextInvalid
ConnectInvalid == scenario.connectInvalid

NoInvalidate == [block |-> NoBlock, toMark |-> NoBlock, wasInChain |-> FALSE,
                 highpow |-> {}]

\* cs_main is free: the points at which other threads see the block index.
CsMainFree == rq = <<>> /\ pc \in {"idle", "abc", "inv"}

-----------------------------------------------------------------------------
(* The order of setBlockIndexCandidates and what is derived from it.       *)

\* CBlockIndexWorkComparator: a sorts before b.
WorseBy(s, a, b) ==
    \/ Work[a] < Work[b]
    \/ Work[a] = Work[b] /\ s[a] > s[b]
    \/ Work[a] = Work[b] /\ s[a] = s[b] /\ Addr[a] > Addr[b]

Worse(a, b) == WorseBy(seqId, a, b)

\* setBlockIndexCandidates.rbegin().
BestOf(S) == CHOOSE b \in S : \A d \in S \ {b} : Worse(d, b)

\* CChain::Contains.
InChain(b) == b \in ChainOf[tip]

Descends(b, a) == a \in ChainOf[b]

\* Mutant: the flag is not passed on.
DescendantsMutant(b) == {}

\* SetBlockFailureFlags: the known descendants of b, b itself excepted.
DescendantsOf(b) == {d \in known \ {b} : Descends(d, b)}

HighestOf(S) == CHOOSE b \in S : \A d \in S : Height(d) <= Height(b)

\* CChain::FindFork.
FindFork(b) == HighestOf(ChainOf[b] \cap ChainOf[tip])

\* The headers a scan of the unordered block index may settle on.
MostWorkOf(S) == {b \in S : \A d \in S : Work[d] <= Work[b]}

\* RecalculateBestHeader starts from the tip and moves to strictly more work.
RecalculateBestHeader(failedNow, t) ==
    LET best == MostWorkOf((known \ failedNow) \cup {t}) IN
    IF t \in best THEN {t} ELSE best

\* The values m_best_header may take in InvalidChainFound(b).
BestHeaderAfter(failedNow, b) ==
    IF Descends(bestHeader, b) THEN RecalculateBestHeader(failedNow, tip)
    ELSE {bestHeader}

\* PruneBlockIndexCandidates.
PruneBlockIndexCandidates(S, t) == {b \in S : ~Worse(b, t)}

\* IsValid(BLOCK_VALID_TRANSACTIONS) && HaveNumChainTxs().
Eligible(b, failedNow) == b \in linked \ failedNow

-----------------------------------------------------------------------------
(* Headers and blocks arriving.                                            *)

Init ==
    /\ known = {Genesis} /\ ntx = {Genesis} /\ have = {Genesis}
    /\ linked = {Genesis} /\ failed = {}
    /\ seqId = [b \in Blocks |-> IF b = Genesis THEN 2 ELSE 1]
    /\ nSeq = 3 /\ revSeq = -1 /\ lastPrecious = 0
    /\ cands = {Genesis} /\ unlinked = [b \in Blocks |-> 0] /\ missed = {}
    /\ bestHeader = Genesis /\ tip = Genesis
    /\ rq = <<>> /\ pending = FALSE /\ pc = "idle"
    /\ mostWork = NoBlock /\ startTip = NoBlock /\ oldTip = NoBlock
    /\ connected = FALSE /\ inv = NoInvalidate
    /\ stop = FALSE /\ restarts = 0 /\ calls = 0
    /\ scenario \in Scenarios

\* AcceptBlockHeader for a header that is not known; known ones change nothing.
AcceptBlockHeader(b) ==
    /\ CsMainFree /\ ~stop
    /\ b \in scenario.blocks \ known /\ Parent[b] \in known \ failed
    /\ known' = known \cup {b}
    /\ bestHeader' = IF Work[b] > Work[bestHeader] THEN b ELSE bestHeader
    /\ UNCHANGED <<ntx, have, linked, failed, order, cands, unlinked, missed, tip, rq,
                   pending, pc, abc, inv, env>>

\* The part of InvalidBlockFound(b) common to its two callers.
InvalidBlockFound(b) ==
    /\ failed' = failed \cup {b} \cup DescendantsOf(b)
    /\ cands' = cands \ {b}
    /\ bestHeader' \in BestHeaderAfter(failed', b)

\* AcceptBlock when ContextualCheckBlock fails; ProcessNewBlock then returns.
RejectBlock(b) ==
    /\ CsMainFree /\ ~stop
    /\ b \in known \ (failed \cup have) /\ b \in ContextInvalid
    /\ InvalidBlockFound(b)
    /\ UNCHANGED <<known, ntx, have, linked, order, unlinked, missed, tip, rq, pending,
                   pc, abc, inv, env>>

\* Mutant: blocks that wait for data are forgotten.
AddUnlinkedMutant(u, S) == u

\* Insertions into m_blocks_unlinked.
AddUnlinked(u, S) ==
    [b \in Blocks |-> IF b \in S /\ u[b] < MaxUnlinked THEN u[b] + 1 ELSE u[b]]

\* ProcessNewBlock: AcceptBlock stores a block that is not on disk, and
\* ReceivedBlockTransactions queues it or makes it wait for its parent, unless the
\* parent has failed: InvalidateBlock may have marked the parent and not yet this
\* block.  A block that comes with its header is AcceptBlockHeader and then this.
ProcessNewBlock(b) ==
    /\ CsMainFree /\ ~stop
    /\ b \in known \ (failed \cup have) /\ b \notin ContextInvalid
    /\ nSeq + Cardinality(scenario.blocks) <= MaxSequenceId
    /\ have' = have \cup {b} /\ ntx' = ntx \cup {b}
    /\ IF Parent[b] \in linked
       THEN rq' = <<b>> /\ UNCHANGED <<unlinked, missed, pending>>
       ELSE /\ IF Parent[b] \in failed
               THEN /\ missed' = IF unlinked[b] = 0 THEN missed \cup {b} ELSE missed
                    /\ UNCHANGED unlinked
               ELSE unlinked' = AddUnlinked(unlinked, {b}) /\ UNCHANGED missed
            /\ pending' = TRUE
            /\ UNCHANGED rq
    /\ UNCHANGED <<known, linked, failed, order, cands, bestHeader, tip, pc, abc,
                   inv, env>>

\* The orders in which the blocks of S may come.
Orders(S) == Bijection(1..Cardinality(S), S)

\* m_blocks_unlinked.equal_range(b).
UnlinkedUnder(b) == {d \in Blocks \ {Genesis} : Parent[d] = b /\ unlinked[d] > 0}

\* m_blocks_unlinked without the entries under b.
TakenFromUnlinked(b) ==
    [d \in Blocks |-> IF d \in UnlinkedUnder(b) THEN 0 ELSE unlinked[d]]

\* TryAddBlockIndexCandidate, with the sequence ids s.
TryAddBlockIndexCandidate(b, s) ==
    IF WorseBy(s, b, tip) THEN cands ELSE cands \cup {b}

\* One turn of the loop of ReceivedBlockTransactions.  ProcessNewBlock calls
\* ActivateBestChain when the queue is empty.  Assigning nSequenceId to a member
\* of setBlockIndexCandidates changes a key of a std::set in place: from there
\* the behaviour of the program is undefined, and the model ends.
LinkBlock ==
    /\ rq # <<>> /\ pc # "undefined"
    /\ LET b == Head(rq)
           s == [seqId EXCEPT ![b] = nSeq]
           twice == {d \in UnlinkedUnder(b) : unlinked[d] > 1} IN
       /\ linked' = linked \cup {b}
       /\ seqId' = s /\ nSeq' = nSeq + 1
       /\ pc' = IF b \in cands THEN "undefined" ELSE pc
       /\ cands' = TryAddBlockIndexCandidate(b, s)
       /\ \E q \in Orders(UnlinkedUnder(b)), r \in Orders(twice) :
            rq' = Tail(rq) \o q \o r
       /\ unlinked' = TakenFromUnlinked(b)
    /\ pending' = (pending \/ rq' = <<>>)
    /\ UNCHANGED <<known, ntx, have, failed, revSeq, lastPrecious, missed, bestHeader,
                   tip, abc, inv, env>>

-----------------------------------------------------------------------------
(* ActivateBestChain.                                                      *)

\* Mutant: one iteration only.
EndOfIterationMutant(t, target) == "idle"

\* The outer loop ends: the target is reached, or the node is stopping.
EndOfIteration(t, target) == IF stop \/ t = target THEN "idle" ELSE "abc"

\* Mutant: the condition is dropped.
AfterStepMutant(t, target) == EndOfIteration(t, target)

\* The condition of the inner loop: keep cs_main while worse than before.
AfterStep(t, target) ==
    IF Worse(t, startTip) THEN "find" ELSE EndOfIteration(t, target)

\* A call gets m_chainstate_mutex, or the next iteration begins: lock cs_main.
ActivateBestChain ==
    /\ rq = <<>>
    /\ \/ pc = "idle" /\ pending /\ ~stop /\ pending' = FALSE
       \/ pc = "abc" /\ UNCHANGED pending
    /\ pc' = "find" /\ startTip' = tip /\ connected' = FALSE
    /\ UNCHANGED <<index, order, sets, tip, rq, mostWork, oldTip, inv, env>>

\* Mutant: missing blocks on the way are not noticed.
UnusableMutantData(c) == (ChainOf[c] \ ChainOf[tip]) \cap failed

\* Blocks between candidate c and the active chain that rule c out.
Unusable(c) == {b \in ChainOf[c] \ ChainOf[tip] : b \in failed \/ b \notin have}

\* Mutant: nothing leaves the set.
RuledOutMutant(c) == {}

\* The candidate c and its ancestors down to the first unusable one.
RuledOut(c) == (ChainOf[c] \ ChainOf[HighestOf(Unusable(c))]) \cup {HighestOf(Unusable(c))}

\* One turn of FindMostWorkChain: the best candidate is usable, or it and the
\* blocks down to the first unusable one leave the set.
FindMostWorkChain ==
    /\ pc = "find" /\ mostWork = NoBlock /\ cands # {}
    /\ LET c == BestOf(cands)
           test == HighestOf(Unusable(c))
           above == RuledOut(c) \ {test} IN
       IF Unusable(c) = {}
       THEN mostWork' = c /\ UNCHANGED <<failed, cands, unlinked>>
       ELSE /\ cands' = cands \ RuledOut(c)
            /\ IF test \in failed
               THEN failed' = failed \cup above /\ UNCHANGED unlinked
               ELSE unlinked' = AddUnlinked(unlinked, above) /\ UNCHANGED failed
            /\ UNCHANGED mostWork
    /\ UNCHANGED <<known, ntx, have, linked, order, missed, bestHeader, tip, rq, pending,
                   pc, startTip, oldTip, connected, inv, env>>

\* Nothing (more) to do: the break of the inner loop.
NothingToDo ==
    /\ pc = "find"
    /\ mostWork = tip \/ (mostWork = NoBlock /\ cands = {})
    /\ pc' = IF connected THEN EndOfIteration(tip, mostWork) ELSE "idle"
    /\ mostWork' = IF pc' = "idle" THEN NoBlock ELSE mostWork
    /\ startTip' = NoBlock /\ connected' = FALSE
    /\ UNCHANGED <<index, order, sets, tip, rq, pending, oldTip, inv, env>>

\* ActivateBestChainStep up to the fork point: DisconnectTip for every block
\* that is not on the way to pindexMostWork.
DisconnectToFork ==
    /\ pc = "find" /\ mostWork \notin {NoBlock, tip}
    /\ ChainOf[tip] \ ChainOf[FindFork(mostWork)] \subseteq have
    /\ tip' = FindFork(mostWork)
    /\ oldTip' = tip /\ pc' = "conn"
    /\ UNCHANGED <<index, order, sets, rq, pending, mostWork, startTip, connected,
                   inv, env>>

\* DisconnectTip finds no data: FatalError, and the node shuts down.
DisconnectFails ==
    /\ pc = "find" /\ mostWork \notin {NoBlock, tip}
    /\ LET missing == (ChainOf[tip] \ ChainOf[FindFork(mostWork)]) \ have IN
       missing # {} /\ tip' = HighestOf(missing)
    /\ stop' = TRUE /\ pc' = "idle"
    /\ mostWork' = NoBlock /\ startTip' = NoBlock /\ connected' = FALSE
    /\ UNCHANGED <<index, order, sets, rq, pending, oldTip, inv, restarts, calls,
                   scenario>>

\* The block ConnectTip takes next.
NextToConnect == CHOOSE b \in ChainOf[mostWork] \ ChainOf[tip] : Parent[b] = tip

\* The end of ActivateBestChainStep and of a turn of the inner loop.
StepEnds(t, target) ==
    /\ pc' = AfterStep(t, target)
    /\ mostWork' = IF pc' = "idle" THEN NoBlock ELSE target
    /\ startTip' = IF pc' = "find" THEN startTip ELSE NoBlock
    /\ connected' = (pc' = "find")
    /\ oldTip' = NoBlock

\* ConnectTip succeeds.  The step ends when the tip has more work than before.
ConnectTip ==
    /\ pc = "conn" /\ NextToConnect \notin ConnectInvalid
    /\ tip' = NextToConnect
    /\ cands' = PruneBlockIndexCandidates(cands, tip')
    /\ IF Work[tip'] > Work[oldTip] \/ tip' = mostWork
       THEN StepEnds(tip', mostWork)
       ELSE UNCHANGED <<pc, abc>>
    /\ UNCHANGED <<index, order, unlinked, missed, bestHeader, rq, pending, inv, env>>

\* ConnectBlock fails: InvalidBlockFound, and fInvalidFound wipes the target.
\* InvalidChainFound for the end of the path then finds nothing left to mark.
ConnectTipInvalid ==
    /\ pc = "conn" /\ NextToConnect \in ConnectInvalid
    /\ InvalidBlockFound(NextToConnect)
    /\ StepEnds(tip, NoBlock)
    /\ UNCHANGED <<known, ntx, have, linked, order, unlinked, missed, tip, rq, pending,
                   inv, env>>

-----------------------------------------------------------------------------
(* The calls of a user, pruning, and restart.                              *)

UserCall ==
    /\ CsMainFree /\ ~stop /\ calls < scenario.userCalls
    /\ calls' = calls + 1

\* InvalidateBlock up to its loop: the map of headers out of the chain that are
\* no worse than the tip will be when b is disconnected.
InvalidateBlock(b) ==
    /\ UserCall /\ pc = "idle"
    /\ b \in known \ {Genesis}
    /\ inv' = [block |-> b, toMark |-> b, wasInChain |-> FALSE,
               highpow |-> {c \in known \ failed : ~InChain(c) /\ ~Worse(c, Parent[b])}]
    /\ pc' = "inv"
    /\ UNCHANGED <<index, order, sets, tip, rq, pending, abc, stop, restarts, scenario>>

\* One turn of the loop of InvalidateBlock: DisconnectTip, mark the block and
\* the descendants of it in the map, add the candidates the new tip makes.
InvalidateDisconnect ==
    /\ pc = "inv" /\ rq = <<>> /\ ~stop /\ InChain(inv.block) /\ tip \in have
    /\ LET newTip == Parent[tip]
           atLeast == {c \in inv.highpow : Work[c] >= Work[newTip]}
           under == {c \in atLeast : Descends(c, tip)}
           rest == atLeast \ under IN
       /\ tip' = newTip
       /\ failed' = failed \cup {tip} \cup under
       /\ cands' = (cands \ {tip}) \cup {newTip}
                   \cup {c \in rest : ~Worse(c, newTip) /\ Eligible(c, failed)}
       /\ IF Descends(bestHeader, tip)
          THEN LET best == MostWorkOf(rest \cup {newTip}) IN
               bestHeader' \in IF newTip \in best THEN {newTip} ELSE best
          ELSE UNCHANGED bestHeader
       /\ inv' = [inv EXCEPT !.toMark = tip, !.wasInChain = TRUE,
                             !.highpow = inv.highpow \ under]
    /\ UNCHANGED <<known, ntx, have, linked, order, unlinked, missed, rq, pending, pc,
                   abc, env>>

InvalidateReturns ==
    /\ pc' = "idle" /\ inv' = NoInvalidate /\ pending' = TRUE

\* DisconnectTip fails, or the loop was interrupted before its first turn:
\* InvalidateBlock returns false with a valid state, and the RPC goes on to
\* ActivateBestChain.
InvalidateFails ==
    /\ pc = "inv" /\ rq = <<>>
    /\ IF stop THEN InChain(inv.toMark) ELSE InChain(inv.block) /\ tip \notin have
    /\ InvalidateReturns
    /\ UNCHANGED <<index, order, sets, tip, rq, abc, env>>

\* Mutant: the loop is left out.
MissedCandidatesMutant(failedNow) == {}

\* The loop over all block index entries that repairs setBlockIndexCandidates.
MissedCandidates(failedNow) == {b \in known : Eligible(b, failedNow) /\ ~Worse(b, tip)}

\* InvalidateBlock after its loop.
InvalidateFinish ==
    /\ pc = "inv" /\ rq = <<>>
    /\ IF stop THEN ~InChain(inv.toMark) ELSE ~InChain(inv.block)
    /\ LET mark == IF inv.wasInChain THEN {} ELSE {inv.block} \ failed IN
       /\ failed' = failed \cup mark \cup DescendantsOf(inv.toMark)
       /\ cands' = (cands \ mark) \cup MissedCandidates(failed \cup mark)
       /\ bestHeader' \in BestHeaderAfter(failed', inv.toMark)
    /\ InvalidateReturns
    /\ UNCHANGED <<known, ntx, have, linked, order, unlinked, missed, tip, rq, abc, env>>

\* ResetBlockFailureFlags: what is in line with b is not failed any more.
Cleared(b) == {d \in failed : Descends(d, b) \/ Descends(b, d)}

\* ReconsiderBlock.
ReconsiderBlock(b) ==
    /\ UserCall
    /\ b \in known
    /\ failed' = failed \ Cleared(b)
    /\ cands' = cands \cup {d \in Cleared(b) : Eligible(d, failed') /\ Worse(tip, d)}
    /\ bestHeader' \in RecalculateBestHeader(failed', tip)
    /\ pending' = TRUE
    /\ UNCHANGED <<known, ntx, have, linked, order, unlinked, missed, tip, rq, pc, abc,
                   inv, stop, restarts, scenario>>

\* PreciousBlock for a block that has the work of the tip.
PreciousBlock(b) ==
    /\ UserCall
    /\ b \in known /\ Work[b] >= Work[tip]
    /\ LET rev == IF Work[tip] > lastPrecious THEN -1 ELSE revSeq
           s == [seqId EXCEPT ![b] = rev] IN
       /\ rev >= -MaxPrecious
       /\ seqId' = s /\ revSeq' = rev - 1
       /\ cands' = IF Eligible(b, failed)
                   THEN {d \in cands \cup {b} : ~WorseBy(s, d, tip)}
                   ELSE cands \ {b}
    /\ lastPrecious' = Work[tip]
    /\ pending' = TRUE
    /\ UNCHANGED <<index, nSeq, unlinked, missed, bestHeader, tip, rq, pc, abc,
                   inv, stop, restarts, scenario>>

\* FindFilesToPrune and PruneOneBlockFile, for a file that holds block b.
PruneBlock(b) ==
    /\ CsMainFree /\ ~stop
    /\ b \in have \ {Genesis} /\ Height(b) + scenario.keepBlocks <= Height(tip)
    /\ have' = have \ {b}
    /\ unlinked' = [unlinked EXCEPT ![b] = 0] /\ missed' = missed \ {b}
    /\ UNCHANGED <<known, ntx, linked, failed, order, cands, bestHeader, tip, rq,
                   pending, pc, abc, inv, env>>

Interrupt ==
    /\ CsMainFree /\ ~stop /\ restarts < scenario.maxRestarts
    /\ stop' = TRUE
    /\ UNCHANGED <<index, order, sets, tip, rq, pending, pc, abc, inv, restarts, calls,
                   scenario>>

\* A clean restart: LoadBlockIndex, LoadChainTip, PopulateBlockIndexCandidates,
\* and ActivateBestChain when the imports are done.
LinkedOnLoad == {b \in known : ChainOf[b] \subseteq ntx}

Restart ==
    /\ stop /\ pc = "idle" /\ rq = <<>> /\ restarts < scenario.maxRestarts
    /\ linked' = LinkedOnLoad
    /\ failed' = {b \in known : ChainOf[b] \cap failed # {}}
    /\ unlinked' = [b \in Blocks |-> IF b \in ntx \ linked' THEN 1 ELSE 0]
    /\ missed' = {}
    /\ bestHeader' \in MostWorkOf(known \ failed')
    /\ seqId' = [b \in Blocks |-> IF InChain(b) THEN 0 ELSE 1]
    /\ nSeq' = 2 /\ revSeq' = -1 /\ lastPrecious' = 0
    /\ cands' = {b \in linked' \ failed' : ~WorseBy(seqId', b, tip)}
    /\ pending' = TRUE /\ stop' = FALSE /\ restarts' = restarts + 1
    /\ UNCHANGED <<known, ntx, have, tip, rq, pc, abc, inv, calls, scenario>>

Activate ==
    \/ ActivateBestChain \/ FindMostWorkChain \/ NothingToDo
    \/ DisconnectToFork \/ DisconnectFails \/ ConnectTip \/ ConnectTipInvalid

Invalidate == InvalidateDisconnect \/ InvalidateFails \/ InvalidateFinish

Next ==
    \/ \E b \in Blocks \ {Genesis} :
        \/ AcceptBlockHeader(b) \/ RejectBlock(b) \/ ProcessNewBlock(b)
        \/ InvalidateBlock(b) \/ PruneBlock(b)
    \/ \E b \in Blocks : ReconsiderBlock(b) \/ PreciousBlock(b)
    \/ LinkBlock \/ Activate \/ Invalidate \/ Interrupt \/ Restart

Spec == Init /\ [][Next]_vars

-----------------------------------------------------------------------------
(* Properties.  Quiet: cs_main is free, no InvalidateBlock is half way and *)
(* the node runs: the points where CheckBlockIndex is meant to hold.       *)

Quiet == CsMainFree /\ pc # "inv" /\ ~stop

\* Every variable keeps its type and the thread locals are set when used.
TypeOK ==
    /\ Genesis \in known /\ known \subseteq Blocks
    /\ have \subseteq ntx /\ linked \subseteq ntx /\ ntx \subseteq known
    /\ failed \subseteq known \ {Genesis}
    /\ seqId \in [Blocks -> Int]
    /\ cands \subseteq linked /\ unlinked \in [Blocks -> 0..MaxUnlinked] /\ missed \subseteq have
    /\ bestHeader \in known /\ tip \in linked
    /\ rq \in Seq(ntx) /\ pc \in {"idle", "abc", "find", "conn", "inv", "undefined"}
    /\ (pc = "idle") => (mostWork = NoBlock)
    /\ (pc \in {"find", "conn"}) => (startTip \in linked)
    /\ (pc = "inv") => (inv.block \in known \ {Genesis})

\* The blocks ActivateBestChain could switch to: not invalid, and with every
\* block between them and the active chain on disk.
Usable(b) == Eligible(b, failed) /\ Unusable(b) = {}

\* The state has its type; setBlockIndexCandidates holds every usable block that
\* is no worse than the tip, and nothing that is worse or waits for a parent.
\* This is the check CheckBlockIndex makes, in the stronger form its comment asks
\* for: only the blocks between the active chain and the candidate need to be on
\* disk.
CandidatesExact ==
    /\ TypeOK
    /\ Quiet => /\ \A b \in known : Usable(b) /\ ~Worse(b, tip) => b \in cands
                /\ \A b \in cands : ~Worse(b, tip)

\* CheckBlockIndex: invalid blocks and their descendants are marked as invalid.
\* No block of the active chain is marked or failed to connect at any point where
\* another thread can look: InvalidateBlock marks what it has disconnected, never
\* what is still connected.  As long as no user has called InvalidateBlock,
\* m_best_header is not marked and no valid header has more work.
FailuresExcluded ==
    /\ CsMainFree => /\ ChainOf[tip] \cap (failed \cup ConnectInvalid) = {}
                     /\ ChainOf[tip] \subseteq linked
    /\ Quiet => /\ \A b \in known : ChainOf[b] \cap failed # {} => b \in failed
                /\ calls = 0 => bestHeader \in MostWorkOf(known \ failed)

\* When no activation is running or due, no usable block beats the tip: a block
\* that arrived while ActivateBestChain worked towards an older target, or that
\* InvalidateBlock uncovered, is not forgotten.
TipIsBest ==
    (Quiet /\ pc = "idle" /\ ~pending) =>
        \A b \in known : Usable(b) => ~Worse(tip, b)

\* nSequenceId is a key of setBlockIndexCandidates: it is never assigned to a
\* block that is in the set.
KeysNotMutated == pc # "undefined"

\* A stored block that waits for a parent never received is in m_blocks_unlinked, so
\* that the parent's arrival links it, unless it was stored under a failed parent.
\* And, as CheckBlockIndex asserts, a block in m_blocks_unlinked misses an ancestor,
\* one not on disk or one stored under a failed parent: a block that has been linked
\* for good leaves no entry behind that would link it once more.  Until the index is
\* loaded again the block itself is on disk.
UnlinkedExact ==
    /\ CsMainFree => \A b \in have \ linked : unlinked[b] > 0 \/ b \in missed
    /\ Quiet => \A b \in known : unlinked[b] > 0 =>
                    /\ ~(ChainOf[b] \subseteq have \ missed)
                    /\ restarts = 0 => b \in have

\* The block ConnectTip reads is on disk although pindexMostWork was chosen
\* before cs_main was given up and blocks may have been pruned since.
ConnectHasData == pc = "conn" => NextToConnect \in have

\* ActivateBestChain gives up cs_main only when the tip is no worse than it was
\* when it took it, whatever failed to connect in between.
ProgressBeforeUnlock ==
    [][(pc \in {"find", "conn"} /\ pc' \in {"abc", "idle"} /\ ~stop') =>
            ~Worse(tip', startTip)]_vars

\* What activation and invalidation have left to do: the blocks InvalidateBlock
\* has to disconnect, the blocks to be linked, a call of ActivateBestChain that
\* waits, the blocks that may still turn out invalid, the candidates, and the way
\* to the chosen one.  An earlier item outweighs the later ones.
Distance ==
    IF mostWork = NoBlock THEN Cardinality(Blocks) + 1
    ELSE Cardinality(ChainOf[mostWork] \ ChainOf[tip])

ToDo ==
    << IF pc = "inv" THEN 1 + Cardinality(ChainOf[tip] \ ChainOf[Parent[inv.block]]) ELSE 0,
       IF rq = <<>> THEN 0 ELSE Len(rq) + SumFunction(unlinked),
       IF pending THEN 1 ELSE 0,
       Cardinality(known \ failed),
       Cardinality(cands),
       IF pc = "idle" THEN 0 ELSE Distance,
       CASE pc = "abc" -> 3 [] pc = "find" -> 2 [] pc = "conn" -> 1 [] OTHER -> 0 >>

Below(s, t) ==
    \E i \in DOMAIN s : s[i] < t[i] /\ \A k \in 1..(i - 1) : s[k] = t[k]

\* Activation and invalidation come to an end and leave no call waiting: every
\* step of theirs brings the end nearer, and until then one of them can be taken.
\* Only what others do in between, a new block or another call, adds work; and
\* nothing is said once a key of setBlockIndexCandidates was changed in place.
Settles ==
    /\ [][LinkBlock \/ Activate \/ Invalidate => Below(ToDo', ToDo)]_vars
    /\ [](\/ stop \/ pc = "undefined" \/ (pc = "idle" /\ ~pending /\ rq = <<>>)
         \/ ENABLED <<LinkBlock \/ Activate \/ Invalidate>>_vars)

=============================================================================
