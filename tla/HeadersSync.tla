------------------------------ MODULE HeadersSync ------------------------------
(***************************************************************************)
(* HeadersSyncState (headerssync.cpp) and the handling of a headers        *)
(* message around it (PeerManagerImpl::ProcessHeadersMessage), for one     *)
(* peer.  A message is one step: it is processed by the message handler    *)
(* thread with m_headers_sync_mutex held.                                  *)
(*                                                                         *)
(* The headers that exist are a finite tree.  Path[h] is the sequence of   *)
(* headers from the first after Root up to h, so the height of h is its    *)
(* length; nBits[h] stands for the target, and is the work of the header.  *)
(* The salted one-bit hash is the set of headers it maps to 1.  Headers    *)
(* without proof of work never get here (CheckHeadersPoW).  The peer has   *)
(* no NoBan permission, which would count its headers as validated.        *)
(***************************************************************************)
EXTENDS Integers, Sequences, FiniteSets, SequencesExt

CONSTANTS
    Root, Headers,             \* the header we start from, and all others
    Path, nBits,
    NoHeader,                  \* a hash no header has
    commitment_period, redownload_buffer_size,   \* HeadersSyncParams
    m_max_commitments,
    minimum_required_work,     \* GetAntiDoSWorkThreshold()
    max_headers_result,        \* headers in a full message
    DifficultyAdjustmentInterval,
    Invalid,                   \* headers that always fail ContextualCheckBlockHeader
    Early,                     \* headers whose time may lie too far in the future
    Unsound,                   \* bound: headers whose block may be found invalid
    Salts,                     \* bound: the salted hash functions considered
    HonestTips                 \* tips of the chains an honest peer may have

ASSUME HeadersSyncAssumption ==
    /\ commitment_period \in Nat \ {0} /\ max_headers_result \in Nat \ {0}
    /\ redownload_buffer_size \in Nat \ {0}
    /\ \A h \in Headers : Path[h] # <<>> /\ Last(Path[h]) = h

VARIABLES
    m_block_index,   \* the headers accepted so far
    failed,          \* those of them with BLOCK_FAILED_VALID
    m_best_header,
    sync,            \* peer.m_headers_sync, with state "none" when it is null
    request,         \* first locator entry of the last getheaders sent
    peer_tip,        \* tip of the chain of an honest peer, NoHeader for any other
    released         \* what the last message made REDOWNLOAD return, and on what grounds

index == <<m_block_index, failed, m_best_header>>
vars == <<index, sync, request, peer_tip, released>>

Height(h) == IF h = Root THEN 0 ELSE Len(Path[h])
PathTo(h) == IF h = Root THEN <<>> ELSE Path[h]
Parent(h) == IF Len(Path[h]) = 1 THEN Root ELSE Path[h][Len(Path[h]) - 1]
Bits(h)   == IF h = Root THEN 1 ELSE nBits[h]

\* nChainWork of every header.
nChainWork ==
    [h \in Headers \cup {Root} |-> FoldLeft(LAMBDA sum, x : sum + nBits[x], 0, PathTo(h))]
ChainWork(h) == nChainWork[h]

NoSync == [state |-> "none"]
NothingReleased == [headers |-> <<>>]

Init ==
    /\ m_block_index = {Root} /\ failed = {} /\ m_best_header = Root
    /\ sync = NoSync
    /\ request = Root
    /\ peer_tip \in HonestTips \cup {NoHeader}
    /\ released = NothingReleased
-----------------------------------------------------------------------------
\* PermittedDifficultyTransition: only at an adjustment, and by a bounded factor.
\* That is the rule without fPowAllowMinDifficultyBlocks; the limit by powLimit adds
\* nothing to it, because no header with a target above powLimit gets here.
PermittedDifficultyTransition(height, old, new) ==
    IF height % DifficultyAdjustmentInterval = 0
    THEN new <= 4 * old /\ old <= 4 * new
    ELSE new = old

\* What GetNextWorkRequired asks for is always a permitted transition, and the
\* chain of an honest peer is valid.
ASSUME InvalidAssumption ==
    /\ \A h \in Headers \ Invalid :
            PermittedDifficultyTransition(Height(h), Bits(Parent(h)), Bits(h))
    /\ \A tip \in HonestTips : ToSet(Path[tip]) \cap Invalid = {}

\* m_hasher(hash) & 1
Commitment(s, h) == IF h \in s.salt THEN 1 ELSE 0

\* Heights at which a commitment is stored, and later verified.
AtCommitment(s, height) == height % commitment_period = s.offset

\* HeadersSyncState::HeadersSyncState
NewSync(start, offset, salt) ==
    [state |-> "PRESYNC", start |-> start, offset |-> offset, salt |-> salt,
     commitments |-> <<>>, last |-> start, work |-> ChainWork(start),
     buffer |-> <<>>, first_prev |-> NoHeader, last_hash |-> NoHeader,
     redownload_work |-> 0, process_all |-> FALSE, ok |-> TRUE,
     refused |-> NoHeader]     \* history: the last header of it the index refused

\* `m_header_commitments.size() > m_max_commitments' gives up.
WithinBoundMutant(s, stored) == Len(s.commitments) <= m_max_commitments
WithinBound(s, stored) == Len(stored) <= m_max_commitments

\* ValidateAndProcessSingleHeader
ValidateAndProcessSingleHeader(s, h) ==
    LET height == Height(s.last) + 1
        stored == IF AtCommitment(s, height)
                  THEN Append(s.commitments, Commitment(s, h)) ELSE s.commitments
    IN IF /\ s.ok
          /\ PermittedDifficultyTransition(height, Bits(s.last), Bits(h))
          /\ WithinBound(s, stored)
       THEN [s EXCEPT !.commitments = stored, !.work = @ + Bits(h), !.last = h]
       ELSE [s EXCEPT !.ok = FALSE]

\* ValidateAndStoreHeadersCommitments
ValidateAndStoreHeadersCommitments(s, msg) ==
    IF Parent(msg[1]) # s.last THEN [s EXCEPT !.ok = FALSE]
    ELSE LET t == FoldLeft(ValidateAndProcessSingleHeader, s, msg)
         IN IF t.ok /\ t.work >= minimum_required_work
            THEN [t EXCEPT !.state = "REDOWNLOAD", !.buffer = <<>>,
                           !.first_prev = t.start, !.last_hash = t.start,
                           !.redownload_work = ChainWork(t.start)]
            ELSE t

\* The commitment at this height is the one stored in PRESYNC.
CommitmentMatchesMutant(s, h) == s.commitments # <<>>
CommitmentMatches(s, h) ==
    s.commitments # <<>> /\ Head(s.commitments) = Commitment(s, h)

\* Commitments are verified until the redownloaded chain has enough work.
MustVerifyMutant(s, all, height) == AtCommitment(s, height)
MustVerify(s, all, height) == ~all /\ AtCommitment(s, height)

\* ValidateAndStoreRedownloadedHeader
ValidateAndStoreRedownloadedHeader(s, h) ==
    LET height == Height(s.last_hash) + 1
        previous_nBits == IF s.buffer # <<>> THEN Bits(Last(s.buffer)) ELSE Bits(s.start)
        work   == s.redownload_work + Bits(h)
        all    == s.process_all \/ work >= minimum_required_work
        verify == MustVerify(s, all, height)
    IN IF /\ s.ok
          /\ Parent(h) = s.last_hash
          /\ PermittedDifficultyTransition(height, previous_nBits, Bits(h))
          /\ verify => CommitmentMatches(s, h)
       THEN [s EXCEPT !.redownload_work = work, !.process_all = all,
                      !.commitments = IF verify THEN Tail(@) ELSE @,
                      !.buffer = Append(@, h), !.last_hash = h]
       ELSE [s EXCEPT !.ok = FALSE]

\* CompressedHeader::GetFullHeader: on another predecessor it is another header.
GetFullHeader(h, prev) == IF Parent(h) = prev THEN h ELSE NoHeader

\* The number of headers PopHeadersReadyForAcceptance returns.
Ready(s) ==
    IF s.process_all THEN Len(s.buffer)
    ELSE IF Len(s.buffer) > redownload_buffer_size
         THEN Len(s.buffer) - redownload_buffer_size ELSE 0

PoppedHeaders(s) ==
    [i \in 1..Ready(s) |->
        GetFullHeader(s.buffer[i], IF i = 1 THEN s.first_prev ELSE s.buffer[i - 1])]

PopHeaders(s) ==
    LET n == Ready(s)
    IN [s EXCEPT !.buffer = SubSeq(@, n + 1, Len(@)),
                 !.first_prev = IF n = 0 THEN @ ELSE s.buffer[n]]

\* ProcessNextHeaders: success, request_more, the headers returned, and the
\* object afterwards (Finalize, after which the peer's pointer is reset).
ProcessNextHeaders(s, msg, full) ==
    IF s.state = "PRESYNC"
    THEN LET t == ValidateAndStoreHeadersCommitments(s, msg)
             more == t.ok /\ (full \/ t.state = "REDOWNLOAD")
         IN [success |-> t.ok, more |-> more, headers |-> <<>>,
             after |-> IF more THEN t ELSE NoSync, from |-> t]
    ELSE LET t == FoldLeft(ValidateAndStoreRedownloadedHeader, s, msg)
             u == PopHeaders(t)
             more == t.ok /\ full /\ ~(u.buffer = <<>> /\ u.process_all)
         IN [success |-> t.ok, more |-> more,
             headers |-> IF t.ok THEN PoppedHeaders(t) ELSE <<>>,
             after |-> IF more THEN u ELSE NoSync, from |-> t]

\* NextHeadersRequestLocator, its first entry.
NextHeadersRequest(s) == IF s.state = "PRESYNC" THEN s.last ELSE s.last_hash
-----------------------------------------------------------------------------
(* ProcessHeadersMessage. *)

\* AcceptBlockHeader fails for h: it is known and marked invalid, or it is new
\* and its parent is marked, or it fails ContextualCheckBlockHeader, where for
\* the early ones the clock decides.  (CheckHeadersPoW came before.)
MayRefuse(h) ==
    \/ h \in failed
    \/ h \notin m_block_index /\ (Parent(h) \in failed \/ h \in Invalid \cup Early)
MayAccept(h) ==
    \/ h \in m_block_index \ failed
    \/ h \notin m_block_index /\ Parent(h) \notin failed /\ h \notin Invalid

\* ProcessNewBlockHeaders: the first n headers are stored and the next one, if
\* there is one, is refused and ends it.  An honest peer's headers are valid.
ProcessNewBlockHeaders(headers, n) ==
    LET good == SubSeq(headers, 1, n)
    IN /\ \A i \in 1..n : MayAccept(headers[i])
       /\ n < Len(headers) => peer_tip = NoHeader /\ MayRefuse(headers[n + 1])
       /\ m_block_index' = m_block_index \cup ToSet(good)
       /\ m_best_header' = IF n > 0 /\ ChainWork(Last(good)) > ChainWork(m_best_header)
                           THEN Last(good) ELSE m_best_header
       /\ UNCHANGED failed

\* The rest of the handler.  MaybePunishNodeForBlock changes nothing that is held
\* here: not every refusal is punished, nor every punished peer disconnected, and
\* a sync in progress (next) goes on.
AcceptHeaders(headers, full, next) ==
    \E n \in 0..Len(headers) :
        /\ ProcessNewBlockHeaders(headers, n)
        /\ sync' = IF next.state = "none" \/ n = Len(headers) THEN next
                   ELSE [next EXCEPT !.refused = headers[n + 1]]
        /\ request' = IF next.state # "none" THEN NextHeadersRequest(next)
                      ELSE IF full /\ n = Len(headers) THEN Last(headers) ELSE NoHeader

\* TryLowWorkHeadersSync: a new HeadersSyncState for a full message of a chain
\* that does not claim enough work yet.  The first message is processed at once.
StartLowWorkSync(msg, full) ==
    /\ IF full
       THEN \E r \in {ProcessNextHeaders(NewSync(Parent(msg[1]), offset, salt), msg, full) :
                        offset \in 0..(commitment_period - 1), salt \in Salts} :
              /\ sync' = r.after
              /\ request' = IF r.more THEN NextHeadersRequest(r.after) ELSE NoHeader
       ELSE sync' = NoSync /\ request' = NoHeader
    /\ UNCHANGED index

\* HandleUnconnectingHeaders.  MaybeSendGetHeaders sends nothing while another
\* request is in flight; a sync that goes on has just sent one.
HandleUnconnectingHeaders(next) ==
    /\ sync' = next
    /\ \/ next.state # "none" /\ request' = NextHeadersRequest(next)
       \/ next.state = "none" /\ request' = m_best_header
       \/ next.state = "none" /\ request # NoHeader /\ UNCHANGED request
    /\ UNCHANGED index

\* What happens to headers that are left after the sync in progress, if any,
\* has had its look and become next: they are returned by it (validated) or are
\* the message.
ProcessHeaders(headers, validated, full, next) ==
    LET known == Last(headers) \in ToSet(PathTo(m_best_header))
    IN \/ /\ Parent(headers[1]) \notin m_block_index
          /\ HandleUnconnectingHeaders(next)
       \/ /\ Parent(headers[1]) \in m_block_index
          /\ \/ validated \/ known \/ ChainWork(Last(headers)) >= minimum_required_work
          /\ AcceptHeaders(headers, full, next)

LowWork(headers) ==
    /\ Parent(headers[1]) \in m_block_index
    /\ Last(headers) \notin ToSet(PathTo(m_best_header))
    /\ ChainWork(Last(headers)) < minimum_required_work

\* A non-empty headers message while no sync is in progress.
ReceiveUnsynced(msg) ==
    LET full == Len(msg) = max_headers_result
    IN /\ IF LowWork(msg)
          THEN StartLowWorkSync(msg, full)
          ELSE ProcessHeaders(msg, FALSE, full, NoSync)
       /\ released' = NothingReleased

\* A non-empty headers message while a sync is in progress.  When the sync
\* fails the message is processed as if there had been none.  What
\* m_headers_presync_stats keeps for the progress report is left out.
ReceiveSyncing(msg) ==
    LET full == Len(msg) = max_headers_result
    IN \E r \in {ProcessNextHeaders(sync, msg, full)} :
       /\ IF ~r.success /\ LowWork(msg)
          THEN StartLowWorkSync(msg, full)
          ELSE IF r.success /\ r.headers = <<>>
          THEN /\ sync' = r.after
               /\ request' = IF r.more THEN NextHeadersRequest(r.after) ELSE NoHeader
               /\ UNCHANGED index
          ELSE ProcessHeaders(IF r.success THEN r.headers ELSE msg, r.success, full, r.after)
       /\ released' = IF r.headers = <<>> THEN NothingReleased
                      ELSE [headers |-> r.headers, start |-> r.from.start,
                            presync |-> r.from.last, tip |-> r.from.last_hash,
                            offset |-> r.from.offset, salt |-> r.from.salt,
                            refused |-> r.from.refused]

Receive(msg) ==
    \/ sync.state = "none" /\ ReceiveUnsynced(msg)
    \/ sync.state # "none" /\ ReceiveSyncing(msg)

\* An empty headers message clears the sync.
ReceiveEmpty ==
    /\ sync' = NoSync /\ request' = NoHeader /\ released' = NothingReleased
    /\ UNCHANGED index

\* InvalidChainFound: the block of h is invalid.  It and what is known above it
\* are marked and the best header is chosen anew.
InvalidChainFound(h) ==
    /\ h \in m_block_index \cap Unsound /\ h \notin failed
    /\ peer_tip = NoHeader
    /\ failed' = failed \cup {d \in m_block_index \ {Root} : h \in ToSet(Path[d])}
    /\ \E best \in m_block_index \ failed' :
        /\ \A d \in m_block_index \ failed' : ChainWork(d) <= ChainWork(best)
        /\ m_best_header' = IF m_best_header \in failed' THEN best ELSE m_best_header
    /\ released' = NothingReleased
    /\ UNCHANGED <<m_block_index, sync, request, peer_tip>>
-----------------------------------------------------------------------------
(* The peer. *)

\* Any peer: any run of consecutive headers, at any time.
Messages ==
    UNION {{SubSeq(Path[h], i, Len(Path[h])) : i \in 1..Len(Path[h])} : h \in Headers}

AnyMessage ==
    /\ peer_tip = NoHeader
    /\ \/ ReceiveEmpty
       \/ \E msg \in Messages :
            /\ Len(msg) <= max_headers_result
            /\ Receive(msg)
    /\ UNCHANGED peer_tip

\* An honest peer answers the getheaders with what follows on its chain.
HonestAnswer ==
    /\ peer_tip # NoHeader /\ request # NoHeader
    /\ LET from == IF request \in ToSet(Path[peer_tip]) THEN Height(request) ELSE 0
           upto == IF from + max_headers_result < Height(peer_tip)
                   THEN from + max_headers_result ELSE Height(peer_tip)
           msg  == SubSeq(Path[peer_tip], from + 1, upto)
       IN IF msg = <<>> THEN ReceiveEmpty
          ELSE Receive(msg)
    /\ UNCHANGED peer_tip

\* The chain of an honest peer grows while we synchronise with it.
PeerExtends ==
    /\ peer_tip # NoHeader /\ request # NoHeader
    /\ \E h \in Headers : Parent(h) = peer_tip /\ peer_tip' = h
    /\ UNCHANGED <<index, sync, request, released>>

Next ==
    \/ AnyMessage \/ HonestAnswer \/ PeerExtends
    \/ \E h \in Headers : InvalidChainFound(h)

Spec == Init /\ [][Next]_vars
-----------------------------------------------------------------------------
\* Headers that REDOWNLOAD hands out for permanent storage continue the start of
\* the sync and what was handed out before; what they build on is in the index,
\* unless the index has refused a header below them meanwhile.  And they have
\* earned it: the redownloaded chain itself reached the threshold, or the chain
\* seen in PRESYNC did, every commitment up to the last redownloaded header was
\* the same on both chains, and each header has a full buffer of such headers on
\* top of it ("once they have some target number of verified commitments on
\* top", headerssync.h:95).
ReleasedEarned ==
    LET r == released IN
    r.headers # <<>> =>
        /\ \A i \in DOMAIN r.headers :
             /\ r.headers[i] \in Headers
             /\ i > 1 => Parent(r.headers[i]) = r.headers[i - 1]
             /\ r.headers[i] \in ToSet(Path[r.tip])
        /\ IF r.refused = NoHeader THEN Parent(r.headers[1]) \in m_block_index
           ELSE r.refused \in ToSet(PathTo(Parent(r.headers[1])))
        /\ \/ ChainWork(r.tip) >= minimum_required_work
           \/ /\ ChainWork(r.presync) >= minimum_required_work
              /\ \A i \in DOMAIN r.headers :
                    Height(r.tip) - Height(r.headers[i]) >= redownload_buffer_size
              /\ \A k \in (Height(r.start) + 1)..Height(r.tip) :
                    AtCommitment(r, k) =>
                        /\ k <= Height(r.presync)
                        /\ Commitment(r, Path[r.tip][k]) = Commitment(r, Path[r.presync][k])

\* Between messages a sync holds no more than m_max_commitments bits and, in
\* REDOWNLOAD, exactly the bits of the heights still to be verified and at most
\* redownload_buffer_size headers (the memory bounds of headerssync.h:237).
MemoryBounded ==
    sync.state # "none" =>
        /\ Len(sync.commitments) <= m_max_commitments
        /\ Len(sync.buffer) <= redownload_buffer_size
        /\ sync.state = "REDOWNLOAD" =>
             Len(sync.commitments) =
                Cardinality({k \in (Height(sync.last_hash) + 1)..Height(sync.last) :
                                AtCommitment(sync, k)})

\* A sync with an honest peer whose chain has enough work is never given up: it
\* goes on from the same start, or ends with a header of enough work accepted,
\* whatever the salt and the offset, and also when the chain grew between the
\* two downloads ("we don't want to return failure ... just because we ran out
\* of commitments", headerssync.cpp:254).  When the peer is asked for nothing
\* more its whole chain has been accepted.
HonestSyncCompletes ==
    [][peer_tip # NoHeader =>
        /\ sync.state # "none" /\ sync'.state = "none" =>
               ChainWork(m_best_header') >= minimum_required_work
        /\ sync.state = "REDOWNLOAD" => sync'.state # "PRESYNC"
        /\ request' = NoHeader => peer_tip' \in m_block_index']_vars
=============================================================================
