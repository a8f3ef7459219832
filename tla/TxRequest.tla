------------------------------ MODULE TxRequest ------------------------------
(***************************************************************************)
(* TxRequestTracker (txrequest.cpp): which peer to ask for an announced    *)
(* transaction, and when.                                                  *)
(*                                                                         *)
(* The multi-index container is the function ann.  The ByTxHash index      *)
(* sorts the announcements of a transaction by state (DELAYED, READY,      *)
(* BEST, REQUESTED, COMPLETED) and READY ones by priority; a neighbour in  *)
(* it is expressed by what that order says of it.  A call that walks over  *)
(* many announcements takes one step for each of them; calls do not        *)
(* overlap, their caller holds m_tx_download_mutex.  The clock of a caller *)
(* may go backwards.  The list of expired requests is for the log and left *)
(* out, and two peers never have the same salted hash for a transaction.   *)
(***************************************************************************)
EXTENDS Integers, FiniteSets

CONSTANTS
    Peers,         \* NodeIds
    TxHashes,      \* txids and wtxids
    LowBits,       \* the salted hash of (txhash, peer), the low bits of a priority
    PreferredBit,  \* the weight of m_preferred in a priority
    Invs,          \* which peer announces what, and whether it is preferred
    Times,         \* values of the clock
    NoAnn,         \* no announcement
    NoCall,        \* no call in progress
    MaxSequence    \* bound on the announcements made

Candidates == {"DELAYED", "READY", "BEST"}
Selected   == {"BEST", "REQUESTED"}      \* IsSelected
Waiting    == {"DELAYED", "REQUESTED"}   \* IsWaiting
Selectable == {"READY", "BEST"}          \* IsSelectable
States     == Candidates \cup {"REQUESTED", "COMPLETED"}

Announcements == [state : States, time : Times, preferred : BOOLEAN, seq : Nat]

ASSUME TxRequestAssumption ==
    /\ IsFiniteSet(Peers) /\ IsFiniteSet(TxHashes)
    /\ PreferredBit \in Nat /\ Times \subseteq Nat /\ MaxSequence \in Nat
    /\ LowBits \in [TxHashes -> [Peers -> 0..(PreferredBit - 1)]]
    /\ \A t \in TxHashes : \A p, q \in Peers : LowBits[t][p] = LowBits[t][q] => p = q
    /\ Invs \subseteq Peers \X TxHashes \X BOOLEAN
    /\ NoAnn \notin [state : States \cup {"CANDIDATE"}, time : Times,
                     preferred : BOOLEAN, seq : Nat]
    /\ NoCall \notin [peer : Peers, now : Times \cup {-1}]

VARIABLES
    ann,                 \* m_index: txhash -> peer -> announcement or NoAnn
    m_peerinfo,
    m_current_sequence,
    pc,                  \* where the call in progress is
    call,                \* its peer and time (-1 for DisconnectedPeer)
    ret                  \* what GetRequestable returned, until the next call

vars == <<ann, m_peerinfo, m_current_sequence, pc, call, ret>>

-----------------------------------------------------------------------------
(* Operations on f, the announcements of one transaction t.                *)

Priority(t, p, preferred) == LowBits[t][p] + IF preferred THEN PreferredBit ELSE 0
PriorityOf(t, f, p) == Priority(t, p, f[p].preferred)

Empty == [p \in Peers |-> NoAnn]
In(f, S) == {p \in Peers : f[p] # NoAnn /\ f[p].state \in S}
SetState(a, s) == [a EXCEPT !.state = s]

\* Mutant: an announcement that becomes ready takes over even from a request.
WinsMutant(t, f, p) ==
    \A q \in In(f, Selectable) : PriorityOf(t, f, p) > PriorityOf(t, f, q)

\* What follows p in the index when it becomes READY: nothing that is better,
\* and no request.
Wins(t, f, p) ==
    /\ In(f, {"REQUESTED"}) = {}
    /\ \A q \in In(f, Selectable) : PriorityOf(t, f, p) > PriorityOf(t, f, q)

\* Mutant: an announcement that is not the best stays DELAYED.
PromoteMutant(t, f, p) ==
    [q \in Peers |->
        IF q = p THEN SetState(f[p], IF Wins(t, f, p) THEN "BEST" ELSE "DELAYED")
        ELSE IF Wins(t, f, p) /\ q \in In(f, {"BEST"}) THEN SetState(f[q], "READY")
        ELSE f[q]]
PromoteCandidateReady(t, f, p) ==
    [q \in Peers |->
        IF q = p THEN SetState(f[p], IF Wins(t, f, p) THEN "BEST" ELSE "READY")
        ELSE IF Wins(t, f, p) /\ q \in In(f, {"BEST"}) THEN SetState(f[q], "READY")
        ELSE f[q]]

\* The READY announcement that precedes the selected one in the index.
NextBest(t, f) ==
    {p \in In(f, {"READY"}) :
        \A q \in In(f, {"READY"}) : PriorityOf(t, f, q) <= PriorityOf(t, f, p)}

ChangeAndReselect(t, f, p, new_state) ==
    [q \in Peers |->
        IF q = p THEN SetState(f[p], new_state)
        ELSE IF f[p].state \in Selected /\ q \in NextBest(t, f) THEN SetState(f[q], "BEST")
        ELSE f[q]]

\* Mutant: announcements that wait for their reqtime are overlooked.
IsOnlyNonCompletedMutant(f, p) == In(f, Selected \cup Selectable) \subseteq {p}
IsOnlyNonCompleted(f, p) == In(f, States \ {"COMPLETED"}) = {p}

MakeCompleted(t, f, p) ==
    IF f[p].state = "COMPLETED" THEN f
    ELSE IF IsOnlyNonCompleted(f, p) THEN Empty
    ELSE ChangeAndReselect(t, f, p, "COMPLETED")

\* The request that a request to another peer replaces.
GivenUp(f, p, q) == f[p].state # "BEST" /\ q \in In(f, {"REQUESTED"})

Requested(f, p, expiry) ==
    [q \in Peers |->
        IF q = p THEN [f[p] EXCEPT !.state = "REQUESTED", !.time = expiry]
        ELSE IF GivenUp(f, p, q) THEN SetState(f[q], "COMPLETED")
        ELSE IF f[p].state # "BEST" /\ q \in In(f, {"BEST"}) THEN SetState(f[q], "READY")
        ELSE f[q]]

-----------------------------------------------------------------------------
(* Erase and Modify keep m_peerinfo up to date.                            *)

Is(a, s) == IF a # NoAnn /\ a.state = s THEN 1 ELSE 0

\* Mutant: an erased announcement stays counted as REQUESTED.
AccountMutant(i, old, new) ==
    IF new = NoAnn
    THEN [i EXCEPT !.m_total = @ - (IF old # NoAnn THEN 1 ELSE 0),
                   !.m_completed = @ - Is(old, "COMPLETED")]
    ELSE [i EXCEPT !.m_completed = @ - Is(old, "COMPLETED") + Is(new, "COMPLETED"),
                   !.m_requested = @ - Is(old, "REQUESTED") + Is(new, "REQUESTED")]
Account(i, old, new) ==
    [m_total     |-> i.m_total - (IF old # NoAnn /\ new = NoAnn THEN 1 ELSE 0),
     m_completed |-> i.m_completed - Is(old, "COMPLETED") + Is(new, "COMPLETED"),
     m_requested |-> i.m_requested - Is(old, "REQUESTED") + Is(new, "REQUESTED")]

\* The announcements of t become f.
Store(t, f) ==
    /\ ann' = [ann EXCEPT ![t] = f]
    /\ m_peerinfo' = [p \in Peers |-> Account(m_peerinfo[p], ann[t][p], f[p])]

-----------------------------------------------------------------------------
Init ==
    /\ ann = [t \in TxHashes |-> Empty]
    /\ m_peerinfo = [p \in Peers |-> [m_total |-> 0, m_completed |-> 0, m_requested |-> 0]]
    /\ m_current_sequence = 0
    /\ pc = "idle" /\ call = NoCall /\ ret = <<>>

\* An announcement that exists already, in any state, is ignored.
ReceivedInv(p, t, preferred, reqtime) ==
    /\ pc = "idle" /\ m_current_sequence < MaxSequence
    /\ ann[t][p] = NoAnn
    /\ ann' = [ann EXCEPT ![t] = [ann[t] EXCEPT ![p] =
                  [state |-> "DELAYED", time |-> reqtime, preferred |-> preferred,
                   seq |-> m_current_sequence]]]
    /\ m_peerinfo' = [m_peerinfo EXCEPT ![p].m_total = @ + 1]
    /\ m_current_sequence' = m_current_sequence + 1
    /\ ret' = <<>>
    /\ UNCHANGED <<pc, call>>

\* Mutant: a peer may be asked again after its first answer.
MayRequestMutant(p, t) == p \in In(ann[t], States)
MayRequest(p, t) == p \in In(ann[t], Candidates)

\* Without a candidate announcement the call does nothing.
RequestedTx(p, t, expiry) ==
    /\ pc = "idle" /\ MayRequest(p, t)
    /\ Store(t, Requested(ann[t], p, expiry))
    /\ ret' = <<>>
    /\ UNCHANGED <<m_current_sequence, pc, call>>

ReceivedResponse(p, t) ==
    /\ pc = "idle" /\ ann[t][p] # NoAnn
    /\ Store(t, MakeCompleted(t, ann[t], p))
    /\ ret' = <<>>
    /\ UNCHANGED <<m_current_sequence, pc, call>>

ForgetTxHash(t) ==
    /\ pc = "idle"
    /\ Store(t, Empty)
    /\ ret' = <<>>
    /\ UNCHANGED <<m_current_sequence, pc, call>>

-----------------------------------------------------------------------------
DisconnectedPeer(p) ==
    /\ pc = "idle" /\ pc' = "disconnect" /\ call' = [peer |-> p, now |-> -1]
    /\ ret' = <<>>
    /\ UNCHANGED <<ann, m_peerinfo, m_current_sequence>>

\* One announcement of the peer.  Other transactions are not affected, so the
\* order does not matter.
DisconnectOne(t) ==
    /\ pc = "disconnect" /\ ann[t][call.peer] # NoAnn
    /\ Store(t, [MakeCompleted(t, ann[t], call.peer) EXCEPT ![call.peer] = NoAnn])
    /\ UNCHANGED <<m_current_sequence, pc, call, ret>>

DisconnectDone ==
    /\ pc = "disconnect" /\ \A t \in TxHashes : ann[t][call.peer] = NoAnn
    /\ pc' = "idle" /\ call' = NoCall
    /\ UNCHANGED <<ann, m_peerinfo, m_current_sequence, ret>>

-----------------------------------------------------------------------------
(* GetRequestable: the two loops of SetTimePoint and the selection.        *)

GetRequestable(p, now) ==
    /\ pc = "idle" /\ pc' = "forward" /\ call' = [peer |-> p, now |-> now]
    /\ ret' = <<>>
    /\ UNCHANGED <<ann, m_peerinfo, m_current_sequence>>

\* The announcements in S, of all transactions.
All(S) == {x \in TxHashes \X Peers : x[2] \in In(ann[x[1]], S)}
TimeOf(x) == ann[x[1]][x[2]].time

\* The first loop takes the waiting announcement with the earliest time.
SetTimePointForward(t, p) ==
    /\ pc = "forward"
    /\ <<t, p>> \in All(Waiting) /\ ann[t][p].time <= call.now
    /\ \A x \in All(Waiting) : ann[t][p].time <= TimeOf(x)
    /\ Store(t, IF ann[t][p].state = "DELAYED" THEN PromoteCandidateReady(t, ann[t], p)
                                               ELSE MakeCompleted(t, ann[t], p))
    /\ UNCHANGED <<m_current_sequence, pc, call, ret>>

Due(x) == TimeOf(x) <= call.now

SetTimePointTurn ==
    /\ pc = "forward" /\ \A x \in All(Waiting) : ~Due(x)
    /\ pc' = "back" /\ UNCHANGED <<ann, m_peerinfo, m_current_sequence, call, ret>>

\* The second loop takes the selectable announcement with the latest time.
SetTimePointBack(t, p) ==
    /\ pc = "back"
    /\ <<t, p>> \in All(Selectable) /\ ann[t][p].time > call.now
    /\ \A x \in All(Selectable) : TimeOf(x) <= ann[t][p].time
    /\ Store(t, ChangeAndReselect(t, ann[t], p, "DELAYED"))
    /\ UNCHANGED <<m_current_sequence, pc, call, ret>>

\* The transactions S sorted by their sequence numbers.
InOrder(S, number) ==
    CHOOSE s \in [1..Cardinality(S) -> S] :
        \A i, j \in 1..Cardinality(S) : i < j => number[s[i]] < number[s[j]]

GetRequestableReturn ==
    /\ pc = "back" /\ \A x \in All(Selectable) : Due(x)
    /\ LET best == {t \in TxHashes : call.peer \in In(ann[t], {"BEST"})}
       IN  ret' = InOrder(best, [t \in best |-> ann[t][call.peer].seq])
    /\ pc' = "idle" /\ call' = NoCall
    /\ UNCHANGED <<ann, m_peerinfo, m_current_sequence>>

-----------------------------------------------------------------------------
\* The steps of a call in progress.
Walk ==
    \/ \E t \in TxHashes, p \in Peers : SetTimePointForward(t, p) \/ SetTimePointBack(t, p)
    \/ \E t \in TxHashes : DisconnectOne(t)
    \/ DisconnectDone \/ SetTimePointTurn \/ GetRequestableReturn

Next ==
    \/ \E p \in Peers, t \in TxHashes :
        \/ \E preferred \in BOOLEAN, time \in Times :
            <<p, t, preferred>> \in Invs /\ ReceivedInv(p, t, preferred, time)
        \/ \E time \in Times : RequestedTx(p, t, time)
        \/ ReceivedResponse(p, t)
    \/ \E t \in TxHashes : ForgetTxHash(t)
    \/ \E p \in Peers : DisconnectedPeer(p) \/ \E now \in Times : GetRequestable(p, now)
    \/ Walk

Spec == Init /\ [][Next]_vars

\* A call runs to its end.
FairSpec == Spec /\ WF_vars(Walk)

-----------------------------------------------------------------------------
TypeOK ==
    /\ ann \in [TxHashes -> [Peers -> Announcements \cup {NoAnn}]]
    /\ m_peerinfo \in [Peers -> [m_total : Nat, m_completed : Nat, m_requested : Nat]]
    /\ m_current_sequence \in 0..MaxSequence
    /\ pc \in {"idle", "forward", "back", "disconnect"}
    /\ call \in [peer : Peers, now : Times \cup {-1}] \cup {NoCall}
    /\ pc \in {"forward", "back"} => call # NoCall /\ call.now \in Times
    /\ pc = "disconnect" => call # NoCall /\ call.now = -1
    /\ pc = "idle" => call = NoCall

\* What SanityCheck asserts of the announcements f of t: not all are COMPLETED;
\* at most one is selected, exactly one when one is READY; and no READY one has
\* a higher priority than the BEST one.
Sane(t, f) ==
    /\ In(f, States) # {} => In(f, States \ {"COMPLETED"}) # {}
    /\ \A p, q \in In(f, Selected) : p = q
    /\ In(f, {"READY"}) # {} => In(f, Selected) # {}
    /\ \A p \in In(f, {"BEST"}), q \in In(f, {"READY"}) :
           PriorityOf(t, f, q) <= PriorityOf(t, f, p)

\* SanityCheck holds between any two steps of any sequence of calls, the
\* iterations of SetTimePoint and DisconnectedPeer included.
SanityCheck == \A t \in TxHashes : Sane(t, ann[t])

\* m_peerinfo is what RecomputePeerInfo computes from the index, so the counts
\* that limit the requests to a peer (CountInFlight, CountCandidates) are right.
PeerInfoExact ==
    \A p \in Peers :
        LET Count(S) == Cardinality({t \in TxHashes : p \in In(ann[t], S)}) IN
        m_peerinfo[p] = [m_total |-> Count(States), m_completed |-> Count({"COMPLETED"}),
                         m_requested |-> Count({"REQUESTED"})]

\* A peer is asked at most once for an announcement: it moves from candidate
\* to REQUESTED to COMPLETED and never back, until it is forgotten.
Stage(a) == IF a.state \in Candidates THEN 1 ELSE IF a.state = "REQUESTED" THEN 2 ELSE 3
AskedOnce ==
    [][\A t \in TxHashes, p \in Peers :
        ann[t][p] # NoAnn /\ ann'[t][p] # NoAnn => Stage(ann[t][p]) <= Stage(ann'[t][p])]_vars

\* The states the caller can tell apart.
Visible(a) == IF a # NoAnn /\ a.state \in Candidates THEN SetState(a, "CANDIDATE") ELSE a

Rules == INSTANCE TxRequestSpec WITH
    ann <- [t \in TxHashes |-> [p \in Peers |-> Visible(ann[t][p])]],
    seq <- m_current_sequence

\* The tracker implements the rules in the comment of the class: in particular
\* GetRequestable returns exactly the transactions for which the peer is the
\* best viable candidate and no request is outstanding, in announcement order.
ImplementsRules == Rules!Spec

\* The loops over an index that they change come to an end.
CallsReturn == pc # "idle" ~> pc = "idle"
=============================================================================
