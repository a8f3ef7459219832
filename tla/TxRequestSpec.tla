---------------------------- MODULE TxRequestSpec ----------------------------
(***************************************************************************)
(* What TxRequestTracker promises its caller (the specification in the     *)
(* comment of the class, txrequest.h): an announcement is a candidate,     *)
(* requested or completed, and what GetRequestable returns is defined from *)
(* the announcements alone.  How the best candidate of a transaction is    *)
(* kept up to date is left to TxRequest.                                   *)
(***************************************************************************)
EXTENDS Integers, FiniteSets

CONSTANTS
    Peers,         \* NodeIds
    TxHashes,      \* txids and wtxids
    LowBits,       \* the salted hash of (txhash, peer), the low bits of a priority
    PreferredBit,  \* the weight of m_preferred in a priority
    Times,         \* values of the clock
    NoAnn,         \* no announcement
    NoCall         \* no call in progress

VARIABLES
    ann,   \* txhash -> peer -> announcement or NoAnn
    seq,   \* number of the next announcement
    call,  \* the call in progress: a DisconnectedPeer or a GetRequestable
    ret    \* what GetRequestable returned, until the next call

vars == <<ann, seq, call, ret>>

\* PriorityComputer.
Priority(t, p, preferred) == LowBits[t][p] + IF preferred THEN PreferredBit ELSE 0

Empty == [p \in Peers |-> NoAnn]
In(f, S) == {p \in Peers : f[p] # NoAnn /\ f[p].state \in S}

\* The transactions S sorted by their sequence numbers.
InOrder(S, number) ==
    CHOOSE s \in [1..Cardinality(S) -> S] :
        \A i, j \in 1..Cardinality(S) : i < j => number[s[i]] < number[s[j]]

\* Candidates for t whose reqtime has passed.
Viable(t, now) == {p \in In(ann[t], {"CANDIDATE"}) : ann[t][p].time <= now}

\* What may be requested from p: no other request is outstanding and no viable
\* candidate has a higher priority.
Requestable(p, now) ==
    {t \in TxHashes :
        /\ In(ann[t], {"REQUESTED"}) = {}
        /\ p \in Viable(t, now)
        /\ \A q \in Viable(t, now) : Priority(t, q, ann[t][q].preferred)
                                     <= Priority(t, p, ann[t][p].preferred)}

\* The announcements of a transaction once that of p has failed; failed ones
\* are forgotten when nothing else is left.
Failed(f, p) ==
    IF In(f, {"CANDIDATE", "REQUESTED"}) \subseteq {p} /\ f[p].state # "COMPLETED"
    THEN Empty ELSE [f EXCEPT ![p] = [f[p] EXCEPT !.state = "COMPLETED"]]

Init ==
    /\ ann = [t \in TxHashes |-> Empty] /\ seq = 0
    /\ call = NoCall /\ ret = <<>>

ReceivedInv(p, t, preferred, reqtime) ==
    /\ call = NoCall /\ ann[t][p] = NoAnn
    /\ ann' = [ann EXCEPT ![t] = [ann[t] EXCEPT ![p] =
                  [state |-> "CANDIDATE", time |-> reqtime, preferred |-> preferred,
                   seq |-> seq]]]
    /\ seq' = seq + 1
    /\ ret' = <<>>
    /\ UNCHANGED <<call>>

\* A request made of p: an outstanding one to another peer counts as failed.
RequestedTx(p, t, expiry) ==
    /\ call = NoCall /\ p \in In(ann[t], {"CANDIDATE"})
    /\ ann' = [ann EXCEPT ![t] = [q \in Peers |->
                  CASE q = p -> [ann[t][p] EXCEPT !.state = "REQUESTED", !.time = expiry]
                    [] q # p /\ q \in In(ann[t], {"REQUESTED"}) ->
                         [ann[t][q] EXCEPT !.state = "COMPLETED"]
                    [] OTHER -> ann[t][q]]]
    /\ ret' = <<>>
    /\ UNCHANGED <<seq, call>>

ReceivedResponse(p, t) ==
    /\ call = NoCall /\ ann[t][p] # NoAnn
    /\ ann' = [ann EXCEPT ![t] = Failed(ann[t], p)]
    /\ ret' = <<>>
    /\ UNCHANGED <<seq, call>>

ForgetTxHash(t) ==
    /\ call = NoCall
    /\ ann' = [ann EXCEPT ![t] = Empty]
    /\ ret' = <<>>
    /\ UNCHANGED <<seq, call>>

BeginDisconnect(p) ==
    /\ call = NoCall /\ call' = [peer |-> p, now |-> -1]
    /\ ret' = <<>>
    /\ UNCHANGED <<ann, seq>>

\* Every announcement of the peer fails and is forgotten.
Disconnect(t) ==
    /\ call # NoCall /\ call.now = -1 /\ ann[t][call.peer] # NoAnn
    /\ ann' = [ann EXCEPT ![t] = [Failed(ann[t], call.peer) EXCEPT ![call.peer] = NoAnn]]
    /\ UNCHANGED <<seq, call, ret>>

EndDisconnect ==
    /\ call # NoCall /\ call.now = -1
    /\ \A t \in TxHashes : ann[t][call.peer] = NoAnn
    /\ call' = NoCall /\ UNCHANGED <<ann, seq, ret>>

BeginGetRequestable(p, now) ==
    /\ call = NoCall /\ call' = [peer |-> p, now |-> now]
    /\ ret' = <<>>
    /\ UNCHANGED <<ann, seq>>

\* A request whose expiry has passed fails.
Expire(p, t) ==
    /\ call # NoCall /\ p \in In(ann[t], {"REQUESTED"}) /\ ann[t][p].time <= call.now
    /\ ann' = [ann EXCEPT ![t] = Failed(ann[t], p)]
    /\ UNCHANGED <<seq, call, ret>>

EndGetRequestable ==
    /\ call # NoCall /\ call.now # -1
    /\ \A t \in TxHashes : \A p \in In(ann[t], {"REQUESTED"}) : ann[t][p].time > call.now
    /\ LET best == Requestable(call.peer, call.now)
       IN  ret' = InOrder(best, [t \in best |-> ann[t][call.peer].seq])
    /\ call' = NoCall /\ UNCHANGED <<ann, seq>>

Next ==
    \/ \E p \in Peers, t \in TxHashes :
        \/ \E preferred \in BOOLEAN, time \in Times : ReceivedInv(p, t, preferred, time)
        \/ \E time \in Times : RequestedTx(p, t, time)
        \/ ReceivedResponse(p, t)
        \/ Expire(p, t)
    \/ \E t \in TxHashes : ForgetTxHash(t) \/ Disconnect(t)
    \/ \E p \in Peers : BeginDisconnect(p) \/ \E now \in Times : BeginGetRequestable(p, now)
    \/ EndDisconnect \/ EndGetRequestable

Spec == Init /\ [][Next]_vars
=============================================================================
