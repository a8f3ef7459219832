CONSTANTS
    p1 = p1
    p2 = p2
    p3 = p3
    t1 = t1
    t2 = t2
    Peers = {p1, p2, p3}
    TxHashes = {t1, t2}
    LowBits <- MCLowBits
    PreferredBit = 4
    Invs <- MCInvs
    Times = {1, 2}
    NoAnn = NoAnn
    NoCall = NoCall
    MaxSequence = 3
SPECIFICATION FairSpec
INVARIANTS
    SanityCheck
    PeerInfoExact
PROPERTIES
    AskedOnce
    ImplementsRules
    CallsReturn
