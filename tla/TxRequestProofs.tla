--------------------------- MODULE TxRequestProofs ----------------------------
(***************************************************************************)
(* The theorems about TxRequestTracker: what the operations do to the      *)
(* announcements of one transaction, the invariant of the index, what the  *)
(* counters of m_peerinfo and the requests to a peer are, and that the     *)
(* tracker implements TxRequestSpec.                                       *)
(***************************************************************************)
EXTENDS TxRequest, WellFoundedInduction, TLAPS

-----------------------------------------------------------------------------
(* The announcements of one transaction.                                   *)

Row == [Peers -> Announcements \cup {NoAnn}]

\* The priorities of the announcements of a transaction are different numbers.
LEMMA PriorityFacts ==
    ASSUME NEW t \in TxHashes, NEW f \in Row,
           NEW p \in Peers, f[p] # NoAnn, NEW q \in Peers, f[q] # NoAnn
    PROVE  /\ PriorityOf(t, f, p) \in 0..(2 * PreferredBit)
           /\ PriorityOf(t, f, p) = PriorityOf(t, f, q) => p = q
<1>1. f[p].preferred \in BOOLEAN /\ f[q].preferred \in BOOLEAN
    BY Zenon DEF Row, Announcements
<1>2. /\ LowBits[t][p] \in 0..(PreferredBit - 1) /\ LowBits[t][q] \in 0..(PreferredBit - 1)
      /\ PreferredBit \in Nat
      /\ LowBits[t][p] = LowBits[t][q] => p = q
    BY TxRequestAssumption
<1> QED BY <1>1, <1>2 DEF PriorityOf, Priority

\* A set of natural numbers has a least element.
LEMMA LeastOf ==
    ASSUME NEW T \in SUBSET Nat, T # {}
    PROVE  \E m \in T : \A n \in T : m <= n
<1>1. \E m \in T : \A n \in T : ~(<<n, m>> \in OpToRel(<, Nat))
    BY NatLessThanWellFounded, WFMin, Zenon
<1>2. PICK m \in T : \A n \in T : ~(<<n, m>> \in OpToRel(<, Nat))
    BY Zenon, <1>1
<1>3. ASSUME NEW n \in T PROVE m <= n
    <2>1. ~(<<n, m>> \in {x \in Nat \X Nat : x[1] < x[2]})
        BY <1>2, Zenon DEF OpToRel
    <2> QED BY <2>1
<1> QED BY Zenon, <1>3

\* The neighbour ChangeAndReselect looks at exists and is unique.
LEMMA NextBestUnique ==
    ASSUME NEW t \in TxHashes, NEW f \in Row
    PROVE  /\ In(f, {"READY"}) # {} => NextBest(t, f) # {}
           /\ \A p, q \in NextBest(t, f) : p = q
<1> DEFINE Gap(q) == 2 * PreferredBit - PriorityOf(t, f, q)
           T == {Gap(q) : q \in In(f, {"READY"})}
<1>1. \A q \in In(f, {"READY"}) : PriorityOf(t, f, q) \in 0..(2 * PreferredBit)
    BY Zenon, PriorityFacts DEF In
<1>2. PreferredBit \in Nat
    BY Zenon, TxRequestAssumption
<1>3. ASSUME In(f, {"READY"}) # {} PROVE NextBest(t, f) # {}
    <2>1. T \in SUBSET Nat /\ T # {}
        BY <1>1, <1>2, <1>3
    <2>2. PICK m \in T : \A n \in T : m <= n
        BY Zenon, <2>1, LeastOf
    <2>3. PICK p \in In(f, {"READY"}) : m = Gap(p)
        BY Zenon, <2>2
    <2>4. ASSUME NEW q \in In(f, {"READY"})
          PROVE  PriorityOf(t, f, q) <= PriorityOf(t, f, p)
        <3>1. Gap(p) <= Gap(q)
            BY Zenon, <2>2, <2>3
        <3> QED BY <1>1, <1>2, <3>1
    <2> QED BY Zenon, <2>3, <2>4 DEF NextBest
<1>4. ASSUME NEW p \in NextBest(t, f), NEW q \in NextBest(t, f) PROVE p = q
    <2>1. /\ p \in In(f, {"READY"}) /\ q \in In(f, {"READY"})
          /\ PriorityOf(t, f, q) <= PriorityOf(t, f, p)
          /\ PriorityOf(t, f, p) <= PriorityOf(t, f, q)
        BY Zenon, <1>4 DEF NextBest
    <2>2. PriorityOf(t, f, p) = PriorityOf(t, f, q)
        BY <2>1, <1>1, <1>2
    <2> QED BY Zenon, <2>1, <2>2, PriorityFacts DEF In
<1> QED BY Zenon, <1>3, <1>4

\* The state of the announcement of q, "NONE" without one.
St(f, q) == IF f[q] = NoAnn THEN "NONE" ELSE f[q].state

\* Membership of a set of announcements is a matter of their states.
LEMMA InFacts ==
    ASSUME NEW f \in Row, NEW S \in SUBSET States, NEW q \in Peers
    PROVE  q \in In(f, S) <=> St(f, q) \in S
BY Zenon DEF In, St, States, Candidates

\* The sets of announcements the operations look at.
LEMMA InSets ==
    ASSUME NEW f \in Row
    PROVE  /\ \A q : q \in In(f, {"REQUESTED"}) <=> q \in Peers /\ St(f, q) = "REQUESTED"
           /\ \A q : q \in In(f, {"BEST"}) <=> q \in Peers /\ St(f, q) = "BEST"
           /\ \A q : q \in In(f, {"READY"}) <=> q \in Peers /\ St(f, q) = "READY"
           /\ \A q : q \in In(f, Selectable) <=> q \in Peers /\ St(f, q) \in Selectable
           /\ \A q : q \in In(f, Selected) <=> q \in Peers /\ St(f, q) \in Selected
           /\ \A q : q \in In(f, Candidates) <=> q \in Peers /\ St(f, q) \in Candidates
           /\ \A q : q \in In(f, States) <=> q \in Peers /\ St(f, q) # "NONE"
           /\ \A q : q \in In(f, States \ {"COMPLETED"}) <=>
                     q \in Peers /\ St(f, q) \notin {"NONE", "COMPLETED"}
<1>1. \A q \in Peers : St(f, q) \in States \cup {"NONE"}
    BY Zenon DEF St, Row, Announcements
<1>2. \A S \in SUBSET States : \A q : q \in In(f, S) <=> q \in Peers /\ St(f, q) \in S
    BY Zenon, InFacts DEF In
<1>3. /\ States \in SUBSET States /\ States \ {"COMPLETED"} \in SUBSET States
      /\ Selected \in SUBSET States /\ {"READY"} \in SUBSET States
      /\ {"BEST"} \in SUBSET States /\ {"REQUESTED"} \in SUBSET States
      /\ Selectable \in SUBSET States /\ Candidates \in SUBSET States
    BY Zenon DEF States, Selected, Candidates, Selectable
<1> QED BY Zenon, <1>1, <1>2, <1>3 DEF States, Candidates

\* Sane, one announcement at a time.
LEMMA SaneFacts ==
    ASSUME NEW t \in TxHashes, NEW f \in Row
    PROVE  Sane(t, f) <=>
           /\ \A q \in Peers : St(f, q) # "NONE" =>
                  \E p \in Peers : St(f, p) \notin {"NONE", "COMPLETED"}
           /\ \A p, q \in Peers : St(f, p) \in Selected /\ St(f, q) \in Selected => p = q
           /\ \A q \in Peers : St(f, q) = "READY" => \E p \in Peers : St(f, p) \in Selected
           /\ \A p, q \in Peers : St(f, p) = "BEST" /\ St(f, q) = "READY" =>
                  PriorityOf(t, f, q) <= PriorityOf(t, f, p)
BY Zenon, InSets DEF Sane

\* A change of states leaves the priorities as they are.
LEMMA SamePriority ==
    ASSUME NEW t, NEW f, NEW g, NEW q, g[q].preferred = f[q].preferred
    PROVE  PriorityOf(t, g, q) = PriorityOf(t, f, q)
BY Zenon DEF PriorityOf

\* SetState changes the state and nothing else.
LEMMA SetStateFacts ==
    ASSUME NEW a \in Announcements, NEW s \in States
    PROVE  /\ SetState(a, s) \in Announcements /\ SetState(a, s) # NoAnn
           /\ SetState(a, s).state = s /\ SetState(a, s).preferred = a.preferred
           /\ SetState(a, s).seq = a.seq /\ SetState(a, s).time = a.time
<1>1. SetState(a, s) \in Announcements
    BY Zenon DEF SetState, Announcements
<1>2. SetState(a, s) # NoAnn
    BY Zenon, <1>1, TxRequestAssumption DEF Announcements
<1> QED BY Zenon, <1>1, <1>2 DEF SetState, Announcements

\* What a caller sees does not depend on which kind of candidate it is.
LEMMA VisibleFacts ==
    ASSUME NEW a \in Announcements, NEW s \in States, a.state \in Candidates, s \in Candidates
    PROVE  Visible(SetState(a, s)) = Visible(a)
<1>1. SetState(a, s) # NoAnn /\ SetState(a, s).state = s /\ a # NoAnn
    BY SetStateFacts, TxRequestAssumption DEF Announcements
<1>2. SetState(SetState(a, s), "CANDIDATE") = SetState(a, "CANDIDATE")
    BY Zenon DEF SetState, Announcements
<1> QED BY Zenon, <1>1, <1>2 DEF Visible

-----------------------------------------------------------------------------
(* What the operations on a row do to it.                                  *)

VisibleRow(f) == [q \in Peers |-> Visible(f[q])]

\* No announcement appears and none goes back.
After(f, g) ==
    \A q \in Peers : g[q] # NoAnn => f[q] # NoAnn /\ Stage(f[q]) <= Stage(g[q])

\* PromoteCandidateReady keeps the invariants and is not seen by the caller.
LEMMA PromoteRow ==
    ASSUME NEW t \in TxHashes, NEW f \in Row, Sane(t, f),
           NEW p \in Peers, St(f, p) = "DELAYED"
    PROVE  /\ PromoteCandidateReady(t, f, p) \in Row
           /\ Sane(t, PromoteCandidateReady(t, f, p))
           /\ After(f, PromoteCandidateReady(t, f, p))
           /\ VisibleRow(PromoteCandidateReady(t, f, p)) = VisibleRow(f)
<1> DEFINE g == PromoteCandidateReady(t, f, p)
           W == Wins(t, f, p)
<1>0. f[p] # NoAnn /\ f[p] \in Announcements /\ f[p].state = "DELAYED"
    BY Zenon DEF St, Row
<1>1. \A q \in Peers : g[q] = IF q = p THEN SetState(f[p], IF W THEN "BEST" ELSE "READY")
                              ELSE IF W /\ St(f, q) = "BEST" THEN SetState(f[q], "READY")
                              ELSE f[q]
    BY InFacts DEF PromoteCandidateReady, States, Candidates
<1>2. {"BEST", "READY"} \subseteq States /\ {"BEST", "READY", "DELAYED"} = Candidates
    BY Zenon DEF States, Candidates
<1>3. ASSUME NEW q \in Peers
      PROVE  /\ g[q] \in Announcements \cup {NoAnn}
             /\ St(g, q) = IF q = p THEN IF W THEN "BEST" ELSE "READY"
                           ELSE IF W /\ St(f, q) = "BEST" THEN "READY" ELSE St(f, q)
             /\ g[q] # NoAnn => g[q].preferred = f[q].preferred
             /\ g[q] # NoAnn <=> f[q] # NoAnn
             /\ Visible(g[q]) = Visible(f[q])
    <2>1. CASE q = p
        <3> DEFINE s == IF W THEN "BEST" ELSE "READY"
        <3>1. g[p] = SetState(f[p], s) /\ s \in States /\ s \in Candidates
            BY Zenon, <1>1, <1>2
        <3>2. f[p].state \in Candidates
            BY Zenon, <1>0, <1>2
        <3> HIDE DEF s
        <3>3. Visible(SetState(f[p], s)) = Visible(f[p])
            BY Zenon, <1>0, <3>1, <3>2, VisibleFacts
        <3>4. /\ SetState(f[p], s) \in Announcements /\ SetState(f[p], s) # NoAnn
              /\ SetState(f[p], s).state = s
              /\ SetState(f[p], s).preferred = f[p].preferred
            BY Zenon, <1>0, <3>1, SetStateFacts
        <3> QED BY Zenon, <1>0, <2>1, <3>1, <3>3, <3>4 DEF St, s
    <2>2. CASE q # p /\ W /\ St(f, q) = "BEST"
        <3>1. f[q] # NoAnn /\ f[q] \in Announcements /\ f[q].state = "BEST"
            BY Zenon, <2>2 DEF St, Row
        <3> QED BY <1>1, <1>2, <2>2, <3>1, SetStateFacts, VisibleFacts DEF St
    <2>3. CASE q # p /\ ~(W /\ St(f, q) = "BEST")
        <3>1. g[q] = f[q]
            BY Zenon, <1>1, <2>3
        <3> QED BY Zenon, <2>3, <3>1 DEF St, Row
    <2> QED BY Zenon, <2>1, <2>2, <2>3
<1>4. g \in Row
    BY Zenon, <1>3 DEF Row, PromoteCandidateReady
<1>5. \A q \in Peers : St(g, q) # "NONE" =>
          PriorityOf(t, g, q) = PriorityOf(t, f, q) /\ PriorityOf(t, f, q) \in Int
    BY <1>3, SamePriority, PriorityFacts DEF St
<1>6. /\ W => \A q \in Peers : St(f, q) # "REQUESTED"
      /\ W => \A q \in Peers : St(f, q) \in Selectable =>
                                   PriorityOf(t, f, p) > PriorityOf(t, f, q)
      /\ ~W => (\E q \in Peers : St(f, q) = "REQUESTED") \/
               \E q \in Peers : St(f, q) \in Selectable
    BY Zenon, InSets DEF Wins
<1>7. /\ \A q \in Peers : St(f, q) # "NONE" =>
             \E r \in Peers : St(f, r) \notin {"NONE", "COMPLETED"}
      /\ \A q, r \in Peers : St(f, q) \in Selected /\ St(f, r) \in Selected => q = r
      /\ \A q \in Peers : St(f, q) = "READY" => \E r \in Peers : St(f, r) \in Selected
      /\ \A q, r \in Peers : St(f, q) = "BEST" /\ St(f, r) = "READY" =>
             PriorityOf(t, f, r) <= PriorityOf(t, f, q)
    BY Zenon, SaneFacts
<1>8. Sane(t, g)
    <2>1. \A q \in Peers : St(g, q) # "NONE" =>
              \E r \in Peers : St(g, r) \notin {"NONE", "COMPLETED"}
        BY Zenon, <1>3
    <2>2. \A q, r \in Peers : St(g, q) \in Selected /\ St(g, r) \in Selected => q = r
        BY <1>3, <1>6, <1>7 DEF Selected, Selectable
    <2>3. \A q \in Peers : St(g, q) = "READY" => \E r \in Peers : St(g, r) \in Selected
        BY Zenon, <1>3, <1>6, <1>7 DEF Selected, Selectable
    <2>4. \A q, r \in Peers : St(g, q) = "BEST" /\ St(g, r) = "READY" =>
              PriorityOf(t, g, r) <= PriorityOf(t, g, q)
        <3> SUFFICES ASSUME NEW q \in Peers, NEW r \in Peers,
                            St(g, q) = "BEST", St(g, r) = "READY"
                     PROVE  PriorityOf(t, f, r) <= PriorityOf(t, f, q)
            BY Zenon, <1>5
        <3>1. CASE W
            <4>1. q = p /\ r # p /\ St(f, r) \in Selectable
                BY Zenon, <1>3, <1>7, <3>1 DEF Selected, Selectable
            <4> QED BY <1>5, <1>6, <3>1, <4>1
        <3>2. CASE ~W
            <4>1. q # p /\ St(f, q) = "BEST" /\ (r = p \/ St(f, r) = "READY")
                BY Zenon, <1>3, <3>2
            <4>2. CASE r # p
                BY Zenon, <1>7, <4>1, <4>2
            <4>3. CASE r = p
                <5>1. \A q1 \in Peers : St(f, q1) # "REQUESTED"
                    BY Zenon, <1>7, <4>1 DEF Selected
                <5>2. PICK q1 \in Peers : St(f, q1) \in Selectable /\
                                          ~(PriorityOf(t, f, p) > PriorityOf(t, f, q1))
                    <6>1. In(f, {"REQUESTED"}) = {}
                        BY Zenon, <5>1, InSets
                    <6>2. PICK q1 \in In(f, Selectable) :
                              ~(PriorityOf(t, f, p) > PriorityOf(t, f, q1))
                        BY Zenon, <3>2, <6>1 DEF Wins
                    <6> QED BY Zenon, <6>2, InSets
                <5>3. PriorityOf(t, f, q1) <= PriorityOf(t, f, q)
                    BY <1>5, <1>3, <1>7, <4>1, <5>2 DEF Selectable, Selected
                <5>4. q1 # p /\ St(g, q1) # "NONE" /\ St(g, p) # "NONE" /\ St(g, q) # "NONE"
                    BY Zenon, <1>3, <3>2, <4>1, <5>2 DEF Selectable
                <5> QED BY <1>5, <4>3, <5>2, <5>3, <5>4
            <4> QED BY Zenon, <4>2, <4>3
        <3> QED BY Zenon, <3>1, <3>2
    <2> QED BY Zenon, <1>4, <2>1, <2>2, <2>3, <2>4, SaneFacts
<1>9. VisibleRow(g) = VisibleRow(f)
    BY Zenon, <1>3 DEF VisibleRow
<1>10. After(f, g)
    <2> SUFFICES ASSUME NEW q \in Peers, g[q] # NoAnn
                 PROVE  f[q] # NoAnn /\ Stage(f[q]) <= Stage(g[q])
        BY Zenon DEF After
    <2>1. f[q] # NoAnn /\ (f[q].state \in Candidates <=> g[q].state \in Candidates)
          /\ (f[q].state \notin Candidates => g[q].state = f[q].state)
        BY Zenon, <1>0, <1>2, <1>3 DEF St
    <2> QED BY <2>1 DEF Stage
<1> QED BY Zenon, <1>4, <1>8, <1>9, <1>10

\* ChangeAndReselect, for the two states it is called with.
LEMMA ReselectRow ==
    ASSUME NEW t \in TxHashes, NEW f \in Row, Sane(t, f), NEW p \in Peers,
           NEW s \in {"COMPLETED", "DELAYED"}, St(f, p) \notin {"NONE", "COMPLETED"},
           s = "DELAYED" => St(f, p) \in Selectable,
           s = "COMPLETED" => \E r \in Peers \ {p} : St(f, r) \notin {"NONE", "COMPLETED"}
    PROVE  /\ ChangeAndReselect(t, f, p, s) \in Row
           /\ Sane(t, ChangeAndReselect(t, f, p, s))
           /\ After(f, ChangeAndReselect(t, f, p, s))
           /\ \A q \in Peers : Visible(ChangeAndReselect(t, f, p, s)[q]) =
                  IF q = p THEN Visible(SetState(f[p], s)) ELSE Visible(f[q])
           /\ ChangeAndReselect(t, f, p, s)[p] = SetState(f[p], s)
<1> DEFINE g == ChangeAndReselect(t, f, p, s)
           B(q) == St(f, p) \in Selected /\ q \in NextBest(t, f)
<1>0. f[p] # NoAnn /\ f[p] \in Announcements /\ f[p].state = St(f, p) /\ s \in States
    BY Zenon DEF St, Row, States, Candidates
<1>1. \A q \in Peers : g[q] = IF q = p THEN SetState(f[p], s)
                              ELSE IF B(q) THEN SetState(f[q], "BEST") ELSE f[q]
    BY Zenon, <1>0 DEF ChangeAndReselect
<1>2. {"BEST", "READY", "DELAYED"} = Candidates /\ "BEST" \in States
    BY Zenon DEF States, Candidates
<1>3. /\ \A q \in Peers, r \in Peers : B(q) /\ B(r) => q = r
      /\ \A q \in Peers, r \in Peers : B(q) /\ St(f, r) = "READY" =>
             PriorityOf(t, f, r) <= PriorityOf(t, f, q)
      /\ \A q \in Peers : St(f, q) = "READY" /\ St(f, p) \in Selected =>
             \E r \in Peers : B(r)
      /\ \A q \in Peers : B(q) => q # p /\ St(f, q) = "READY"
    <2>1. \A q : q \in NextBest(t, f) => q \in Peers /\ St(f, q) = "READY"
        BY Zenon, InSets DEF NextBest
    <2>2. \A q \in Peers, r \in Peers : B(q) /\ St(f, r) = "READY" =>
              PriorityOf(t, f, r) <= PriorityOf(t, f, q)
        BY Zenon, InSets DEF NextBest
    <2>3. \A q \in Peers : St(f, q) = "READY" => In(f, {"READY"}) # {}
        BY Zenon, InSets
    <2> QED BY <2>1, <2>2, <2>3, NextBestUnique DEF Selected
<1> HIDE DEF B
<1>4. ASSUME NEW q \in Peers
      PROVE  /\ g[q] \in Announcements \cup {NoAnn}
             /\ St(g, q) = IF q = p THEN s ELSE IF B(q) THEN "BEST" ELSE St(f, q)
             /\ g[q] # NoAnn => g[q].preferred = f[q].preferred
             /\ g[q] # NoAnn <=> f[q] # NoAnn
             /\ Visible(g[q]) = IF q = p THEN Visible(SetState(f[p], s)) ELSE Visible(f[q])
    <2>1. CASE q = p
        <3>1. /\ SetState(f[p], s) \in Announcements /\ SetState(f[p], s) # NoAnn
              /\ SetState(f[p], s).state = s
              /\ SetState(f[p], s).preferred = f[p].preferred
            BY Zenon, <1>0, SetStateFacts
        <3> QED BY Zenon, <1>0, <1>1, <2>1, <3>1 DEF St
    <2>2. CASE q # p /\ B(q)
        <3>1. f[q] # NoAnn /\ f[q] \in Announcements /\ f[q].state = "READY"
            BY Zenon, <1>3, <2>2 DEF St, Row
        <3> QED BY <1>1, <1>2, <2>2, <3>1, SetStateFacts, VisibleFacts DEF St
    <2>3. CASE q # p /\ ~B(q)
        <3>1. g[q] = f[q]
            BY Zenon, <1>1, <2>3
        <3> QED BY Zenon, <2>3, <3>1 DEF St, Row
    <2> QED BY Zenon, <2>1, <2>2, <2>3
<1>5. g \in Row
    BY Zenon, <1>4 DEF Row, ChangeAndReselect
<1>6. \A q \in Peers : St(g, q) # "NONE" =>
          PriorityOf(t, g, q) = PriorityOf(t, f, q) /\ PriorityOf(t, f, q) \in Int
    BY <1>4, SamePriority, PriorityFacts DEF St
<1>7. /\ \A q, r \in Peers : St(f, q) \in Selected /\ St(f, r) \in Selected => q = r
      /\ \A q \in Peers : St(f, q) = "READY" => \E r \in Peers : St(f, r) \in Selected
      /\ \A q, r \in Peers : St(f, q) = "BEST" /\ St(f, r) = "READY" =>
             PriorityOf(t, f, r) <= PriorityOf(t, f, q)
    BY Zenon, SaneFacts
<1>8. Sane(t, g)
    <2>1. \A q \in Peers : St(g, q) # "NONE" =>
              \E r \in Peers : St(g, r) \notin {"NONE", "COMPLETED"}
        BY Zenon, <1>4
    <2>2. \A q, r \in Peers : St(g, q) \in Selected /\ St(g, r) \in Selected => q = r
        <3>1. \A q \in Peers : B(q) => St(f, p) \in Selected
            BY Zenon DEF B
        <3>2. s \notin Selected
            BY Zenon DEF Selected
        <3> QED BY Zenon, <1>3, <1>4, <1>7, <3>1, <3>2
    <2>3. \A q \in Peers : St(g, q) = "READY" => \E r \in Peers : St(g, r) \in Selected
        BY Zenon, <1>3, <1>4, <1>7 DEF Selected
    <2>4. \A q, r \in Peers : St(g, q) = "BEST" /\ St(g, r) = "READY" =>
              PriorityOf(t, g, r) <= PriorityOf(t, g, q)
        <3> SUFFICES ASSUME NEW q \in Peers, NEW r \in Peers,
                            St(g, q) = "BEST", St(g, r) = "READY"
                     PROVE  PriorityOf(t, f, r) <= PriorityOf(t, f, q)
            BY Zenon, <1>6
        <3>1. St(f, r) = "READY" /\ q # p /\ (B(q) \/ St(f, q) = "BEST")
            BY Zenon, <1>4
        <3> QED BY Zenon, <1>3, <1>7, <3>1
    <2> QED BY Zenon, <1>5, <2>1, <2>2, <2>3, <2>4, SaneFacts
<1>9. After(f, g)
    <2> SUFFICES ASSUME NEW q \in Peers, g[q] # NoAnn
                 PROVE  f[q] # NoAnn /\ Stage(f[q]) <= Stage(g[q])
        BY Zenon DEF After
    <2>1. f[q] # NoAnn /\ f[q].state = St(f, q) /\ g[q].state = St(g, q)
        BY Zenon, <1>4 DEF St
    <2>2. \/ St(g, q) = "COMPLETED"
          \/ St(f, q) \in Candidates /\ St(g, q) \in Candidates
          \/ St(g, q) = St(f, q)
        BY Zenon, <1>2, <1>3, <1>4 DEF Selectable
    <2> QED BY <1>2, <2>1, <2>2 DEF Stage
<1> QED BY Zenon, <1>1, <1>4, <1>5, <1>8, <1>9

\* An announcement as the caller sees it.
LEMMA VisibleFields ==
    ASSUME NEW a \in Announcements
    PROVE  /\ a # NoAnn /\ Visible(a) # NoAnn
           /\ Visible(a).state = IF a.state \in Candidates THEN "CANDIDATE" ELSE a.state
           /\ Visible(a).time = a.time /\ Visible(a).preferred = a.preferred
           /\ Visible(a).seq = a.seq
<1>1. a # NoAnn
    BY Zenon, TxRequestAssumption DEF Announcements
<1>2. SetState(a, "CANDIDATE") # NoAnn
    <2>1. SetState(a, "CANDIDATE") \in [state : States \cup {"CANDIDATE"}, time : Times,
                                        preferred : BOOLEAN, seq : Nat]
        BY Zenon DEF SetState, Announcements
    <2> QED BY Zenon, <2>1, TxRequestAssumption
<1> QED BY Zenon, <1>1, <1>2 DEF Visible, SetState, Announcements

\* The sets of announcements in the rules are those of the tracker.
LEMMA VisibleSets ==
    ASSUME NEW f \in Row
    PROVE  /\ Rules!In(VisibleRow(f), {"REQUESTED"}) = In(f, {"REQUESTED"})
           /\ Rules!In(VisibleRow(f), {"CANDIDATE"}) = In(f, Candidates)
           /\ Rules!In(VisibleRow(f), {"CANDIDATE", "REQUESTED"})
                  = In(f, States \ {"COMPLETED"})
           /\ \A q \in Peers : VisibleRow(f)[q] = NoAnn <=> f[q] = NoAnn
<1>1. ASSUME NEW q \in Peers
      PROVE  /\ VisibleRow(f)[q] = NoAnn <=> f[q] = NoAnn
             /\ f[q] # NoAnn => VisibleRow(f)[q].state =
                    IF f[q].state \in Candidates THEN "CANDIDATE" ELSE f[q].state
             /\ f[q] # NoAnn => f[q].state \in States
    <2>1. CASE f[q] = NoAnn
        BY Zenon, <2>1 DEF VisibleRow, Visible
    <2>2. CASE f[q] # NoAnn
        <3>1. f[q] \in Announcements
            BY Zenon, <2>2 DEF Row
        <3> QED BY Zenon, <2>2, <3>1, VisibleFields DEF VisibleRow, Announcements
    <2> QED BY Zenon, <2>1, <2>2
<1> QED BY Zenon, <1>1 DEF Rules!In, In, States, Candidates

\* The same, one announcement at a time.
LEMMA VisibleStates ==
    ASSUME NEW f \in Row
    PROVE  /\ \A q : q \in Rules!In(VisibleRow(f), {"REQUESTED"}) <=>
                     q \in Peers /\ St(f, q) = "REQUESTED"
           /\ \A q : q \in Rules!In(VisibleRow(f), {"CANDIDATE"}) <=>
                     q \in Peers /\ St(f, q) \in Candidates
<1>1. /\ Rules!In(VisibleRow(f), {"REQUESTED"}) = In(f, {"REQUESTED"})
      /\ Rules!In(VisibleRow(f), {"CANDIDATE"}) = In(f, Candidates)
    BY Zenon, VisibleSets
<1>2. /\ \A q : q \in In(f, {"REQUESTED"}) <=> q \in Peers /\ St(f, q) = "REQUESTED"
      /\ \A q : q \in In(f, Candidates) <=> q \in Peers /\ St(f, q) \in Candidates
    BY Zenon, InSets
<1> QED BY Zenon, <1>1, <1>2

\* ForgetTxHash leaves a row that keeps the invariants.
LEMMA EmptyRow ==
    ASSUME NEW t \in TxHashes, NEW f \in Row
    PROVE  Empty \in Row /\ Sane(t, Empty) /\ After(f, Empty) /\ VisibleRow(Empty) = Rules!Empty
BY Zenon DEF Empty, Row, Sane, After, In, VisibleRow, Visible, Rules!Empty

\* MakeCompleted does what the rules call a failed announcement.
LEMMA MakeCompletedRow ==
    ASSUME NEW t \in TxHashes, NEW f \in Row, Sane(t, f), NEW p \in Peers, f[p] # NoAnn
    PROVE  /\ MakeCompleted(t, f, p) \in Row
           /\ Sane(t, MakeCompleted(t, f, p))
           /\ After(f, MakeCompleted(t, f, p))
           /\ VisibleRow(MakeCompleted(t, f, p)) = Rules!Failed(VisibleRow(f), p)
<1> DEFINE g == MakeCompleted(t, f, p)
           F == VisibleRow(f)
<1>0. /\ f[p] \in Announcements /\ St(f, p) = f[p].state /\ f[p].state \in States
      /\ F[p] = Visible(f[p]) /\ F \in [Peers -> {F[q] : q \in Peers}]
    BY Zenon DEF St, Row, Announcements, VisibleRow
<1>1. F[p].state = "COMPLETED" <=> f[p].state = "COMPLETED"
    BY Zenon, <1>0, VisibleFields DEF Candidates
<1>2. [F[p] EXCEPT !.state = "COMPLETED"] = Visible(SetState(f[p], "COMPLETED"))
    <2>1. /\ SetState(f[p], "COMPLETED") # NoAnn
          /\ SetState(f[p], "COMPLETED").state = "COMPLETED"
        BY Zenon, <1>0, SetStateFacts DEF States
    <2>2. Visible(SetState(f[p], "COMPLETED")) = SetState(f[p], "COMPLETED")
        BY Zenon, <2>1 DEF Visible, Candidates
    <2> QED BY Zenon, <1>0, <2>2 DEF Visible, SetState, Announcements
<1>3. CASE f[p].state = "COMPLETED"
    <2>1. g = f
        BY Zenon, <1>3 DEF MakeCompleted
    <2>2. SetState(f[p], "COMPLETED") = f[p]
        BY Zenon, <1>0, <1>3 DEF SetState, Announcements
    <2>3. Rules!Failed(F, p) = F
        BY Zenon, <1>0, <1>1, <1>2, <1>3, <2>2 DEF Rules!Failed, VisibleRow
    <2>4. After(f, f)
        BY DEF After, Stage
    <2> QED BY Zenon, <2>1, <2>3, <2>4
<1>4. CASE f[p].state # "COMPLETED" /\ IsOnlyNonCompleted(f, p)
    <2>1. g = Empty
        BY Zenon, <1>4 DEF MakeCompleted
    <2>2. Rules!Failed(F, p) = Rules!Empty
        BY Zenon, <1>1, <1>4, VisibleSets DEF Rules!Failed, IsOnlyNonCompleted
    <2> QED BY Zenon, <2>1, <2>2, EmptyRow
<1>5. CASE f[p].state # "COMPLETED" /\ ~IsOnlyNonCompleted(f, p)
    <2>1. g = ChangeAndReselect(t, f, p, "COMPLETED")
        BY Zenon, <1>5 DEF MakeCompleted
    <2>2. \E r \in Peers \ {p} : St(f, r) \notin {"NONE", "COMPLETED"}
        <3>1. p \in In(f, States \ {"COMPLETED"})
            BY Zenon, <1>0, <1>5 DEF In
        <3> QED BY <1>5, <3>1, InSets DEF IsOnlyNonCompleted
    <2>3. St(f, p) \notin {"NONE", "COMPLETED"}
        BY Zenon, <1>0, <1>5 DEF States, Candidates
    <2>4. /\ g \in Row /\ Sane(t, g) /\ After(f, g)
          /\ \A q \in Peers : Visible(g[q]) =
                 IF q = p THEN Visible(SetState(f[p], "COMPLETED")) ELSE Visible(f[q])
        BY <2>1, <2>2, <2>3, ReselectRow
    <2>5. Rules!Failed(F, p) = [F EXCEPT ![p] = [F[p] EXCEPT !.state = "COMPLETED"]]
        <3>1. ~(Rules!In(F, {"CANDIDATE", "REQUESTED"}) \subseteq {p})
            <4>1. PICK r \in Peers \ {p} : St(f, r) \notin {"NONE", "COMPLETED"}
                BY Zenon, <2>2
            <4>2. r \in In(f, States \ {"COMPLETED"})
                BY Zenon, <4>1, InSets
            <4> QED BY Zenon, <4>1, <4>2, VisibleSets
        <3> QED BY Zenon, <3>1 DEF Rules!Failed
    <2>6. VisibleRow(g) = Rules!Failed(F, p)
        BY Zenon, <1>2, <2>4, <2>5 DEF VisibleRow
    <2> QED BY Zenon, <2>4, <2>6
<1> QED BY Zenon, <1>3, <1>4, <1>5

\* What the rules make of the row of a disconnected and of a requested peer.
Gone(F, p) == [Rules!Failed(F, p) EXCEPT ![p] = NoAnn]
Asked(F, p, expiry) ==
    [q \in Peers |->
        CASE q = p -> [F[p] EXCEPT !.state = "REQUESTED", !.time = expiry]
          [] q # p /\ q \in Rules!In(F, {"REQUESTED"}) -> [F[q] EXCEPT !.state = "COMPLETED"]
          [] OTHER -> F[q]]

\* An announcement of a disconnected peer fails and goes.
LEMMA DisconnectRow ==
    ASSUME NEW t \in TxHashes, NEW f \in Row, Sane(t, f), NEW p \in Peers, f[p] # NoAnn
    PROVE  LET g == [MakeCompleted(t, f, p) EXCEPT ![p] = NoAnn]
           IN  /\ g \in Row /\ Sane(t, g) /\ After(f, g)
               /\ VisibleRow(g) = Gone(VisibleRow(f), p)
<1> DEFINE h == MakeCompleted(t, f, p)
           g == [h EXCEPT ![p] = NoAnn]
<1>1. h \in Row /\ Sane(t, h) /\ After(f, h) /\ VisibleRow(h) = Rules!Failed(VisibleRow(f), p)
    BY Zenon, MakeCompletedRow
<1>2. h[p] = NoAnn \/ h[p].state = "COMPLETED"
    <2>1. CASE f[p].state = "COMPLETED"
        BY Zenon, <2>1 DEF MakeCompleted
    <2>2. CASE f[p].state # "COMPLETED" /\ IsOnlyNonCompleted(f, p)
        BY Zenon, <2>2 DEF MakeCompleted, Empty
    <2>3. CASE f[p].state # "COMPLETED" /\ ~IsOnlyNonCompleted(f, p)
        <3>1. h[p] = SetState(f[p], "COMPLETED") /\ f[p] \in Announcements
            BY Zenon, <2>3 DEF MakeCompleted, ChangeAndReselect, Row
        <3> QED BY <3>1, SetStateFacts DEF States
    <2> QED BY Zenon, <2>1, <2>2, <2>3
<1> HIDE DEF h
<1>3. g \in Row
    BY Zenon, <1>1 DEF Row
<1>4. \A q \in Peers : g[q] = IF q = p THEN NoAnn ELSE h[q]
    BY Zenon, <1>1 DEF Row
<1>5. /\ \A q \in Peers : St(g, q) = IF q = p THEN "NONE" ELSE St(h, q)
      /\ St(h, p) \in {"NONE", "COMPLETED"}
      /\ \A q \in Peers \ {p} : PriorityOf(t, g, q) = PriorityOf(t, h, q)
    BY <1>2, <1>4 DEF St, PriorityOf
<1>6. Sane(t, g)
    <2>1. /\ \A q \in Peers : St(h, q) # "NONE" =>
                 \E r \in Peers : St(h, r) \notin {"NONE", "COMPLETED"}
          /\ \A q, r \in Peers : St(h, q) \in Selected /\ St(h, r) \in Selected => q = r
          /\ \A q \in Peers : St(h, q) = "READY" => \E r \in Peers : St(h, r) \in Selected
          /\ \A q, r \in Peers : St(h, q) = "BEST" /\ St(h, r) = "READY" =>
                 PriorityOf(t, h, r) <= PriorityOf(t, h, q)
        BY Zenon, <1>1, SaneFacts
    <2>2. /\ \A q \in Peers : St(g, q) # "NONE" =>
                 \E r \in Peers : St(g, r) \notin {"NONE", "COMPLETED"}
          /\ \A q, r \in Peers : St(g, q) \in Selected /\ St(g, r) \in Selected => q = r
          /\ \A q \in Peers : St(g, q) = "READY" => \E r \in Peers : St(g, r) \in Selected
        BY Zenon, <1>5, <2>1 DEF Selected
    <2>3. \A q, r \in Peers : St(g, q) = "BEST" /\ St(g, r) = "READY" =>
              PriorityOf(t, g, r) <= PriorityOf(t, g, q)
        BY Zenon, <1>5, <2>1
    <2> QED BY Zenon, <1>3, <2>2, <2>3, SaneFacts
<1>7. After(f, g)
    BY Zenon, <1>1, <1>4 DEF After
<1>8. VisibleRow(g) = [VisibleRow(h) EXCEPT ![p] = NoAnn]
    <2>1. \A q \in Peers : Visible(g[q]) = IF q = p THEN NoAnn ELSE Visible(h[q])
        BY <1>4 DEF Visible
    <2> QED BY Zenon, <2>1 DEF VisibleRow
<1> QED BY Zenon, <1>1, <1>3, <1>6, <1>7, <1>8 DEF h, Gone

\* RequestedTx on the announcements of its transaction.
LEMMA RequestedRow ==
    ASSUME NEW t \in TxHashes, NEW f \in Row, Sane(t, f), NEW p \in Peers,
           p \in In(f, Candidates), NEW expiry \in Times
    PROVE  LET g == Requested(f, p, expiry)
               F == VisibleRow(f)
           IN  /\ g \in Row /\ Sane(t, g) /\ After(f, g)
               /\ VisibleRow(g) = Asked(F, p, expiry)
<1> DEFINE g == Requested(f, p, expiry)
           F == VisibleRow(f)
           a == [f[p] EXCEPT !.state = "REQUESTED", !.time = expiry]
           C(q) == q # p /\ St(f, q) = "REQUESTED"
           R(q) == q # p /\ St(f, q) = "BEST"
<1>0. f[p] # NoAnn /\ f[p] \in Announcements /\ f[p].state = St(f, p) /\ St(f, p) \in Candidates
    BY Zenon DEF In, St, Row
<1>1. {"BEST", "READY", "DELAYED"} = Candidates /\ {"BEST", "READY", "COMPLETED"} \subseteq States
    BY Zenon DEF States, Candidates
<1>2. /\ \A q, r \in Peers : St(f, q) \in Selected /\ St(f, r) \in Selected => q = r
      /\ \A q \in Peers : St(f, q) = "BEST" => St(f, q) \in Selected
      /\ \A q \in Peers : St(f, q) = "REQUESTED" => St(f, q) \in Selected
    BY Zenon, SaneFacts DEF Selected
<1>3. \A q \in Peers : g[q] = IF q = p THEN a
                              ELSE IF C(q) THEN SetState(f[q], "COMPLETED")
                              ELSE IF R(q) THEN SetState(f[q], "READY") ELSE f[q]
    BY Zenon, <1>0, <1>2, InSets DEF Requested, GivenUp
<1>4. /\ a \in Announcements /\ a # NoAnn /\ a.state = "REQUESTED"
      /\ Visible(a) = a /\ a = [Visible(f[p]) EXCEPT !.state = "REQUESTED", !.time = expiry]
    <2>1. a \in Announcements /\ a.state = "REQUESTED"
        BY Zenon, <1>0 DEF Announcements, States
    <2>2. a # NoAnn
        BY Zenon, <2>1, VisibleFields
    <2>3. Visible(a) = a
        BY Zenon, <2>1 DEF Visible, Candidates
    <2>4. a = [Visible(f[p]) EXCEPT !.state = "REQUESTED", !.time = expiry]
        BY Zenon, <1>0 DEF Visible, SetState, Announcements
    <2> QED BY Zenon, <2>1, <2>2, <2>3, <2>4
<1> HIDE DEF a
<1>5. ASSUME NEW q \in Peers
      PROVE  /\ g[q] \in Announcements \cup {NoAnn}
             /\ St(g, q) = IF q = p THEN "REQUESTED" ELSE IF C(q) THEN "COMPLETED"
                           ELSE IF R(q) THEN "READY" ELSE St(f, q)
             /\ g[q] # NoAnn <=> f[q] # NoAnn
             /\ Visible(g[q]) = IF q = p THEN a
                                ELSE IF C(q) THEN [F[q] EXCEPT !.state = "COMPLETED"]
                                ELSE F[q]
    <2>1. CASE q = p
        BY Zenon, <1>0, <1>3, <1>4, <2>1 DEF St
    <2>2. CASE C(q)
        <3>1. f[q] # NoAnn /\ f[q] \in Announcements /\ f[q].state = "REQUESTED"
            BY Zenon, <2>2 DEF St, Row
        <3>2. F[q] = f[q]
            BY Zenon, <3>1 DEF VisibleRow, Visible, Candidates
        <3>3. /\ g[q] = SetState(f[q], "COMPLETED") /\ g[q] \in Announcements /\ g[q] # NoAnn
              /\ g[q].state = "COMPLETED"
            BY <1>1, <1>3, <2>2, <3>1, SetStateFacts
        <3>4. Visible(g[q]) = [F[q] EXCEPT !.state = "COMPLETED"]
            BY Zenon, <3>2, <3>3 DEF Visible, Candidates, SetState
        <3> QED BY Zenon, <2>2, <3>1, <3>3, <3>4 DEF St
    <2>3. CASE R(q)
        <3>1. f[q] # NoAnn /\ f[q] \in Announcements /\ f[q].state = "BEST"
            BY Zenon, <2>3 DEF St, Row
        <3>2. /\ g[q] = SetState(f[q], "READY") /\ g[q] \in Announcements /\ g[q] # NoAnn
              /\ g[q].state = "READY"
            BY <1>1, <1>3, <2>3, <3>1, SetStateFacts
        <3>3. Visible(g[q]) = Visible(f[q])
            BY Zenon, <1>1, <3>1, <3>2, VisibleFacts
        <3>4. F[q] = Visible(f[q])
            BY Zenon DEF VisibleRow
        <3> QED BY Zenon, <2>3, <3>1, <3>2, <3>3, <3>4 DEF St
    <2>4. CASE q # p /\ ~C(q) /\ ~R(q)
        <3>1. g[q] = f[q]
            BY Zenon, <1>3, <2>4
        <3> QED BY Zenon, <2>4, <3>1 DEF St, Row, VisibleRow
    <2> QED BY Zenon, <2>1, <2>2, <2>3, <2>4
<1>6. g \in Row
    BY Zenon, <1>5 DEF Row, Requested
<1>7. Sane(t, g)
    <2>1. \A q \in Peers : St(g, q) \in Selected => q = p
        BY Zenon, <1>5 DEF Selected
    <2>2. St(g, p) = "REQUESTED" /\ "REQUESTED" \in Selected
        BY Zenon, <1>5 DEF Selected
    <2>3. \A q \in Peers : St(g, q) # "BEST"
        BY Zenon, <2>1, <2>2 DEF Selected
    <2> QED BY Zenon, <1>6, <2>1, <2>2, <2>3, SaneFacts
<1>8. After(f, g)
    <2> SUFFICES ASSUME NEW q \in Peers, g[q] # NoAnn
                 PROVE  f[q] # NoAnn /\ Stage(f[q]) <= Stage(g[q])
        BY Zenon DEF After
    <2>1. f[q] # NoAnn /\ f[q].state = St(f, q) /\ g[q].state = St(g, q)
        BY Zenon, <1>5 DEF St
    <2>2. \/ St(g, q) = "COMPLETED"
          \/ St(f, q) \in Candidates /\ (St(g, q) \in Candidates \/ St(g, q) = "REQUESTED")
          \/ St(g, q) = St(f, q)
        BY Zenon, <1>0, <1>1, <1>5
    <2> QED BY <1>1, <2>1, <2>2 DEF Stage
<1>9. VisibleRow(g) = Asked(F, p, expiry)
    <2>1. \A q \in Peers : q \in Rules!In(F, {"REQUESTED"}) <=> St(f, q) = "REQUESTED"
        BY Zenon, VisibleStates
    <2>2. F[p] = Visible(f[p])
        BY Zenon DEF VisibleRow
    <2>3. \A q \in Peers : Visible(g[q]) =
              CASE q = p -> [F[p] EXCEPT !.state = "REQUESTED", !.time = expiry]
                [] q # p /\ q \in Rules!In(F, {"REQUESTED"}) -> [F[q] EXCEPT !.state = "COMPLETED"]
                [] OTHER -> F[q]
        BY Zenon, <1>4, <1>5, <2>1, <2>2
    <2> QED BY Zenon, <2>3 DEF VisibleRow, Asked
<1> QED BY Zenon, <1>6, <1>7, <1>8, <1>9

INSTANCE FiniteSetTheorems
-----------------------------------------------------------------------------
(* The counts in m_peerinfo.                                               *)

\* The transactions that p has announced, with the announcement in S.
Held(A, p, S) == {u \in TxHashes : p \in In(A[u], S)}
Counted(f, p, S) == IF p \in In(f, S) THEN 1 ELSE 0

\* A change to one transaction changes the count by that transaction.
LEMMA HeldNext ==
    ASSUME NEW t \in TxHashes, \A u \in TxHashes \ {t} : ann'[u] = ann[u]
    PROVE  \A p, S : /\ Cardinality(Held(ann, p, S)) \in Nat
                     /\ Cardinality(Held(ann', p, S)) \in Nat
                     /\ Cardinality(Held(ann', p, S)) = Cardinality(Held(ann, p, S))
                            - Counted(ann[t], p, S) + Counted(ann'[t], p, S)
<1> TAKE p, S
<1> DEFINE Z == Held(ann, p, S) \ {t}
<1>1. IsFiniteSet(Z) /\ Cardinality(Z) \in Nat
    <2>1. IsFiniteSet(TxHashes) /\ Z \subseteq TxHashes
        BY Zenon, TxRequestAssumption DEF Held
    <2> QED BY Zenon, <2>1, FS_Subset, FS_CardinalityType
<1>2. Cardinality(Z \cup {t}) = Cardinality(Z) + 1
    BY Zenon, <1>1, FS_AddElement
<1>3. Held(ann, p, S) = IF p \in In(ann[t], S) THEN Z \cup {t} ELSE Z
    BY Zenon DEF Held
<1>4. Held(ann', p, S) = IF p \in In(ann'[t], S) THEN Z \cup {t} ELSE Z
    BY DEF Held
<1> HIDE DEF Z
<1>5. Cardinality(Held(ann, p, S)) = Cardinality(Z) + Counted(ann[t], p, S)
    BY <1>1, <1>2, <1>3 DEF Counted
<1>6. Cardinality(Held(ann', p, S)) = Cardinality(Z) + Counted(ann'[t], p, S)
    BY <1>1, <1>2, <1>4 DEF Counted
<1>7. Counted(ann[t], p, S) \in 0..1 /\ Counted(ann'[t], p, S) \in 0..1
    BY DEF Counted
<1> QED BY <1>1, <1>5, <1>6, <1>7

\* PeerInfoExact, field by field.
LEMMA ExactFacts ==
    PeerInfoExact <=> \A p \in Peers : m_peerinfo[p] =
        [m_total |-> Cardinality(Held(ann, p, States)),
         m_completed |-> Cardinality(Held(ann, p, {"COMPLETED"})),
         m_requested |-> Cardinality(Held(ann, p, {"REQUESTED"}))]
BY Zenon DEF PeerInfoExact, Held

\* Storing a row that keeps the invariants keeps them for the whole index, and
\* Account follows the change.
LEMMA StoreStep ==
    ASSUME TypeOK, SanityCheck, PeerInfoExact, NEW t \in TxHashes, NEW f \in Row,
           Sane(t, f), After(ann[t], f), Store(t, f)
    PROVE  /\ ann' \in [TxHashes -> Row] /\ SanityCheck' /\ PeerInfoExact'
           /\ m_peerinfo' \in [Peers -> [m_total : Nat, m_completed : Nat, m_requested : Nat]]
           /\ \A u \in TxHashes : After(ann[u], ann'[u])
<1>1. ann \in [TxHashes -> Row] /\ ann' \in [TxHashes -> Row] /\ ann'[t] = f
      /\ \A u \in TxHashes \ {t} : ann'[u] = ann[u]
    BY Zenon DEF TypeOK, Row, Store
<1>2. SanityCheck'
    BY Zenon, <1>1 DEF SanityCheck
<1>3. \A u \in TxHashes : After(ann[u], ann'[u])
    <2>1. \A u \in TxHashes : After(ann[u], ann[u])
        BY DEF After, Stage
    <2> QED BY Zenon, <1>1, <2>1
<1>4. ASSUME NEW p \in Peers
      PROVE  /\ m_peerinfo'[p] = [m_total |-> Cardinality(Held(ann', p, States)),
                                  m_completed |-> Cardinality(Held(ann', p, {"COMPLETED"})),
                                  m_requested |-> Cardinality(Held(ann', p, {"REQUESTED"}))]
             /\ m_peerinfo'[p] \in [m_total : Nat, m_completed : Nat, m_requested : Nat]
    <2> DEFINE i == m_peerinfo[p]
               old == ann[t][p]
               new == f[p]
    <2>1. i = [m_total |-> Cardinality(Held(ann, p, States)),
               m_completed |-> Cardinality(Held(ann, p, {"COMPLETED"})),
               m_requested |-> Cardinality(Held(ann, p, {"REQUESTED"}))]
        BY Zenon, ExactFacts
    <2>2. m_peerinfo'[p] = Account(i, old, new)
        BY Zenon DEF Store
    <2>3. /\ Counted(ann[t], p, States) = IF old # NoAnn THEN 1 ELSE 0
          /\ Counted(f, p, States) = IF new # NoAnn THEN 1 ELSE 0
          /\ new # NoAnn => old # NoAnn
        BY <1>1 DEF Counted, In, Row, Announcements, After
    <2>4. \A s \in {"COMPLETED", "REQUESTED"} :
              /\ Counted(ann[t], p, {s}) = Is(old, s)
              /\ Counted(f, p, {s}) = Is(new, s)
        BY Zenon DEF Counted, In, Is
    <2>5. \A S : /\ Cardinality(Held(ann, p, S)) \in Nat
                 /\ Cardinality(Held(ann', p, S)) \in Nat
                 /\ Cardinality(Held(ann', p, S)) = Cardinality(Held(ann, p, S))
                        - Counted(ann[t], p, S) + Counted(f, p, S)
        BY Zenon, <1>1, HeldNext
    <2>6. /\ Cardinality(Held(ann', p, States)) =
                 i.m_total - (IF old # NoAnn /\ new = NoAnn THEN 1 ELSE 0)
          /\ Cardinality(Held(ann', p, {"COMPLETED"})) =
                 i.m_completed - Is(old, "COMPLETED") + Is(new, "COMPLETED")
          /\ Cardinality(Held(ann', p, {"REQUESTED"})) =
                 i.m_requested - Is(old, "REQUESTED") + Is(new, "REQUESTED")
        BY <2>1, <2>3, <2>4, <2>5
    <2> QED BY <2>2, <2>5, <2>6 DEF Account
<1>5. PeerInfoExact'
    BY Zenon, <1>4 DEF PeerInfoExact, Held
<1>6. m_peerinfo' \in [Peers -> [m_total : Nat, m_completed : Nat, m_requested : Nat]]
    BY Zenon, <1>4 DEF Store
<1> QED BY Zenon, <1>1, <1>2, <1>3, <1>5, <1>6

-----------------------------------------------------------------------------
(* Invariance.                                                             *)

\* SetTimePoint begins its second loop when nothing waits for a time that has
\* come, and the loop makes nothing wait for such a time.
NothingDue == pc = "back" => \A x \in All(Waiting) : ~Due(x)

Inv == TypeOK /\ SanityCheck /\ PeerInfoExact /\ NothingDue

\* The step of AskedOnce.
OnlyForward ==
    \A t \in TxHashes, p \in Peers :
        ann[t][p] # NoAnn /\ ann'[t][p] # NoAnn => Stage(ann[t][p]) <= Stage(ann'[t][p])

\* What Inv says of one transaction.
LEMMA RowFacts ==
    ASSUME Inv, NEW t \in TxHashes PROVE ann[t] \in Row /\ Sane(t, ann[t])
BY Zenon DEF Inv, SanityCheck, TypeOK, Row

\* A step that stores a good row outside the second loop keeps Inv.
LEMMA StoreInv ==
    ASSUME Inv, NEW t \in TxHashes, NEW f \in Row, Sane(t, f), After(ann[t], f), Store(t, f),
           UNCHANGED <<m_current_sequence, pc, call>>, NothingDue'
    PROVE  Inv' /\ OnlyForward
<1>1. /\ ann' \in [TxHashes -> Row] /\ SanityCheck' /\ PeerInfoExact'
      /\ m_peerinfo' \in [Peers -> [m_total : Nat, m_completed : Nat, m_requested : Nat]]
      /\ \A u \in TxHashes : After(ann[u], ann'[u])
    BY Zenon, StoreStep DEF Inv
<1>2. Inv'
    BY Zenon, <1>1 DEF Inv, TypeOK, Row
<1>3. OnlyForward
    BY Zenon, <1>1 DEF OnlyForward, After
<1> QED BY Zenon, <1>2, <1>3

\* Nothing is announced to begin with.
LEMMA InitInv == Init => Inv
<1> SUFFICES ASSUME Init PROVE Inv
    BY Zenon
<1>1. TypeOK
    BY TxRequestAssumption DEF Init, TypeOK, Empty
<1>2. SanityCheck
    BY Zenon DEF Init, SanityCheck, Sane, In, Empty
<1>3. PeerInfoExact
    <2>1. \A p \in Peers : \A S : Held(ann, p, S) = {}
        BY Zenon DEF Init, Held, In, Empty
    <2>2. Cardinality({}) = 0
        BY Zenon, FS_EmptySet
    <2>3. \A p \in Peers : m_peerinfo[p] = [m_total |-> 0, m_completed |-> 0, m_requested |-> 0]
        BY Zenon DEF Init
    <2> QED BY Zenon, <2>1, <2>2, <2>3, ExactFacts
<1>4. NothingDue
    BY Zenon DEF Init, NothingDue
<1> QED BY Zenon, <1>1, <1>2, <1>3, <1>4 DEF Inv

\* A new announcement is DELAYED and disturbs no other.
LEMMA ReceivedInvInv ==
    ASSUME Inv, NEW p \in Peers, NEW t \in TxHashes, NEW preferred \in BOOLEAN,
           NEW reqtime \in Times, ReceivedInv(p, t, preferred, reqtime)
    PROVE  Inv' /\ OnlyForward
<1> DEFINE a == [state |-> "DELAYED", time |-> reqtime, preferred |-> preferred,
                 seq |-> m_current_sequence]
           f == ann[t]
           g == [f EXCEPT ![p] = a]
<1>1. f \in Row /\ f[p] = NoAnn /\ m_current_sequence \in 0..MaxSequence
    BY Zenon, RowFacts DEF ReceivedInv, Inv, TypeOK
<1>2. a \in Announcements /\ a # NoAnn /\ a.state = "DELAYED"
    <2>1. a \in Announcements
        BY <1>1, TxRequestAssumption DEF Announcements, States, Candidates
    <2> QED BY Zenon, <2>1, VisibleFields
<1> HIDE DEF a
<1>3. /\ g \in Row
      /\ \A q \in Peers : g[q] = IF q = p THEN a ELSE f[q]
    BY Zenon, <1>1, <1>2 DEF Row
<1>4. \A q \in Peers : St(g, q) = IF q = p THEN "DELAYED" ELSE St(f, q)
    BY <1>2, <1>3 DEF St
<1>5. Sane(t, g)
    <2>1. Sane(t, f)
        BY Zenon DEF Inv, SanityCheck
    <2>2. /\ \A q, r \in Peers : St(f, q) \in Selected /\ St(f, r) \in Selected => q = r
          /\ \A q \in Peers : St(f, q) = "READY" => \E r \in Peers : St(f, r) \in Selected
          /\ \A q, r \in Peers : St(f, q) = "BEST" /\ St(f, r) = "READY" =>
                 PriorityOf(t, f, r) <= PriorityOf(t, f, q)
        BY Zenon, <1>1, <2>1, SaneFacts
    <2>3. St(f, p) = "NONE"
        BY Zenon, <1>1 DEF St
    <2>4. /\ \A q, r \in Peers : St(g, q) \in Selected /\ St(g, r) \in Selected => q = r
          /\ \A q \in Peers : St(g, q) = "READY" => \E r \in Peers : St(g, r) \in Selected
        BY Zenon, <1>4, <2>2, <2>3 DEF Selected
    <2>5. \A q, r \in Peers : St(g, q) = "BEST" /\ St(g, r) = "READY" =>
              PriorityOf(t, g, r) <= PriorityOf(t, g, q)
        BY Zenon, <1>3, <1>4, <2>2 DEF PriorityOf
    <2>6. St(g, p) \notin {"NONE", "COMPLETED"}
        BY Zenon, <1>4
    <2> QED BY Zenon, <1>3, <2>4, <2>5, <2>6, SaneFacts
<1>6. /\ ann' = [ann EXCEPT ![t] = g] /\ ann'[t] = g /\ ann' \in [TxHashes -> Row]
      /\ \A u \in TxHashes \ {t} : ann'[u] = ann[u]
    BY Zenon, <1>3 DEF ReceivedInv, Inv, TypeOK, Row, a
<1> HIDE DEF f, g
<1>7. SanityCheck'
    BY Zenon, <1>5, <1>6 DEF Inv, SanityCheck
<1>8. ASSUME NEW q \in Peers
      PROVE  /\ m_peerinfo'[q] = [m_total |-> Cardinality(Held(ann', q, States)),
                                  m_completed |-> Cardinality(Held(ann', q, {"COMPLETED"})),
                                  m_requested |-> Cardinality(Held(ann', q, {"REQUESTED"}))]
             /\ m_peerinfo'[q] \in [m_total : Nat, m_completed : Nat, m_requested : Nat]
    <2>1. m_peerinfo[q] = [m_total |-> Cardinality(Held(ann, q, States)),
               m_completed |-> Cardinality(Held(ann, q, {"COMPLETED"})),
               m_requested |-> Cardinality(Held(ann, q, {"REQUESTED"}))]
        BY Zenon, ExactFacts DEF Inv
    <2>2. \A S : /\ Cardinality(Held(ann, q, S)) \in Nat
                 /\ Cardinality(Held(ann', q, S)) \in Nat
                 /\ Cardinality(Held(ann', q, S)) = Cardinality(Held(ann, q, S))
                        - Counted(f, q, S) + Counted(g, q, S)
        <3>1. ann'[t] = g /\ ann[t] = f
            BY Zenon, <1>6 DEF f
        <3> QED BY Zenon, <1>6, <3>1, HeldNext
    <2>3. /\ \A S \in {{"COMPLETED"}, {"REQUESTED"}} : q \in In(f, S) <=> q \in In(g, S)
          /\ q # p => (q \in In(f, States) <=> q \in In(g, States))
          /\ q = p => ~(q \in In(f, States)) /\ q \in In(g, States)
        BY Zenon, <1>1, <1>2, <1>3 DEF In, States, Candidates
    <2>4. /\ Cardinality(Held(ann', q, {"COMPLETED"})) = Cardinality(Held(ann, q, {"COMPLETED"}))
          /\ Cardinality(Held(ann', q, {"REQUESTED"})) = Cardinality(Held(ann, q, {"REQUESTED"}))
          /\ Cardinality(Held(ann', q, States)) =
                 Cardinality(Held(ann, q, States)) + (IF q = p THEN 1 ELSE 0)
        BY <2>2, <2>3 DEF Counted
    <2>5. m_peerinfo'[q] = [m_total |-> m_peerinfo[q].m_total + (IF q = p THEN 1 ELSE 0),
                            m_completed |-> m_peerinfo[q].m_completed,
                            m_requested |-> m_peerinfo[q].m_requested]
        <3>1. /\ m_peerinfo \in [Peers -> [m_total : Nat, m_completed : Nat, m_requested : Nat]]
              /\ m_peerinfo' = [m_peerinfo EXCEPT ![p].m_total = @ + 1]
            BY Zenon DEF ReceivedInv, Inv, TypeOK
        <3>2. CASE q = p
            BY Zenon, <3>1, <3>2
        <3>3. CASE q # p
            BY <3>1, <3>3
        <3> QED BY Zenon, <3>2, <3>3
    <2>6. /\ m_peerinfo[q].m_total = Cardinality(Held(ann, q, States))
          /\ m_peerinfo[q].m_completed = Cardinality(Held(ann, q, {"COMPLETED"}))
          /\ m_peerinfo[q].m_requested = Cardinality(Held(ann, q, {"REQUESTED"}))
        BY <2>1
    <2>7. m_peerinfo'[q] = [m_total |-> Cardinality(Held(ann', q, States)),
                            m_completed |-> Cardinality(Held(ann', q, {"COMPLETED"})),
                            m_requested |-> Cardinality(Held(ann', q, {"REQUESTED"}))]
        BY Zenon, <2>4, <2>5, <2>6
    <2>8. /\ Cardinality(Held(ann', q, States)) \in Nat
          /\ Cardinality(Held(ann', q, {"COMPLETED"})) \in Nat
          /\ Cardinality(Held(ann', q, {"REQUESTED"})) \in Nat
        BY Zenon, <2>2
    <2> QED BY <2>7, <2>8
<1>9. PeerInfoExact'
    BY Zenon, <1>8 DEF PeerInfoExact, Held
<1>10. TypeOK'
    <2>1. m_peerinfo' \in [Peers -> [m_total : Nat, m_completed : Nat, m_requested : Nat]]
        BY Zenon, <1>8 DEF ReceivedInv, Inv, TypeOK
    <2>2. ann' \in [TxHashes -> Row]
        BY Zenon, <1>6 DEF Inv, TypeOK, Row
    <2>3. m_current_sequence' \in 0..MaxSequence
        BY TxRequestAssumption DEF ReceivedInv, Inv, TypeOK
    <2>4. UNCHANGED <<pc, call>>
        BY Zenon DEF ReceivedInv
    <2> QED BY Zenon, <2>1, <2>2, <2>3, <2>4 DEF Inv, TypeOK, Row
<1>11. NothingDue'
    BY Zenon DEF ReceivedInv, NothingDue
<1>12. OnlyForward
    <2>1. \A q \in Peers : f[q] # NoAnn => g[q] = f[q]
        BY Zenon, <1>1, <1>3
    <2> QED BY <1>6, <2>1 DEF OnlyForward, Stage, f
<1> QED BY Zenon, <1>7, <1>9, <1>10, <1>11, <1>12 DEF Inv

\* RequestedTx, by RequestedRow.
LEMMA RequestedTxInv ==
    ASSUME Inv, NEW p \in Peers, NEW t \in TxHashes, NEW expiry \in Times,
           RequestedTx(p, t, expiry)
    PROVE  Inv' /\ OnlyForward
<1>1. /\ Requested(ann[t], p, expiry) \in Row /\ Sane(t, Requested(ann[t], p, expiry))
      /\ After(ann[t], Requested(ann[t], p, expiry))
    BY Zenon, RowFacts, RequestedRow DEF RequestedTx, MayRequest
<1> QED BY Zenon, <1>1, StoreInv DEF RequestedTx, NothingDue

\* ReceivedResponse, by MakeCompletedRow.
LEMMA ReceivedResponseInv ==
    ASSUME Inv, NEW p \in Peers, NEW t \in TxHashes, ReceivedResponse(p, t)
    PROVE  Inv' /\ OnlyForward
<1>1. /\ MakeCompleted(t, ann[t], p) \in Row /\ Sane(t, MakeCompleted(t, ann[t], p))
      /\ After(ann[t], MakeCompleted(t, ann[t], p))
    BY Zenon, RowFacts, MakeCompletedRow DEF ReceivedResponse
<1> QED BY Zenon, <1>1, StoreInv DEF ReceivedResponse, NothingDue

\* ForgetTxHash, by EmptyRow.
LEMMA ForgetTxHashInv ==
    ASSUME Inv, NEW t \in TxHashes, ForgetTxHash(t)
    PROVE  Inv' /\ OnlyForward
<1>1. Empty \in Row /\ Sane(t, Empty) /\ After(ann[t], Empty)
    BY Zenon, RowFacts, EmptyRow
<1> QED BY Zenon, <1>1, StoreInv DEF ForgetTxHash, NothingDue

\* One announcement of DisconnectedPeer, by DisconnectRow.
LEMMA DisconnectOneInv ==
    ASSUME Inv, NEW t \in TxHashes, DisconnectOne(t)
    PROVE  Inv' /\ OnlyForward
<1> DEFINE g == [MakeCompleted(t, ann[t], call.peer) EXCEPT ![call.peer] = NoAnn]
<1>1. call.peer \in Peers /\ pc = "disconnect"
    BY Zenon DEF DisconnectOne, Inv, TypeOK
<1>2. g \in Row /\ Sane(t, g) /\ After(ann[t], g)
    BY Zenon, <1>1, RowFacts, DisconnectRow DEF DisconnectOne
<1>3. Store(t, g) /\ UNCHANGED <<m_current_sequence, pc, call>>
    BY Zenon DEF DisconnectOne
<1> HIDE DEF g
<1> QED BY Zenon, <1>1, <1>2, <1>3, StoreInv DEF NothingDue

\* One iteration of the first loop of SetTimePoint.
LEMMA ForwardInv ==
    ASSUME Inv, NEW t \in TxHashes, NEW p \in Peers, SetTimePointForward(t, p)
    PROVE  Inv' /\ OnlyForward
<1>1. p \in In(ann[t], Waiting) /\ pc = "forward"
    BY Zenon DEF SetTimePointForward, All
<1>2. ann[t][p] # NoAnn /\ St(ann[t], p) = ann[t][p].state /\ St(ann[t], p) \in Waiting
    BY Zenon, <1>1 DEF In, St
<1>3. CASE ann[t][p].state = "DELAYED"
    <2>1. LET g == PromoteCandidateReady(t, ann[t], p)
          IN  g \in Row /\ Sane(t, g) /\ After(ann[t], g) /\ Store(t, g)
        BY Zenon, <1>2, <1>3, RowFacts, PromoteRow DEF SetTimePointForward
    <2> QED BY Zenon, <1>1, <2>1, StoreInv DEF SetTimePointForward, NothingDue
<1>4. CASE ann[t][p].state # "DELAYED"
    <2>1. LET g == MakeCompleted(t, ann[t], p)
          IN  g \in Row /\ Sane(t, g) /\ After(ann[t], g) /\ Store(t, g)
        BY Zenon, <1>2, <1>4, RowFacts, MakeCompletedRow DEF SetTimePointForward
    <2> QED BY Zenon, <1>1, <2>1, StoreInv DEF SetTimePointForward, NothingDue
<1> QED BY Zenon, <1>3, <1>4

\* The row that the second loop of SetTimePoint stores.
LEMMA BackRow ==
    ASSUME Inv, NEW t \in TxHashes, NEW p \in Peers, SetTimePointBack(t, p)
    PROVE  LET g == ChangeAndReselect(t, ann[t], p, "DELAYED")
           IN  /\ g \in Row /\ Sane(t, g) /\ After(ann[t], g)
               /\ VisibleRow(g) = VisibleRow(ann[t])
<1>1. ann[t] \in Row /\ Sane(t, ann[t]) /\ p \in In(ann[t], Selectable)
    BY Zenon, RowFacts DEF SetTimePointBack, All
<1>2. /\ St(ann[t], p) \in Selectable /\ St(ann[t], p) \notin {"NONE", "COMPLETED"}
      /\ ann[t][p] \in Announcements /\ ann[t][p].state \in Candidates
    BY Zenon, <1>1 DEF In, St, Selectable, Candidates, Row
<1>3. /\ ChangeAndReselect(t, ann[t], p, "DELAYED") \in Row
      /\ Sane(t, ChangeAndReselect(t, ann[t], p, "DELAYED"))
      /\ After(ann[t], ChangeAndReselect(t, ann[t], p, "DELAYED"))
      /\ \A q \in Peers : Visible(ChangeAndReselect(t, ann[t], p, "DELAYED")[q]) =
             IF q = p THEN Visible(SetState(ann[t][p], "DELAYED")) ELSE Visible(ann[t][q])
    BY <1>1, <1>2, ReselectRow
<1>4. Visible(SetState(ann[t][p], "DELAYED")) = Visible(ann[t][p])
    BY Zenon, <1>2, VisibleFacts DEF States, Candidates
<1> QED BY Zenon, <1>3, <1>4 DEF VisibleRow

\* One iteration of the second loop of SetTimePoint: what it delays is not due.
LEMMA BackInv ==
    ASSUME Inv, NEW t \in TxHashes, NEW p \in Peers, SetTimePointBack(t, p)
    PROVE  Inv' /\ OnlyForward
<1> DEFINE f == ann[t]
           g == ChangeAndReselect(t, f, p, "DELAYED")
<1>1. /\ g \in Row /\ Sane(t, g) /\ After(f, g) /\ f \in Row
      /\ p \in In(f, Selectable) /\ pc = "back" /\ Store(t, g)
      /\ ~(f[p].time <= call.now)
    <2>1. call.now \in Nat
        BY Zenon, TxRequestAssumption DEF Inv, TypeOK, SetTimePointBack
    <2>2. f[p] \in Announcements
        BY Zenon, RowFacts DEF SetTimePointBack, All, In, Row
    <2>3. f[p].time \in Nat
        BY Zenon, <2>2, TxRequestAssumption DEF Announcements
    <2>4. ~(f[p].time <= call.now) /\ pc = "back" /\ Store(t, g)
        BY <2>1, <2>3 DEF SetTimePointBack
    <2>5. p \in In(f, Selectable)
        BY Zenon DEF SetTimePointBack, All
    <2>6. g \in Row /\ Sane(t, g) /\ After(f, g) /\ f \in Row
        BY Zenon, BackRow, RowFacts
    <2> QED BY Zenon, <2>4, <2>5, <2>6
<1>2. ASSUME NEW u \in TxHashes, NEW q \in Peers, q \in In(ann'[u], Waiting)
      PROVE  ~(ann'[u][q].time <= call.now)
    <2>1. \A v \in TxHashes : ann'[v] = IF v = t THEN g ELSE ann[v]
        BY Zenon, <1>1 DEF Store, Inv, TypeOK
    <2>2. q \in In(ann[u], Waiting) => ~(ann[u][q].time <= call.now)
        <3>1. q \in In(ann[u], Waiting) => <<u, q>> \in All(Waiting)
            BY Zenon DEF All
        <3> QED BY Zenon, <1>1, <3>1 DEF Inv, NothingDue, Due, TimeOf
    <2>3. CASE u # t
        BY Zenon, <1>2, <2>1, <2>2, <2>3
    <2>4. CASE u = t /\ q = p
        <3>1. ann'[u][q] = SetState(f[p], "DELAYED") /\ f[p] \in Announcements
            BY Zenon, <1>1, <2>1, <2>4 DEF ChangeAndReselect, In, Row
        <3> QED BY <1>1, <2>4, <3>1, SetStateFacts DEF States, Candidates
    <2>5. CASE u = t /\ q # p
        <3>1. \/ ann'[u][q] = SetState(f[q], "BEST") /\ f[q] \in Announcements
              \/ ann'[u][q] = f[q]
            BY Zenon, <1>1, <2>1, <2>5 DEF ChangeAndReselect, NextBest, In, Row
        <3>2. ann'[u][q] = f[q]
            <4>1. ann'[u][q].state \in Waiting
                BY Zenon, <1>2 DEF In
            <4> QED BY Zenon, <3>1, <4>1, SetStateFacts DEF Waiting, States, Candidates
        <3> QED BY Zenon, <1>2, <2>2, <2>5, <3>2 DEF In
    <2> QED BY Zenon, <2>3, <2>4, <2>5
<1>3. NothingDue'
    <2>1. call' = call
        BY Zenon DEF SetTimePointBack
    <2> QED BY Zenon, <1>2, <2>1 DEF NothingDue, All, Due, TimeOf
<1>4. UNCHANGED <<m_current_sequence, pc, call>>
    BY Zenon DEF SetTimePointBack
<1> HIDE DEF g
<1> QED BY Zenon, <1>1, <1>3, <1>4, StoreInv

\* Calls begin, turn and end without touching the index.
LEMMA ControlInv ==
    ASSUME Inv,
           \/ \E p \in Peers : DisconnectedPeer(p) \/ \E now \in Times : GetRequestable(p, now)
           \/ DisconnectDone \/ SetTimePointTurn \/ GetRequestableReturn
    PROVE  Inv' /\ OnlyForward
<1>1. UNCHANGED <<ann, m_peerinfo, m_current_sequence>>
    BY Zenon DEF DisconnectedPeer, GetRequestable, DisconnectDone, SetTimePointTurn,
           GetRequestableReturn
<1>2. SanityCheck' /\ PeerInfoExact' /\ OnlyForward
    BY <1>1 DEF Inv, SanityCheck, PeerInfoExact, OnlyForward, Stage
<1>3. TypeOK' /\ NothingDue'
    <2>1. ASSUME NEW p \in Peers, DisconnectedPeer(p) PROVE TypeOK' /\ NothingDue'
        BY <1>1, <2>1, TxRequestAssumption DEF DisconnectedPeer, Inv, TypeOK, NothingDue
    <2>2. ASSUME NEW p \in Peers, NEW now \in Times, GetRequestable(p, now)
          PROVE  TypeOK' /\ NothingDue'
        BY <1>1, <2>2, TxRequestAssumption DEF GetRequestable, Inv, TypeOK, NothingDue
    <2>3. CASE DisconnectDone
        BY Zenon, <1>1, <2>3 DEF DisconnectDone, Inv, TypeOK, NothingDue
    <2>4. CASE SetTimePointTurn
        BY Zenon, <1>1, <2>4 DEF SetTimePointTurn, Inv, TypeOK, NothingDue, All, Due, TimeOf
    <2>5. CASE GetRequestableReturn
        BY Zenon, <1>1, <2>5 DEF GetRequestableReturn, Inv, TypeOK, NothingDue
    <2> QED BY Zenon, <2>1, <2>2, <2>3, <2>4, <2>5
<1> QED BY Zenon, <1>2, <1>3 DEF Inv

\* Every step of every call keeps the invariant and moves no announcement back.
LEMMA NextInv == Inv /\ [Next]_vars => Inv' /\ (OnlyForward \/ UNCHANGED vars)
<1> SUFFICES ASSUME Inv, [Next]_vars PROVE Inv' /\ (OnlyForward \/ UNCHANGED vars)
    BY Zenon
<1>1. ASSUME NEW p \in Peers, NEW t \in TxHashes, NEW preferred \in BOOLEAN,
             NEW time \in Times, ReceivedInv(p, t, preferred, time)
      PROVE  Inv' /\ OnlyForward
    BY Zenon, <1>1, ReceivedInvInv
<1>2. ASSUME NEW p \in Peers, NEW t \in TxHashes, NEW time \in Times, RequestedTx(p, t, time)
      PROVE  Inv' /\ OnlyForward
    BY Zenon, <1>2, RequestedTxInv
<1>3. ASSUME NEW p \in Peers, NEW t \in TxHashes, ReceivedResponse(p, t)
      PROVE  Inv' /\ OnlyForward
    BY Zenon, <1>3, ReceivedResponseInv
<1>4. ASSUME NEW t \in TxHashes, ForgetTxHash(t) PROVE Inv' /\ OnlyForward
    BY Zenon, <1>4, ForgetTxHashInv
<1>5. ASSUME NEW t \in TxHashes, DisconnectOne(t) PROVE Inv' /\ OnlyForward
    BY Zenon, <1>5, DisconnectOneInv
<1>6. ASSUME NEW t \in TxHashes, NEW p \in Peers, SetTimePointForward(t, p)
      PROVE  Inv' /\ OnlyForward
    BY Zenon, <1>6, ForwardInv
<1>7. ASSUME NEW t \in TxHashes, NEW p \in Peers, SetTimePointBack(t, p)
      PROVE  Inv' /\ OnlyForward
    BY Zenon, <1>7, BackInv
<1>8. CASE \/ \E p \in Peers : DisconnectedPeer(p) \/ \E now \in Times : GetRequestable(p, now)
           \/ DisconnectDone \/ SetTimePointTurn \/ GetRequestableReturn
    BY Zenon, <1>8, ControlInv
<1>9. CASE UNCHANGED vars
    BY Zenon, <1>9 DEF vars, Inv, TypeOK, SanityCheck, PeerInfoExact, NothingDue, All, Due, TimeOf
<1> QED BY Zenon, <1>1, <1>2, <1>3, <1>4, <1>5, <1>6, <1>7, <1>8, <1>9 DEF Next, Walk

\* Inv holds throughout.
LEMMA Invariance == Spec => []Inv
BY InitInv, NextInv, PTL DEF Spec

\* The counts of m_peerinfo are natural numbers and every call in progress has
\* a peer and a time, whatever the calls are.
THEOREM TypeCorrect == Spec => []TypeOK
<1>1. Inv => TypeOK
    BY Zenon DEF Inv
<1> QED BY <1>1, Invariance, PTL

\* SanityCheck of txrequest.cpp never fails, between any two iterations of the
\* loops of SetTimePoint and DisconnectedPeer either.
THEOREM Sanity == Spec => []SanityCheck
<1>1. Inv => SanityCheck
    BY Zenon DEF Inv
<1> QED BY <1>1, Invariance, PTL

\* The counts Erase and Modify keep in m_peerinfo are those of the index.
THEOREM CountsExact == Spec => []PeerInfoExact
<1>1. Inv => PeerInfoExact
    BY Zenon DEF Inv
<1> QED BY <1>1, Invariance, PTL

\* No announcement goes back from COMPLETED or from REQUESTED.
THEOREM NeverAskedTwice == Spec => AskedOnce
<1>1. Inv /\ [Next]_vars => [OnlyForward]_vars
    BY Zenon, NextInv DEF vars
<1>2. Spec => [][OnlyForward]_vars
    BY <1>1, Invariance, PTL DEF Spec
<1> QED BY Zenon, <1>2 DEF AskedOnce, OnlyForward

-----------------------------------------------------------------------------
(* The tracker implements the rules.                                       *)

\* The announcements as the rules see them.
Seen == [t \in TxHashes |-> VisibleRow(ann[t])]

\* A change to one transaction, as the rules see it.
LEMMA SeenStep ==
    ASSUME Inv, NEW t \in TxHashes, NEW f \in Row, ann' = [ann EXCEPT ![t] = f]
    PROVE  Seen' = [Seen EXCEPT ![t] = VisibleRow(f)] /\ Seen[t] = VisibleRow(ann[t])
<1>1. \A u \in TxHashes : ann'[u] = IF u = t THEN f ELSE ann[u]
    BY Zenon DEF Inv, TypeOK
<1>2. \A u \in TxHashes : VisibleRow(ann'[u]) = IF u = t THEN VisibleRow(f) ELSE VisibleRow(ann[u])
    BY <1>1
<1> QED BY Zenon, <1>2 DEF Seen

\* A row stored without a visible change.
LEMMA SeenSame ==
    ASSUME Inv, NEW t \in TxHashes, NEW f \in Row, ann' = [ann EXCEPT ![t] = f],
           VisibleRow(f) = VisibleRow(ann[t])
    PROVE  Seen' = Seen
<1>1. \A u \in TxHashes : VisibleRow(ann'[u]) = VisibleRow(ann[u])
    BY Zenon DEF Inv, TypeOK
<1> QED BY Zenon, <1>1 DEF Seen

\* When the two loops of SetTimePoint are done, the candidates whose time has
\* come are the READY and the BEST ones, and the BEST ones of the peer are what
\* the rules let it be asked for.
LEMMA BestIsRequestable ==
    ASSUME Inv, pc = "back", \A x \in All(Selectable) : Due(x)
    PROVE  {t \in TxHashes : call.peer \in In(ann[t], {"BEST"})}
               = Rules!Requestable(call.peer, call.now)
<1> DEFINE p == call.peer
           now == call.now
<1>1. p \in Peers /\ now \in Nat
    BY Zenon, TxRequestAssumption DEF Inv, TypeOK
<1>2. SUFFICES ASSUME NEW t \in TxHashes
               PROVE  p \in In(ann[t], {"BEST"}) <=>
                      /\ Rules!In(Seen[t], {"REQUESTED"}) = {}
                      /\ p \in Rules!Viable(t, now)
                      /\ \A q \in Rules!Viable(t, now) :
                             Rules!Priority(t, q, Seen[t][q].preferred)
                             <= Rules!Priority(t, p, Seen[t][p].preferred)
    BY Zenon DEF Rules!Requestable, Seen, VisibleRow
<1> DEFINE f == ann[t]
           F == VisibleRow(f)
<1>3. f \in Row /\ Sane(t, f) /\ Seen[t] = F
    BY Zenon, RowFacts DEF Seen
<1>4. ASSUME NEW q \in Peers, f[q] # NoAnn
      PROVE  /\ F[q].time = f[q].time /\ F[q].preferred = f[q].preferred /\ f[q].time \in Nat
             /\ St(f, q) \in Waiting => ~(f[q].time <= now)
             /\ St(f, q) \in Selectable => f[q].time <= now
    <2>1. f[q] \in Announcements /\ St(f, q) = f[q].state
        BY Zenon, <1>3, <1>4 DEF Row, St
    <2>2. F[q].time = f[q].time /\ F[q].preferred = f[q].preferred
        BY Zenon, <2>1, VisibleFields DEF VisibleRow
    <2>3. f[q].time \in Nat
        BY Zenon, <2>1, TxRequestAssumption DEF Announcements
    <2>4. St(f, q) \in Waiting => ~(f[q].time <= now)
        <3>1. St(f, q) \in Waiting => <<t, q>> \in All(Waiting)
            BY Zenon, <1>4, <2>1 DEF All, In
        <3> QED BY Zenon, <3>1 DEF Inv, NothingDue, Due, TimeOf
    <2>5. St(f, q) \in Selectable => f[q].time <= now
        <3>1. St(f, q) \in Selectable => <<t, q>> \in All(Selectable)
            BY Zenon, <1>4, <2>1 DEF All, In
        <3> QED BY Zenon, <3>1 DEF Due, TimeOf
    <2> QED BY Zenon, <2>2, <2>3, <2>4, <2>5
<1>5. \A q : q \in Rules!Viable(t, now) <=> q \in Peers /\ St(f, q) \in Selectable
    <2>1. \A q : q \in Rules!Viable(t, now) <=> q \in Rules!In(F, {"CANDIDATE"}) /\ F[q].time <= now
        BY Zenon DEF Rules!Viable, VisibleRow
    <2>2. \A q : q \in Rules!In(F, {"CANDIDATE"}) <=> q \in Peers /\ St(f, q) \in Candidates
        BY Zenon, <1>3, VisibleStates
    <2>3. \A q \in Peers : St(f, q) \in Candidates => f[q] # NoAnn
        BY Zenon DEF St, Candidates
    <2>4. \A s : s \in Candidates <=> s = "DELAYED" \/ s \in Selectable
        BY Zenon DEF Candidates, Selectable
    <2>5. "DELAYED" \in Waiting
        BY Zenon DEF Waiting
    <2> QED BY Zenon, <1>4, <2>1, <2>2, <2>3, <2>4, <2>5
<1>6. \A q \in Peers : St(f, q) \in Selectable =>
          /\ Rules!Priority(t, q, Seen[t][q].preferred) = PriorityOf(t, f, q)
          /\ PriorityOf(t, f, q) \in Nat
    <2>1. \A q \in Peers : St(f, q) \in Selectable => f[q] # NoAnn
        BY Zenon DEF St, Selectable
    <2>2. ASSUME NEW q \in Peers, St(f, q) \in Selectable
          PROVE  Rules!Priority(t, q, Seen[t][q].preferred) = PriorityOf(t, f, q)
        <3>1. Seen[t][q].preferred = f[q].preferred
            BY Zenon, <1>3, <1>4, <2>1, <2>2
        <3> QED BY Zenon, <3>1 DEF Rules!Priority, PriorityOf, Priority
    <2>3. ASSUME NEW q \in Peers, St(f, q) \in Selectable
          PROVE  PriorityOf(t, f, q) \in Nat
        BY <1>3, <2>1, <2>3, PriorityFacts
    <2> QED BY Zenon, <2>2, <2>3
<1>7. Rules!In(Seen[t], {"REQUESTED"}) = {} <=> \A q \in Peers : St(f, q) # "REQUESTED"
    BY Zenon, <1>3, VisibleStates
<1>8. p \in In(f, {"BEST"}) <=> St(f, p) = "BEST"
    BY Zenon, <1>1, <1>3, InSets
<1>9. /\ \A q, r \in Peers : St(f, q) \in Selected /\ St(f, r) \in Selected => q = r
      /\ \A q \in Peers : St(f, q) = "READY" => \E r \in Peers : St(f, r) \in Selected
      /\ \A q, r \in Peers : St(f, q) = "BEST" /\ St(f, r) = "READY" =>
             PriorityOf(t, f, r) <= PriorityOf(t, f, q)
    BY Zenon, <1>3, SaneFacts
<1>10. St(f, p) = "BEST" <=>
           /\ \A q \in Peers : St(f, q) # "REQUESTED"
           /\ St(f, p) \in Selectable
           /\ \A q \in Peers : St(f, q) \in Selectable =>
                  PriorityOf(t, f, q) <= PriorityOf(t, f, p)
    <2>1. ASSUME St(f, p) = "BEST", NEW q \in Peers, St(f, q) \in Selectable
          PROVE  PriorityOf(t, f, q) <= PriorityOf(t, f, p)
        BY <1>1, <1>6, <1>9, <2>1 DEF Selectable, Selected
    <2>2. ASSUME St(f, p) = "BEST"
          PROVE  (\A q \in Peers : St(f, q) # "REQUESTED") /\ St(f, p) \in Selectable
        BY Zenon, <1>1, <1>9, <2>2 DEF Selectable, Selected
    <2>3. ASSUME \A q \in Peers : St(f, q) # "REQUESTED", St(f, p) = "READY",
                 \A q \in Peers : St(f, q) \in Selectable =>
                     PriorityOf(t, f, q) <= PriorityOf(t, f, p)
          PROVE  FALSE
        <3>1. PICK r \in Peers : St(f, r) = "BEST"
            BY Zenon, <1>1, <1>9, <2>3 DEF Selected
        <3>2. PriorityOf(t, f, r) = PriorityOf(t, f, p)
            BY <1>1, <1>6, <1>9, <2>3, <3>1 DEF Selectable
        <3> QED BY Zenon, <1>1, <1>3, <2>3, <3>1, <3>2, PriorityFacts DEF St
    <2> QED BY Zenon, <2>1, <2>2, <2>3 DEF Selectable
<1> QED BY Zenon, <1>1, <1>5, <1>6, <1>7, <1>8, <1>10

\* An empty tracker is an empty tracker to the rules.
LEMMA RefinementInit == Init => Rules!Init
<1> SUFFICES ASSUME Init PROVE Rules!Init
    BY Zenon
<1>1. \A t \in TxHashes : ann[t] = Empty
    BY Zenon DEF Init
<1>2. VisibleRow(Empty) = Rules!Empty
    BY Zenon DEF Empty, VisibleRow, Visible, Rules!Empty
<1>3. Seen = [t \in TxHashes |-> Rules!Empty]
    BY Zenon, <1>1, <1>2 DEF Seen
<1> QED BY Zenon, <1>3 DEF Init, Rules!Init, Seen, VisibleRow

\* A call is in progress exactly when pc is not idle.
LEMMA CallFacts ==
    ASSUME Inv
    PROVE  /\ pc = "idle" <=> call = NoCall
           /\ pc = "disconnect" => call.now = -1
           /\ pc \in {"forward", "back"} => call.now # -1 /\ call.now \in Times
           /\ pc # "idle" => call.peer \in Peers
<1>1. Times \subseteq Nat
    BY Zenon, TxRequestAssumption
<1> QED BY <1>1 DEF Inv, TypeOK

\* ReceivedInv is ReceivedInv of the rules.
LEMMA RefineReceivedInv ==
    ASSUME Inv, NEW p \in Peers, NEW t \in TxHashes, NEW preferred \in BOOLEAN,
           NEW reqtime \in Times, ReceivedInv(p, t, preferred, reqtime)
    PROVE  Rules!ReceivedInv(p, t, preferred, reqtime)
<1> DEFINE a == [state |-> "DELAYED", time |-> reqtime, preferred |-> preferred,
                 seq |-> m_current_sequence]
           c == [state |-> "CANDIDATE", time |-> reqtime, preferred |-> preferred,
                 seq |-> m_current_sequence]
           g == [ann[t] EXCEPT ![p] = a]
<1>1. ann[t] \in Row /\ ann[t][p] = NoAnn /\ m_current_sequence \in Nat
    BY RowFacts, TxRequestAssumption DEF ReceivedInv, Inv, TypeOK
<1>2. a \in Announcements /\ a # NoAnn /\ Visible(a) = c
    <2>1. a \in Announcements
        BY Zenon, <1>1 DEF Announcements, States, Candidates
    <2>2. a # NoAnn
        BY Zenon, <2>1, VisibleFields
    <2> QED BY Zenon, <2>1, <2>2 DEF Visible, Candidates, SetState
<1> HIDE DEF a, c
<1>3. g \in Row /\ \A q \in Peers : g[q] = IF q = p THEN a ELSE ann[t][q]
    BY Zenon, <1>1, <1>2 DEF Row
<1>4. VisibleRow(g) = [VisibleRow(ann[t]) EXCEPT ![p] = c]
    <2>1. \A q \in Peers : Visible(g[q]) = IF q = p THEN c ELSE Visible(ann[t][q])
        BY <1>2, <1>3
    <2> QED BY Zenon, <2>1 DEF VisibleRow
<1>5. ann' = [ann EXCEPT ![t] = g]
    BY Zenon DEF ReceivedInv, a
<1> HIDE DEF g
<1>6. Seen' = [Seen EXCEPT ![t] = [Seen[t] EXCEPT ![p] = c]]
    <2>1. Seen' = [Seen EXCEPT ![t] = VisibleRow(g)] /\ Seen[t] = VisibleRow(ann[t])
        BY Zenon, <1>3, <1>5, SeenStep
    <2> QED BY Zenon, <1>4, <2>1
<1>7. Seen[t][p] = NoAnn
    BY Zenon, <1>1 DEF Seen, VisibleRow, Visible
<1> QED BY Zenon, <1>6, <1>7, CallFacts DEF Rules!ReceivedInv, ReceivedInv, Seen, VisibleRow, c

\* RequestedTx is RequestedTx of the rules.
LEMMA RefineRequestedTx ==
    ASSUME Inv, NEW p \in Peers, NEW t \in TxHashes, NEW expiry \in Times,
           RequestedTx(p, t, expiry)
    PROVE  Rules!RequestedTx(p, t, expiry)
<1> DEFINE g == Requested(ann[t], p, expiry)
           F == VisibleRow(ann[t])
<1>1. ann[t] \in Row /\ Sane(t, ann[t]) /\ p \in In(ann[t], Candidates)
    BY Zenon, RowFacts DEF RequestedTx, MayRequest
<1>2. g \in Row /\ VisibleRow(g) = Asked(F, p, expiry)
    BY Zenon, <1>1, RequestedRow
<1>3. Seen' = [Seen EXCEPT ![t] = VisibleRow(g)] /\ Seen[t] = F
    BY Zenon, <1>2, SeenStep DEF RequestedTx, Store
<1>4. p \in Rules!In(Seen[t], {"CANDIDATE"})
    BY Zenon, <1>1, <1>3, VisibleSets
<1>5. Seen' = [Seen EXCEPT ![t] = Asked(Seen[t], p, expiry)]
    BY Zenon, <1>2, <1>3
<1>6. /\ pc = "idle" /\ ret' = <<>> /\ UNCHANGED <<m_current_sequence, call>>
    BY Zenon DEF RequestedTx
<1> QED BY Zenon, <1>4, <1>5, <1>6, CallFacts DEF Rules!RequestedTx, Seen, VisibleRow, Asked

\* ReceivedResponse is ReceivedResponse of the rules.
LEMMA RefineReceivedResponse ==
    ASSUME Inv, NEW p \in Peers, NEW t \in TxHashes, ReceivedResponse(p, t)
    PROVE  Rules!ReceivedResponse(p, t)
<1> DEFINE g == MakeCompleted(t, ann[t], p)
<1>1. ann[t] \in Row /\ Sane(t, ann[t]) /\ ann[t][p] # NoAnn
    BY Zenon, RowFacts DEF ReceivedResponse
<1>2. g \in Row /\ VisibleRow(g) = Rules!Failed(VisibleRow(ann[t]), p)
    BY Zenon, <1>1, MakeCompletedRow
<1>3. Seen' = [Seen EXCEPT ![t] = VisibleRow(g)] /\ Seen[t] = VisibleRow(ann[t])
    BY Zenon, <1>2, SeenStep DEF ReceivedResponse, Store
<1>4. Seen[t][p] # NoAnn
    BY Zenon, <1>1, <1>3, VisibleSets
<1>5. Seen' = [Seen EXCEPT ![t] = Rules!Failed(Seen[t], p)]
    BY Zenon, <1>2, <1>3
<1> QED BY Zenon, <1>4, <1>5, CallFacts DEF Rules!ReceivedResponse, ReceivedResponse, Seen, VisibleRow

\* ForgetTxHash is ForgetTxHash of the rules.
LEMMA RefineForgetTxHash ==
    ASSUME Inv, NEW t \in TxHashes, ForgetTxHash(t)
    PROVE  Rules!ForgetTxHash(t)
<1>1. Empty \in Row /\ VisibleRow(Empty) = Rules!Empty
    BY Zenon, RowFacts, EmptyRow
<1>2. Seen' = [Seen EXCEPT ![t] = Rules!Empty]
    BY Zenon, <1>1, SeenStep DEF ForgetTxHash, Store
<1> QED BY Zenon, <1>2, CallFacts DEF Rules!ForgetTxHash, ForgetTxHash, Seen, VisibleRow

\* One announcement of DisconnectedPeer is Disconnect of the rules.
LEMMA RefineDisconnectOne ==
    ASSUME Inv, NEW t \in TxHashes, DisconnectOne(t)
    PROVE  Rules!Disconnect(t)
<1> DEFINE p == call.peer
           g == [MakeCompleted(t, ann[t], p) EXCEPT ![p] = NoAnn]
<1>1. /\ ann[t] \in Row /\ Sane(t, ann[t]) /\ ann[t][p] # NoAnn /\ p \in Peers
      /\ call # NoCall /\ call.now = -1
    BY Zenon, RowFacts, CallFacts DEF DisconnectOne
<1>2. g \in Row /\ VisibleRow(g) = Gone(VisibleRow(ann[t]), p)
    BY Zenon, <1>1, DisconnectRow
<1>3. ann' = [ann EXCEPT ![t] = g]
    BY Zenon DEF DisconnectOne, Store
<1> HIDE DEF g
<1>4. Seen' = [Seen EXCEPT ![t] = VisibleRow(g)] /\ Seen[t] = VisibleRow(ann[t])
    BY Zenon, <1>2, <1>3, SeenStep
<1>5. Seen[t][p] # NoAnn
    BY Zenon, <1>1, <1>4, VisibleSets
<1>6. Seen' = [Seen EXCEPT ![t] = Gone(Seen[t], p)]
    BY Zenon, <1>2, <1>4
<1> QED BY Zenon, <1>1, <1>5, <1>6 DEF Rules!Disconnect, DisconnectOne, Seen, VisibleRow, Gone

\* The first loop of SetTimePoint lets requests expire; that announcements
\* become READY or BEST is not seen.
LEMMA RefineForward ==
    ASSUME Inv, NEW t \in TxHashes, NEW p \in Peers, SetTimePointForward(t, p)
    PROVE  Rules!Expire(p, t) \/ UNCHANGED Rules!vars
<1>1. /\ ann[t] \in Row /\ Sane(t, ann[t]) /\ p \in In(ann[t], Waiting)
      /\ ann[t][p].time <= call.now /\ call # NoCall
      /\ UNCHANGED <<m_current_sequence, call, ret>>
    BY Zenon, RowFacts, CallFacts DEF SetTimePointForward, All
<1>2. /\ ann[t][p] # NoAnn /\ ann[t][p] \in Announcements
      /\ St(ann[t], p) = ann[t][p].state /\ St(ann[t], p) \in Waiting
    BY Zenon, <1>1 DEF In, St, Row
<1>3. CASE ann[t][p].state = "DELAYED"
    <2> DEFINE g == PromoteCandidateReady(t, ann[t], p)
    <2>1. g \in Row /\ VisibleRow(g) = VisibleRow(ann[t])
        BY <1>1, <1>2, <1>3, PromoteRow
    <2>2. ann' = [ann EXCEPT ![t] = g]
        BY Zenon, <1>3 DEF SetTimePointForward, Store
    <2> HIDE DEF g
    <2>3. Seen' = Seen
        BY Zenon, <2>1, <2>2, SeenSame
    <2> QED BY Zenon, <1>1, <2>3 DEF Rules!vars, Seen, VisibleRow
<1>4. CASE ann[t][p].state # "DELAYED"
    <2> DEFINE g == MakeCompleted(t, ann[t], p)
    <2>1. g \in Row /\ VisibleRow(g) = Rules!Failed(VisibleRow(ann[t]), p)
        BY Zenon, <1>1, <1>2, MakeCompletedRow
    <2>2. ann' = [ann EXCEPT ![t] = g]
        BY Zenon, <1>4 DEF SetTimePointForward, Store
    <2> HIDE DEF g
    <2>3. Seen' = [Seen EXCEPT ![t] = VisibleRow(g)] /\ Seen[t] = VisibleRow(ann[t])
        BY Zenon, <2>1, <2>2, SeenStep
    <2>4. p \in Rules!In(Seen[t], {"REQUESTED"})
        <3>1. St(ann[t], p) = "REQUESTED"
            BY Zenon, <1>2, <1>4 DEF Waiting
        <3> QED BY Zenon, <1>1, <2>3, <3>1, VisibleStates
    <2>5. Seen[t][p].time <= call.now
        BY Zenon, <1>1, <1>2, <2>3, VisibleFields DEF VisibleRow
    <2>6. Seen' = [Seen EXCEPT ![t] = Rules!Failed(Seen[t], p)]
        BY Zenon, <2>1, <2>3
    <2> QED BY Zenon, <1>1, <2>4, <2>5, <2>6 DEF Rules!Expire, Seen, VisibleRow
<1> QED BY Zenon, <1>3, <1>4

\* The second loop of SetTimePoint is not seen by the caller.
LEMMA RefineBack ==
    ASSUME Inv, NEW t \in TxHashes, NEW p \in Peers, SetTimePointBack(t, p)
    PROVE  UNCHANGED Rules!vars
<1> DEFINE g == ChangeAndReselect(t, ann[t], p, "DELAYED")
<1>1. g \in Row /\ VisibleRow(g) = VisibleRow(ann[t])
    BY Zenon, BackRow
<1>2. ann' = [ann EXCEPT ![t] = g] /\ UNCHANGED <<m_current_sequence, call, ret>>
    BY Zenon DEF SetTimePointBack, Store
<1> HIDE DEF g
<1>3. Seen' = Seen
    BY Zenon, <1>1, <1>2, SeenSame
<1> QED BY Zenon, <1>2, <1>3 DEF Rules!vars, Seen, VisibleRow

\* What GetRequestable returns is what the rules define.
LEMMA RefineReturn ==
    ASSUME Inv, GetRequestableReturn
    PROVE  Rules!EndGetRequestable
<1> DEFINE best == {t \in TxHashes : call.peer \in In(ann[t], {"BEST"})}
           number == [t \in best |-> ann[t][call.peer].seq]
<1>1. /\ pc = "back" /\ call # NoCall /\ call.now # -1 /\ call.now \in Nat
      /\ call.peer \in Peers /\ Seen' = Seen
      /\ ret' = InOrder(best, number) /\ call' = NoCall
      /\ UNCHANGED m_current_sequence
    BY Zenon, CallFacts, TxRequestAssumption DEF GetRequestableReturn, Seen
<1>2. best = Rules!Requestable(call.peer, call.now)
    BY Zenon, BestIsRequestable DEF GetRequestableReturn
<1>3. number = [t \in best |-> Seen[t][call.peer].seq]
    <2>1. ASSUME NEW t \in best PROVE Seen[t][call.peer].seq = ann[t][call.peer].seq
        <3>1. ann[t][call.peer] \in Announcements
            BY Zenon, <1>1, RowFacts DEF In, Row
        <3> QED BY Zenon, <1>1, <3>1, VisibleFields DEF Seen, VisibleRow
    <2> QED BY Zenon, <2>1
<1>4. ASSUME NEW t \in TxHashes, NEW p \in Rules!In(Seen[t], {"REQUESTED"})
      PROVE  Seen[t][p].time > call.now
    <2>1. ann[t] \in Row /\ Seen[t] = VisibleRow(ann[t])
        BY Zenon, RowFacts DEF Seen
    <2>2. p \in In(ann[t], {"REQUESTED"})
        BY Zenon, <2>1, VisibleSets
    <2>3. <<t, p>> \in All(Waiting) /\ p \in Peers /\ ann[t][p] \in Announcements
        BY Zenon, <2>1, <2>2 DEF All, In, Waiting, Row
    <2>4. ~(ann[t][p].time <= call.now)
        BY Zenon, <1>1, <2>3 DEF Inv, NothingDue, Due, TimeOf
    <2>5. ann[t][p].time \in Nat
        BY Zenon, <2>3, TxRequestAssumption DEF Announcements
    <2>6. Seen[t][p].time = ann[t][p].time
        BY Zenon, <2>1, <2>3, VisibleFields DEF VisibleRow
    <2> QED BY <1>1, <2>4, <2>5, <2>6
<1> HIDE DEF best, number
<1>5. ret' = Rules!InOrder(best, [t \in best |-> Seen[t][call.peer].seq])
    <2>1. InOrder(best, number) = Rules!InOrder(best, number)
        BY Zenon DEF InOrder, Rules!InOrder, Cardinality, Rules!Cardinality
    <2> QED BY <1>1, <1>3, <2>1, Zenon
<1> QED BY Zenon, <1>1, <1>2, <1>4, <1>5 DEF Rules!EndGetRequestable, Seen, VisibleRow

\* Every step is a step of the rules or is not seen.
LEMMA RefinementNext == Inv /\ [Next]_vars => [Rules!Next]_(Rules!vars)
<1> SUFFICES ASSUME Inv, [Next]_vars PROVE Rules!Next \/ UNCHANGED Rules!vars
    BY Zenon
<1>1. ASSUME NEW p \in Peers, NEW t \in TxHashes, NEW preferred \in BOOLEAN,
             NEW time \in Times, ReceivedInv(p, t, preferred, time)
      PROVE  Rules!Next
    BY Zenon, <1>1, RefineReceivedInv DEF Rules!Next
<1>2. ASSUME NEW p \in Peers, NEW t \in TxHashes, NEW time \in Times, RequestedTx(p, t, time)
      PROVE  Rules!Next
    BY Zenon, <1>2, RefineRequestedTx DEF Rules!Next
<1>3. ASSUME NEW p \in Peers, NEW t \in TxHashes, ReceivedResponse(p, t) PROVE Rules!Next
    BY Zenon, <1>3, RefineReceivedResponse DEF Rules!Next
<1>4. ASSUME NEW t \in TxHashes, ForgetTxHash(t) PROVE Rules!Next
    BY Zenon, <1>4, RefineForgetTxHash DEF Rules!Next
<1>5. ASSUME NEW t \in TxHashes, DisconnectOne(t) PROVE Rules!Next
    BY Zenon, <1>5, RefineDisconnectOne DEF Rules!Next
<1>6. ASSUME NEW t \in TxHashes, NEW p \in Peers, SetTimePointForward(t, p)
      PROVE  Rules!Next \/ UNCHANGED Rules!vars
    BY Zenon, <1>6, RefineForward DEF Rules!Next
<1>7. ASSUME NEW t \in TxHashes, NEW p \in Peers, SetTimePointBack(t, p)
      PROVE  UNCHANGED Rules!vars
    BY Zenon, <1>7, RefineBack
<1>8. ASSUME NEW p \in Peers, DisconnectedPeer(p) PROVE Rules!Next
    <2>1. Rules!BeginDisconnect(p)
        BY Zenon, <1>8, CallFacts DEF DisconnectedPeer, Rules!BeginDisconnect
    <2> QED BY Zenon, <2>1 DEF Rules!Next
<1>9. ASSUME NEW p \in Peers, NEW now \in Times, GetRequestable(p, now) PROVE Rules!Next
    <2>1. Rules!BeginGetRequestable(p, now)
        BY Zenon, <1>9, CallFacts DEF GetRequestable, Rules!BeginGetRequestable
    <2> QED BY Zenon, <2>1 DEF Rules!Next
<1>10. CASE DisconnectDone
    <2>1. \A t \in TxHashes : Seen[t][call.peer] = NoAnn
        BY Zenon, <1>10, CallFacts DEF DisconnectDone, Seen, VisibleRow, Visible
    <2>2. Rules!EndDisconnect
        BY Zenon, <1>10, <2>1, CallFacts DEF DisconnectDone, Rules!EndDisconnect, Seen, VisibleRow
    <2> QED BY Zenon, <2>2 DEF Rules!Next
<1>11. CASE SetTimePointTurn
    BY Zenon, <1>11 DEF SetTimePointTurn, Rules!vars
<1>12. CASE GetRequestableReturn
    BY Zenon, <1>12, RefineReturn DEF Rules!Next
<1>13. CASE UNCHANGED vars
    BY Zenon, <1>13 DEF vars, Rules!vars
<1> QED BY Zenon, <1>1, <1>2, <1>3, <1>4, <1>5, <1>6, <1>7, <1>8, <1>9, <1>10, <1>11, <1>12, <1>13
        DEF Next, Walk

\* The tracker implements the rules in the comment of TxRequestTracker: what a
\* caller can tell of the announcements, and what GetRequestable returns, follow
\* from the rules alone, for any peers, transactions, priorities and clock.
THEOREM Refinement == Spec => ImplementsRules
<1>1. Spec => Rules!Spec
    BY Invariance, RefinementInit, RefinementNext, PTL DEF Spec, Rules!Spec
<1> QED BY Zenon, <1>1 DEF ImplementsRules
=============================================================================
