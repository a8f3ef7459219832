--------------------------- MODULE CheckQueueProofs ---------------------------
(***************************************************************************)
(* Proofs about CheckQueue, for any number of workers and masters, any     *)
(* batch size and any number of checks: the counters are exact, Complete   *)
(* returns the right verdict, and nothing is left when it has returned.    *)
(***************************************************************************)
EXTENDS CheckQueue, TLAPS

WorkerPc == {"lock", "wait", "woken", "work", "done"}
MasterPc == {"out", "add", "notify_one", "notify_all", "lock", "wait", "woken",
             "work", "ret"}

\* Only the holder of m_control_mutex is inside a round, and none is once the
\* queue is being destroyed.
OneMaster ==
    /\ \A w \in Workers : pc[w] \in WorkerPc
    /\ \A m \in Masters : pc[m] \in MasterPc /\ (pc[m] # "out" <=> control = m)
    /\ m_request_stop => control = NoThread

\* A thread has a batch while it works on it, and nNow is its size until it has
\* been accounted for.
Batches ==
    \A t \in Threads :
        /\ IF pc[t] = "work" THEN nNow[t] = Len(vChecks[t]) /\ nNow[t] > 0
           ELSE vChecks[t] = <<>>
        /\ pc[t] \in {"wait", "woken", "ret", "out", "add", "notify_one", "notify_all"}
               => nNow[t] = 0

Idle   == {t \in Threads : pc[t] \in {"wait", "woken"}}
InLoop == {t \in Threads : \/ pc[t] \in {"wait", "woken", "work", "done"}
                           \/ pc[t] = "lock" /\ nNow[t] > 0}

Counters ==
    /\ nTodo = Len(queue) + Cardinality(PlacesIn(Threads, Unfinished))
    /\ nIdle = Cardinality(Idle)
    /\ nTotal = Cardinality(InLoop)

\* A check is in one place: queued, held by one thread, evaluated or dropped.
OnePlace ==
    /\ IsInjective(queue)
    /\ \A t \in Threads :
        /\ IsInjective(vChecks[t])
        /\ Range(vChecks[t]) \cap (Range(queue) \cup executed) = {}
        /\ \A u \in Threads \ {t} : Range(vChecks[t]) \cap Range(vChecks[u]) = {}
    /\ Range(queue) \cap executed = {}

\* The checks that exist are those added in this round.
Bounded ==
    /\ Range(queue) \subseteq 1..added
    /\ \A t \in Threads : Range(vChecks[t]) \subseteq 1..added
    /\ bad \subseteq 1..added /\ executed \subseteq 1..added
    /\ nTodo <= added
    /\ control = NoThread => added = 0

\* Complete has not returned yet.
InRound == control # NoThread /\ pc[control] # "ret"

\* The error of a batch that has run is on its way to m_result.
Reporting(t) == pc[t] = "lock" /\ nNow[t] > 0 /\ local_result[t] = Failure
Erred == m_result = Failure \/ \E t \in Threads : Reporting(t)

Held(c) == c \in Range(queue) \/ \E t \in Threads : c \in Range(vChecks[t])

\* While no error is known every check is queued, held or has been evaluated
\* without an error; an error is known only if some check fails; and a batch is
\* skipped only if an error is known.
Errors ==
    /\ Erred => bad # {}
    /\ InRound /\ ~Erred => /\ \A c \in 1..added : Held(c) \/ c \in executed
                            /\ executed \cap bad = {}
    /\ \A t \in Threads : pc[t] = "work" /\ ~do_work[t] => m_result = Failure

\* Once the master has its verdict nothing is left of the round.
Finished ==
    ~InRound => queue = <<>> /\ nTodo = 0 /\ m_result = NoResult

Verdict ==
    /\ VerdictCorrect
    /\ control = NoThread \/ InRound => verdict = NoVerdict

QueueInv ==
    /\ TypeOK /\ OneMaster /\ Batches /\ Counters /\ OnePlace /\ Bounded
    /\ Errors /\ Finished /\ Verdict
-----------------------------------------------------------------------------
(* Counting. *)

\* What the proofs need to know about sets: a set of threads is a thread of it and
\* the others; the places in the batches of all threads are those of one thread and
\* those of the others; a set of natural numbers has a least one; and only the empty
\* set has no members to count.  The library's theorems prove these facts at the end
\* of the module; the lemmas before that point assume them.
ThreadsAdd ==
    \A S \in SUBSET Threads, t \in Threads :
        /\ Cardinality(S) \in Nat /\ Cardinality(S \ {t}) \in Nat
        /\ Cardinality(S) = Cardinality(S \ {t}) + (IF t \in S THEN 1 ELSE 0)

PlacesAdd ==
    \A f \in [Threads -> 0..nBatchSize], t \in Threads :
        /\ IsFiniteSet(PlacesIn(Threads \ {t}, f))
        /\ Cardinality(PlacesIn(Threads, f)) \in Nat
        /\ Cardinality(PlacesIn(Threads \ {t}, f)) \in Nat
        /\ Cardinality(PlacesIn(Threads, f)) =
               Cardinality(PlacesIn(Threads \ {t}, f)) + f[t]

LeastExists ==
    \A T \in SUBSET Nat : T # {} => \E m \in T : \A n \in T : m <= n

NoneCounted ==
    \A S : IsFiniteSet(S) => (Cardinality(S) = 0 <=> S = {})

CountingFacts == ThreadsAdd /\ PlacesAdd /\ LeastExists /\ NoneCounted

\* Adding nothing.
LEMMA PlusNothing == \A m, k \in Nat : m + k + 0 = m + k /\ m + 0 = m
OBVIOUS

\* The sizes of a batch: 0 for a thread that has none.
LEMMA NoBatch == 0 \in 0..nBatchSize /\ \A n \in 1..nBatchSize : n \in 0..nBatchSize /\ n > 0
BY CheckQueueAssumption

\* A set of threads is a thread of it and the others.
LEMMA CountSplit ==
    ASSUME CountingFacts, NEW S \in SUBSET Threads, NEW t \in Threads
    PROVE  /\ Cardinality(S) \in Nat /\ Cardinality(S \ {t}) \in Nat
           /\ Cardinality(S) = Cardinality(S \ {t}) + (IF t \in S THEN 1 ELSE 0)
BY Zenon DEF CountingFacts, ThreadsAdd

\* The places in the batches of all threads are those of one thread and those of
\* the others.
LEMMA PlacesSplit ==
    ASSUME CountingFacts, NEW f \in [Threads -> 0..nBatchSize], NEW t \in Threads
    PROVE  /\ IsFiniteSet(PlacesIn(Threads \ {t}, f))
           /\ Cardinality(PlacesIn(Threads, f)) \in Nat
           /\ Cardinality(PlacesIn(Threads \ {t}, f)) \in Nat
           /\ Cardinality(PlacesIn(Threads, f)) =
                  Cardinality(PlacesIn(Threads \ {t}, f)) + f[t]
BY Zenon DEF CountingFacts, PlacesAdd

\* A set of natural numbers has a least element.
LEMMA LeastOf ==
    ASSUME CountingFacts, NEW T \in SUBSET Nat, T # {}
    PROVE  Min(T) \in T /\ \A n \in T : Min(T) <= n
BY Zenon DEF CountingFacts, LeastExists, Min

\* Division rounds down (GetBatchSize divides by the number of threads).
LEMMA Quotient ==
    ASSUME NEW n \in Nat, NEW k \in Nat, k > 0
    PROVE  n \div k \in Nat /\ n \div k <= n
<1>1. n \div k >= 0 /\ n \div k \in Int  OBVIOUS
<1>2. n \div k <= n  OBVIOUS
<1> QED  BY <1>1, <1>2

\* A thread takes between one check and what it finds or may take.
LEMMA BatchSizeBounds ==
    ASSUME NEW c, c.total \in Nat, c.idle \in Nat, queue \in Seq(Checks), queue # <<>>
    PROVE  BatchSize(c) \in 1..nBatchSize /\ BatchSize(c) \in 1..Len(queue)
<1> DEFINE k == c.total + c.idle + 1
           q == Len(queue) \div k
           m == Min({nBatchSize, q})
<1>1. Len(queue) \in Nat \ {0} /\ nBatchSize \in Nat \ {0}
    BY CheckQueueAssumption
<1>2. q \in Nat /\ q <= Len(queue)
    <2>1. k \in Nat /\ k > 0  OBVIOUS
    <2> HIDE DEF k
    <2> QED  BY Zenon, <1>1, <2>1, Quotient
<1> HIDE DEF q
<1>3. m \in Nat /\ m <= q /\ m <= nBatchSize
    <2>1. \E x \in {nBatchSize, q} : \A y \in {nBatchSize, q} : x =< y
        BY <1>1, <1>2
    <2> QED  BY Zenon, <1>1, <1>2, <2>1 DEF Min
<1> HIDE DEF m
<1>4. Max({1, m}) \in {1, m} /\ Max({1, m}) >= 1
    <2>1. \E x \in {1, m} : \A y \in {1, m} : x >= y  BY <1>3
    <2> QED  BY Zenon, <1>3, <2>1 DEF Max
<1> QED  BY <1>1, <1>2, <1>3, <1>4 DEF BatchSize, m, q, k
-----------------------------------------------------------------------------
(* A step of thread t leaves the others where they are, except that it may *)
(* notify one that waits.                                                  *)

OthersStay(t) ==
    \A u \in Threads \ {t} :
        /\ pc'[u] = pc[u] \/ (pc[u] = "wait" /\ pc'[u] = "woken")
        /\ nNow'[u] = nNow[u]

\* If the other threads stay, so do the checks they hold and their share of
\* nIdle and nTotal.
LEMMA OthersCounted ==
    ASSUME TypeOK, TypeOK', NEW t \in Threads, OthersStay(t)
    PROVE  /\ PlacesIn(Threads \ {t}, Unfinished') = PlacesIn(Threads \ {t}, Unfinished)
           /\ Idle' \ {t} = Idle \ {t}
           /\ InLoop' \ {t} = InLoop \ {t}
<1>1. \A u \in Threads \ {t} : Unfinished'[u] = Unfinished[u]
    BY Zenon DEF OthersStay, Unfinished
<1>2. PlacesIn(Threads \ {t}, Unfinished') = PlacesIn(Threads \ {t}, Unfinished)
    BY Zenon, <1>1 DEF PlacesIn
<1>3. Idle' \ {t} = Idle \ {t}  BY Zenon DEF OthersStay, Idle
<1>4. InLoop' \ {t} = InLoop \ {t}  BY Zenon DEF OthersStay, InLoop
<1> QED  BY Zenon, <1>2, <1>3, <1>4

\* No thread holds more than a batch (nBatchSize).
LEMMA UnfinishedType == TypeOK => Unfinished \in [Threads -> 0..nBatchSize]
    BY CheckQueueAssumption DEF TypeOK, Unfinished

\* The counters stay exact if the step gets right what changes for its thread.
LEMMA CountersStep ==
    ASSUME CountingFacts, TypeOK, TypeOK', NEW t \in Threads, OthersStay(t),
           nTodo' = Len(queue') + Cardinality(PlacesIn(Threads \ {t}, Unfinished))
                        + Unfinished'[t],
           nIdle' = Cardinality(Idle \ {t}) + (IF t \in Idle' THEN 1 ELSE 0),
           nTotal' = Cardinality(InLoop \ {t}) + (IF t \in InLoop' THEN 1 ELSE 0)
    PROVE  Counters'
<1>1. Unfinished' \in [Threads -> 0..nBatchSize]
    BY CheckQueueAssumption DEF TypeOK, Unfinished
<1>2. /\ Cardinality(PlacesIn(Threads \ {t}, Unfinished')) \in Nat
      /\ Cardinality(PlacesIn(Threads, Unfinished')) =
             Cardinality(PlacesIn(Threads \ {t}, Unfinished')) + Unfinished'[t]
    BY Zenon, <1>1, PlacesSplit
<1>3. Idle' \in SUBSET Threads /\ InLoop' \in SUBSET Threads  BY Zenon DEF Idle, InLoop
<1>4. /\ Cardinality(Idle') = Cardinality(Idle' \ {t}) + (IF t \in Idle' THEN 1 ELSE 0)
      /\ Cardinality(InLoop') = Cardinality(InLoop' \ {t}) + (IF t \in InLoop' THEN 1 ELSE 0)
    BY Zenon, <1>3, CountSplit
<1>5. Len(queue') \in Nat /\ Unfinished'[t] \in Nat
    BY <1>1, CheckQueueAssumption DEF TypeOK
<1>6. nTodo' = Len(queue') + Cardinality(PlacesIn(Threads, Unfinished'))
    BY <1>2, <1>5, OthersCounted
<1>7. nIdle' = Cardinality(Idle') /\ nTotal' = Cardinality(InLoop')
    BY Zenon, <1>4, OthersCounted
<1> QED  BY Zenon, <1>6, <1>7 DEF Counters

\* What the counters are without thread t.
LEMMA CountersWithout ==
    ASSUME CountingFacts, TypeOK, Counters, NEW t \in Threads
    PROVE  /\ Cardinality(PlacesIn(Threads \ {t}, Unfinished)) \in Nat
           /\ nTodo = Len(queue) + Cardinality(PlacesIn(Threads \ {t}, Unfinished))
                          + Unfinished[t]
           /\ Len(queue) \in Nat
           /\ Cardinality(Idle \ {t}) \in Nat
           /\ nIdle = Cardinality(Idle \ {t}) + (IF t \in Idle THEN 1 ELSE 0)
           /\ Cardinality(InLoop \ {t}) \in Nat
           /\ nTotal = Cardinality(InLoop \ {t}) + (IF t \in InLoop THEN 1 ELSE 0)
<1>1. Unfinished \in [Threads -> 0..nBatchSize]  BY Zenon, UnfinishedType
<1>2. /\ Cardinality(PlacesIn(Threads \ {t}, Unfinished)) \in Nat
      /\ Cardinality(PlacesIn(Threads, Unfinished)) =
             Cardinality(PlacesIn(Threads \ {t}, Unfinished)) + Unfinished[t]
    BY Zenon, <1>1, PlacesSplit
<1>3. Idle \in SUBSET Threads /\ InLoop \in SUBSET Threads  BY Zenon DEF Idle, InLoop
<1>4. /\ Cardinality(Idle \ {t}) \in Nat /\ Cardinality(InLoop \ {t}) \in Nat
      /\ Cardinality(Idle) = Cardinality(Idle \ {t}) + (IF t \in Idle THEN 1 ELSE 0)
      /\ Cardinality(InLoop) = Cardinality(InLoop \ {t}) + (IF t \in InLoop THEN 1 ELSE 0)
    BY Zenon, <1>3, CountSplit
<1>5. Len(queue) \in Nat /\ Unfinished[t] \in Nat
    BY <1>1, CheckQueueAssumption DEF TypeOK
<1> QED  BY <1>2, <1>4, <1>5 DEF Counters

\* When nTodo is 0 no check is queued or held by a thread.
LEMMA NothingTodo ==
    ASSUME CountingFacts, TypeOK, Counters, Batches, nTodo = 0
    PROVE  /\ queue = <<>>
           /\ \A t \in Threads : Unfinished[t] = 0 /\ pc[t] # "work" /\ vChecks[t] = <<>>
<1>1. \A t \in Threads : Unfinished[t] = 0 /\ Len(queue) = 0
    <2> TAKE t \in Threads
    <2>1. Len(queue) \in Nat /\ Unfinished[t] \in Nat
        BY UnfinishedType, CheckQueueAssumption DEF TypeOK
    <2>2. /\ Cardinality(PlacesIn(Threads \ {t}, Unfinished)) \in Nat
          /\ nTodo = Len(queue) + Cardinality(PlacesIn(Threads \ {t}, Unfinished))
                         + Unfinished[t]
        BY Zenon, CountersWithout
    <2> QED  BY <2>1, <2>2
<1>2. queue = <<>>  BY <1>1, CheckQueueAssumption DEF TypeOK, Threads
<1>3. \A t \in Threads : pc[t] # "work"
    BY <1>1 DEF Unfinished, Batches, TypeOK
<1> QED  BY Zenon, <1>1, <1>2, <1>3 DEF Batches
-----------------------------------------------------------------------------
(* Steps that only move threads that have no batch. *)

QuietMove ==
    \A t \in Threads :
        \/ pc'[t] = pc[t]
        \/ /\ nNow[t] = 0
           /\ pc[t] \notin {"work", "done"} /\ pc'[t] \notin {"work", "done"}
           /\ pc[t] \in {"wait", "woken"} <=> pc'[t] \in {"wait", "woken"}

\* A step that only moves threads outside Loop, or wakes sleeping ones, keeps the
\* invariant.
LEMMA QuietMoveInv ==
    ASSUME CountingFacts, QueueInv, UNCHANGED <<shared, locals, history>>, QuietMove, TypeOK', OneMaster',
           InRound => InRound', InRound' => InRound \/ control = NoThread,
           control' = NoThread => control = NoThread
    PROVE  QueueInv'
<1> USE DEF shared, locals, history
<1>1. Batches'
    BY Zenon DEF QueueInv, TypeOK, Batches, QuietMove
<1>2. Counters'
    <2>1. Unfinished' = Unfinished  BY Zenon DEF QueueInv, TypeOK, QuietMove, Unfinished
    <2>2. Idle' = Idle  BY Zenon DEF QueueInv, TypeOK, QuietMove, Idle
    <2>3. InLoop' = InLoop  BY DEF QueueInv, TypeOK, QuietMove, InLoop
    <2> QED  BY Zenon, <2>1, <2>2, <2>3 DEF QueueInv, Counters, PlacesIn
<1>3. OnePlace'  BY Zenon DEF QueueInv, OnePlace
<1>4. Bounded'  BY Zenon DEF QueueInv, Bounded
<1>5. Errors'
    <2>1. \A t \in Threads : Reporting(t)' <=> Reporting(t)
        BY DEF QueueInv, TypeOK, QuietMove, Reporting
    <2>2. Erred' <=> Erred  BY Zenon, <2>1 DEF Erred
    <2>3. \A c : Held(c)' <=> Held(c)  BY Zenon DEF Held
    <2>4. \A t \in Threads : pc'[t] = "work" => pc[t] = "work"
        BY Zenon DEF QuietMove
    <2>5. control = NoThread => bad = {} /\ executed = {} /\ 1..added = {}
        BY DEF QueueInv, Bounded
    <2>6. (\A t \in Threads : pc[t] = "work" /\ ~do_work[t] => m_result = Failure)'
        BY Zenon, <2>4 DEF QueueInv, Errors
    <2>7. (Erred => bad # {})'  BY ZenonT(30), <2>2 DEF QueueInv, Errors
    <2>8. (InRound /\ ~Erred => /\ \A c \in 1..added : Held(c) \/ c \in executed
                                /\ executed \cap bad = {})'
        BY Zenon, <2>2, <2>3, <2>5 DEF QueueInv, Errors
    <2> QED  BY Zenon, <2>6, <2>7, <2>8 DEF Errors
<1>6. Finished'  BY Zenon DEF QueueInv, Finished
<1>7. Verdict'  BY Zenon DEF QueueInv, Verdict, VerdictCorrect
<1> QED  BY Zenon, <1>1, <1>2, <1>3, <1>4, <1>5, <1>6, <1>7 DEF QueueInv

\* Locking m_control_mutex starts a round with everything at zero.
LEMMA CreateControlInv ==
    ASSUME CountingFacts, QueueInv, NEW m \in Masters, CreateControl(m) PROVE QueueInv'
<1> USE DEF CreateControl
<1>1. m \in Threads /\ m # NoThread  BY Zenon, CheckQueueAssumption DEF Threads
<1>2. TypeOK'  BY Zenon, <1>1 DEF QueueInv, TypeOK, shared, locals, history
<1>3. OneMaster'
    BY Zenon, <1>1, CheckQueueAssumption DEF QueueInv, TypeOK, OneMaster, MasterPc, WorkerPc, Threads, shared
<1>4. QuietMove  BY Zenon, <1>1 DEF QueueInv, TypeOK, QuietMove, Batches
<1>5. InRound' /\ ~InRound  BY Zenon, <1>1 DEF QueueInv, TypeOK, InRound
<1> QED  BY Zenon, <1>1, <1>2, <1>3, <1>4, <1>5, QuietMoveInv

\* Complete enters Loop as the master; nothing else changes.
LEMMA CompleteInv ==
    ASSUME CountingFacts, QueueInv, NEW m \in Masters, Complete(m) PROVE QueueInv'
<1> USE DEF Complete
<1>1. m \in Threads /\ m # NoThread  BY Zenon, CheckQueueAssumption DEF Threads
<1>2. TypeOK'  BY Zenon, <1>1 DEF QueueInv, TypeOK, shared, locals, history
<1>3. OneMaster'
    BY Zenon, <1>1, CheckQueueAssumption DEF QueueInv, TypeOK, OneMaster, MasterPc, WorkerPc, Threads, shared
<1>4. QuietMove  BY Zenon, <1>1 DEF QueueInv, TypeOK, QuietMove, Batches
<1>5. control = m  BY Zenon DEF QueueInv, OneMaster
<1>6. InRound' /\ InRound  BY Zenon, <1>1, <1>5 DEF QueueInv, TypeOK, InRound
<1> QED  BY Zenon, <1>2, <1>3, <1>4, <1>6, QuietMoveInv

\* Notified threads are woken, whoever notifies.
LEMMA Notified ==
    ASSUME CountingFacts, QueueInv, NEW S \in SUBSET Threads,
           NEW p, p \in NotifyOne(S) \/ p = NotifyAll(S)
    PROVE  /\ p \in [Threads -> {"out", "add", "notify_one", "notify_all", "lock",
                                 "wait", "woken", "work", "ret", "done"}]
           /\ \A t \in Threads : p[t] = pc[t] \/ (pc[t] = "wait" /\ p[t] = "woken")
<1>1. CASE p \in NotifyOne(S)
    <2>1. CASE Waiting(S) = {}  BY Zenon, <1>1, <2>1 DEF NotifyOne, QueueInv, TypeOK
    <2>2. CASE Waiting(S) # {}
        <3>1. PICK w \in Waiting(S) : p = [pc EXCEPT ![w] = "woken"]
            BY Zenon, <1>1, <2>2 DEF NotifyOne
        <3> QED  BY Zenon, <3>1 DEF Waiting, QueueInv, TypeOK
    <2> QED  BY Zenon, <2>1, <2>2
<1>2. CASE p = NotifyAll(S)
    BY Zenon, <1>2 DEF NotifyAll, Waiting, QueueInv, TypeOK
<1> QED  BY Zenon, <1>1, <1>2

\* The notification at the end of Add only wakes workers that wait.
LEMMA AddNotifyInv ==
    ASSUME CountingFacts, QueueInv, NEW m \in Masters, AddNotify(m) PROVE QueueInv'
<1>1. m \in Threads /\ m # NoThread  BY Zenon, CheckQueueAssumption DEF Threads
<1>2. pc[m] \in {"notify_one", "notify_all"}  BY Zenon DEF AddNotify
<1>3. PICK p : /\ p \in NotifyOne(Workers) \/ p = NotifyAll(Workers)
               /\ pc' = [p EXCEPT ![m] = "add"]
    BY Zenon DEF AddNotify
<1>4. /\ p \in [Threads -> {"out", "add", "notify_one", "notify_all", "lock",
                            "wait", "woken", "work", "ret", "done"}]
      /\ \A t \in Threads : p[t] = pc[t] \/ (pc[t] = "wait" /\ p[t] = "woken")
    BY Zenon, <1>3, Notified DEF Threads
<1>5. UNCHANGED <<shared, control, locals, history>>  BY Zenon DEF AddNotify
<1>6. TypeOK'  BY Zenon, <1>1, <1>3, <1>4, <1>5 DEF QueueInv, TypeOK, shared, locals, history
<1>7. OneMaster'
    BY Zenon, <1>1, <1>2, <1>3, <1>4, <1>5, CheckQueueAssumption
    DEF QueueInv, TypeOK, OneMaster, MasterPc, WorkerPc, Threads, shared
<1>8. QuietMove  BY Zenon, <1>1, <1>2, <1>3, <1>4 DEF QueueInv, TypeOK, QuietMove, Batches
<1>9. control = m  BY Zenon, <1>2 DEF QueueInv, OneMaster
<1>10. InRound' /\ InRound  BY Zenon, <1>1, <1>2, <1>3, <1>4, <1>5, <1>9 DEF QueueInv, TypeOK, InRound
<1> QED  BY Zenon, <1>5, <1>6, <1>7, <1>8, <1>10, QuietMoveInv

\* A wakeup nobody asked for changes no counter: the thread is idle until it has
\* the mutex.
LEMMA SpuriousWakeupInv ==
    ASSUME CountingFacts, QueueInv, NEW t \in Threads, SpuriousWakeup(t) PROVE QueueInv'
<1> USE DEF SpuriousWakeup
<1>1. TypeOK'  BY Zenon DEF QueueInv, TypeOK, shared, locals, history
<1>2. OneMaster'
    BY Zenon, CheckQueueAssumption DEF QueueInv, TypeOK, OneMaster, MasterPc, WorkerPc, Threads, shared
<1>3. QuietMove  BY Zenon DEF QueueInv, TypeOK, QuietMove, Batches
<1>4. control # NoThread => control \in Threads  BY Zenon DEF QueueInv, TypeOK, Threads
<1>5. InRound' <=> InRound  BY Zenon, <1>4 DEF QueueInv, TypeOK, InRound
<1> QED  BY Zenon, <1>1, <1>2, <1>3, <1>5, QuietMoveInv

\* The destructor's notification only wakes workers that wait.
LEMMA NotifyStopInv ==
    ASSUME CountingFacts, QueueInv, NotifyStop PROVE QueueInv'
<1>1. pc' = NotifyAll(Workers) /\ UNCHANGED <<shared, control, locals, history>>
    BY Zenon DEF NotifyStop, StopNotify
<1>2. /\ pc' \in [Threads -> {"out", "add", "notify_one", "notify_all", "lock",
                              "wait", "woken", "work", "ret", "done"}]
      /\ \A t \in Threads : pc'[t] = pc[t] \/ (pc[t] = "wait" /\ pc'[t] = "woken")
    BY <1>1, Notified DEF Threads
<1>3. TypeOK'  BY Zenon, <1>1, <1>2 DEF QueueInv, TypeOK, shared, locals, history
<1>4. OneMaster'
    BY Zenon, <1>1, <1>2, CheckQueueAssumption
    DEF QueueInv, TypeOK, OneMaster, MasterPc, WorkerPc, Threads, shared
<1>5. QuietMove  BY Zenon, <1>2 DEF QueueInv, TypeOK, QuietMove, Batches
<1>6. control # NoThread => control \in Threads  BY Zenon DEF QueueInv, TypeOK, Threads
<1>7. InRound' <=> InRound  BY Zenon, <1>1, <1>2, <1>6 DEF InRound
<1> QED  BY Zenon, <1>1, <1>3, <1>4, <1>5, <1>7, QuietMoveInv

\* The destructor runs when no master is in a round, so it interrupts none.
LEMMA RequestStopInv ==
    ASSUME CountingFacts, QueueInv, RequestStop PROVE QueueInv'
<1> USE DEF RequestStop, locals, history
<1>1. TypeOK'  BY Zenon DEF QueueInv, TypeOK
<1>2. OneMaster'  BY Zenon DEF QueueInv, OneMaster
<1>3. Batches'  BY Zenon DEF QueueInv, Batches
<1>4. Counters'  BY Zenon DEF QueueInv, Counters, PlacesIn, Unfinished, Idle, InLoop
<1>5. OnePlace'  BY Zenon DEF QueueInv, OnePlace
<1>6. Bounded'  BY Zenon DEF QueueInv, Bounded
<1>7. Errors'  BY Zenon DEF QueueInv, Errors, Erred, Reporting, InRound, Held
<1>8. Finished'  BY Zenon DEF QueueInv, Finished, InRound
<1>9. Verdict'  BY Zenon DEF QueueInv, Verdict, VerdictCorrect, InRound
<1> QED  BY Zenon, <1>1, <1>2, <1>3, <1>4, <1>5, <1>6, <1>7, <1>8, <1>9 DEF QueueInv

\* Nothing changes.
LEMMA StutterInv == ASSUME CountingFacts, QueueInv, UNCHANGED vars PROVE QueueInv'
<1> USE DEF vars, shared, locals, history
<1>1. TypeOK'  BY Zenon DEF QueueInv, TypeOK
<1>2. OneMaster'  BY Zenon DEF QueueInv, OneMaster
<1>3. Batches'  BY Zenon DEF QueueInv, Batches
<1>4. Counters'  BY Zenon DEF QueueInv, Counters, PlacesIn, Unfinished, Idle, InLoop
<1>5. OnePlace'  BY Zenon DEF QueueInv, OnePlace
<1>6. Bounded'  BY Zenon DEF QueueInv, Bounded
<1>7. Errors'  BY Zenon DEF QueueInv, Errors, Erred, Reporting, InRound, Held
<1>8. Finished'  BY Zenon DEF QueueInv, Finished, InRound
<1>9. Verdict'  BY Zenon DEF QueueInv, Verdict, VerdictCorrect, InRound
<1> QED  BY Zenon, <1>1, <1>2, <1>3, <1>4, <1>5, <1>6, <1>7, <1>8, <1>9 DEF QueueInv

\* The control is released after Complete, when nothing is left of the round.
LEMMA DestroyControlInv ==
    ASSUME CountingFacts, QueueInv, NEW m \in Masters, DestroyControl(m) PROVE QueueInv'
<1> USE DEF DestroyControl, shared
<1>1. m \in Threads /\ m # NoThread  BY Zenon, CheckQueueAssumption DEF Threads
<1>2. control = m /\ ~InRound  BY DEF QueueInv, OneMaster, InRound
<1>3. queue = <<>> /\ nTodo = 0 /\ m_result = NoResult  BY Zenon, <1>2 DEF QueueInv, Finished
<1>4. \A t \in Threads : Unfinished[t] = 0 /\ pc[t] # "work" /\ vChecks[t] = <<>>
    BY Zenon, <1>3, NothingTodo DEF QueueInv
<1>5. \A t \in Threads : pc'[t] # "work" /\ (pc'[t] = "lock" => pc[t] = "lock" /\ nNow[t] = 0)
    BY Zenon, <1>1, <1>4 DEF QueueInv, TypeOK, Unfinished
<1>6. TypeOK'  BY <1>1, CheckQueueAssumption DEF QueueInv, TypeOK, Results
<1>7. OneMaster'
    BY Zenon, <1>1, <1>2, CheckQueueAssumption
    DEF QueueInv, TypeOK, OneMaster, MasterPc, WorkerPc, Threads
<1>8. Batches'  BY Zenon, <1>1, <1>4 DEF QueueInv, TypeOK, Batches
<1>9. Counters'
    <2>1. Unfinished' = Unfinished  BY Zenon, <1>1 DEF QueueInv, TypeOK, Unfinished
    <2>2. Idle' = Idle  BY Zenon, <1>1 DEF QueueInv, TypeOK, Idle
    <2>3. InLoop' = InLoop  BY Zenon, <1>1 DEF QueueInv, TypeOK, InLoop
    <2> QED  BY Zenon, <2>1, <2>2, <2>3 DEF QueueInv, Counters, PlacesIn
<1>10. Range(queue') = {} /\ \A t \in Threads : Range(vChecks'[t]) = {}
    BY <1>3, <1>4 DEF Range
<1>11. OnePlace'  BY Zenon, <1>10 DEF QueueInv, OnePlace
<1>12. Bounded'  BY <1>3, <1>10 DEF QueueInv, Bounded
<1>13. Errors'
    <2>1. ~Erred'
        BY <1>3, <1>5 DEF Erred, Reporting, NoResult, Failure
    <2>2. ~InRound'  BY Zenon DEF InRound
    <2> QED  BY Zenon, <1>5, <2>1, <2>2 DEF Errors
<1>14. Finished'  BY Zenon, <1>3 DEF Finished
<1>15. Verdict'  BY DEF Verdict, VerdictCorrect, NoVerdict
<1> QED
    BY Zenon, <1>6, <1>7, <1>8, <1>9, <1>11, <1>12, <1>13, <1>14, <1>15 DEF QueueInv
-----------------------------------------------------------------------------
(* Add. *)

\* What Add appends to the queue: the next k checks.
LEMMA AddedChecks ==
    ASSUME TypeOK, NEW k \in 1..MaxAdd, added + k <= MaxChecks
    PROVE  LET new == [i \in 1..k |-> added + i] IN
           /\ queue \o new \in Seq(Checks)
           /\ Len(queue \o new) = Len(queue) + k
           /\ Range(queue \o new) = Range(queue) \cup (added + 1..added + k)
           /\ IsInjective(queue) /\ Range(queue) \subseteq 1..added
                  => IsInjective(queue \o new)
<1> DEFINE new == [i \in 1..k |-> added + i]
<1>0. k \in Nat /\ added \in Nat /\ MaxChecks \in Nat /\ queue \in Seq(Checks)
    BY CheckQueueAssumption DEF TypeOK
<1>1. new \in Seq(Checks) /\ Len(new) = k
    <2>1. new \in [1..k -> Checks]  BY <1>0 DEF Checks
    <2> HIDE DEF new
    <2> QED  BY <1>0, <2>1
<1>2. Range(new) = added + 1..added + k
    <2>1. \A x \in added + 1..added + k : x - added \in 1..k /\ x = new[x - added]
        BY <1>0
    <2>2. \A i \in 1..k : new[i] \in added + 1..added + k  BY <1>0
    <2> QED  BY Zenon, <2>1, <2>2 DEF Range
<1>3. \A i \in 1..k : new[i] = added + i  BY Zenon
<1> HIDE DEF new
<1>4. /\ queue \o new \in Seq(Checks) /\ Len(queue \o new) = Len(queue) + k
      /\ \A i \in 1..Len(queue) + k : (queue \o new)[i] =
             IF i <= Len(queue) THEN queue[i] ELSE new[i - Len(queue)]
    BY <1>0, <1>1
<1>5. Range(queue \o new) = Range(queue) \cup Range(new)
    <2>1. /\ DOMAIN queue = 1..Len(queue) /\ DOMAIN new = 1..k /\ Len(queue) \in Nat
          /\ DOMAIN (queue \o new) = 1..Len(queue) + k
        BY <1>0, <1>1, <1>4
    <2>2. \A i \in 1..Len(queue) : i \in 1..Len(queue) + k /\ (queue \o new)[i] = queue[i]
        BY <1>0, <1>4, <2>1
    <2>3. \A i \in 1..k : /\ Len(queue) + i \in 1..Len(queue) + k
                           /\ (queue \o new)[Len(queue) + i] = new[i]
        BY <1>0, <1>4, <2>1
    <2>4. \A i \in 1..Len(queue) + k : i \in 1..Len(queue) \/ i - Len(queue) \in 1..k
        BY <1>0, <2>1
    <2>5. \A i \in 1..Len(queue) + k : \/ (queue \o new)[i] \in Range(queue)
                                      \/ (queue \o new)[i] \in Range(new)
        BY <1>0, <1>4, <2>1, <2>4, SMTT(30) DEF Range
    <2>6. \A i \in 1..Len(queue) : queue[i] \in Range(queue \o new)
        BY Zenon, <2>1, <2>2 DEF Range
    <2>7. \A i \in 1..k : new[i] \in Range(queue \o new)
        BY Zenon, <2>1, <2>3 DEF Range
    <2> HIDE DEF new
    <2> QED  BY Zenon, <2>1, <2>5, <2>6, <2>7 DEF Range
<1>6. ASSUME IsInjective(queue), Range(queue) \subseteq 1..added
      PROVE  IsInjective(queue \o new)
    <2> DEFINE n == Len(queue)
    <2>0. n \in Nat /\ DOMAIN queue = 1..n /\ DOMAIN (queue \o new) = 1..n + k
        BY <1>0, <1>4
    <2>1. \A i \in 1..n : queue[i] \in 1..added  BY Zenon, <1>6, <2>0 DEF Range
    <2> HIDE DEF n
    <2>2. \A i \in 1..n + k : IF i <= n THEN (queue \o new)[i] = queue[i]
                              ELSE (queue \o new)[i] = added + (i - n)
        BY <1>0, <1>3, <1>4, <2>0 DEF n
    <2>3. ASSUME NEW a \in 1..n + k, NEW b \in 1..n + k,
                 (queue \o new)[a] = (queue \o new)[b]
          PROVE  a = b
        <3>1. CASE a <= n /\ b <= n
            BY <1>6, <2>0, <2>2, <2>3, <3>1 DEF IsInjective
        <3>2. CASE a > n /\ b > n
            <4>1. added + (a - n) = added + (b - n)  BY <2>0, <2>2, <2>3, <3>2
            <4> QED  BY <1>0, <2>0, <4>1
        <3>3. CASE a <= n /\ b > n
            <4>1. queue[a] = added + (b - n) /\ queue[a] \in 1..added
                BY <2>0, <2>1, <2>2, <2>3, <3>3
            <4> QED  BY <1>0, <2>0, <3>3, <4>1
        <3>4. CASE a > n /\ b <= n
            <4>1. queue[b] = added + (a - n) /\ queue[b] \in 1..added
                BY <2>0, <2>1, <2>2, <2>3, <3>4
            <4> QED  BY <1>0, <2>0, <3>4, <4>1
        <3> QED  BY <2>0, <3>1, <3>2, <3>3, <3>4
    <2> QED  BY Zenon, <2>0, <2>3 DEF IsInjective
<1> QED  BY Zenon, <1>2, <1>4, <1>5, <1>6 DEF new

\* Add puts new checks, and no other, at the end of the queue and in nTodo.
LEMMA AddInv ==
    ASSUME CountingFacts, QueueInv, NEW m \in Masters, Add(m) PROVE QueueInv'
<1>1. m \in Threads /\ m # NoThread  BY Zenon, CheckQueueAssumption DEF Threads
<1>2. PICK k \in 1..MaxAdd :
        /\ added + k <= MaxChecks
        /\ queue' = queue \o [i \in 1..k |-> added + i]
        /\ nTodo' = nTodo + k
        /\ added' = added + k
        /\ \E fail \in SUBSET (added + 1..added + k) : bad' = bad \cup fail
        /\ pc' = [pc EXCEPT ![m] = IF k = 1 THEN "notify_one" ELSE "notify_all"]
    BY Zenon DEF Add
<1>3. PICK fail \in SUBSET (added + 1..added + k) : bad' = bad \cup fail  BY Zenon, <1>2
<1>4. UNCHANGED <<nIdle, nTotal, m_result, m_request_stop, control, vChecks, nNow,
                  local_result, do_work, executed, verdict>> /\ pc[m] = "add"
    BY Zenon DEF Add, locals
<1>5. k \in Nat /\ added \in Nat /\ MaxChecks \in Nat /\ nTodo \in Nat /\ nTodo <= added
    BY CheckQueueAssumption DEF QueueInv, TypeOK, Bounded
<1>6. control = m /\ InRound  BY Zenon, <1>1, <1>4 DEF QueueInv, OneMaster, InRound
<1>7. /\ queue' \in Seq(Checks) /\ Len(queue') = Len(queue) + k
      /\ Range(queue') = Range(queue) \cup (added + 1..added + k)
      /\ IsInjective(queue')
    BY Zenon, <1>2, AddedChecks DEF QueueInv, OnePlace, Bounded
<1>8. TypeOK'
    BY <1>1, <1>2, <1>3, <1>4, <1>5, <1>7 DEF QueueInv, TypeOK, Checks
<1>9. OneMaster'
    BY Zenon, <1>1, <1>2, <1>4, <1>6, CheckQueueAssumption
    DEF QueueInv, TypeOK, OneMaster, MasterPc, WorkerPc, Threads
<1>10. Batches'  BY Zenon, <1>1, <1>2, <1>4 DEF QueueInv, TypeOK, Batches
<1>11. Counters'
    <2>1. Unfinished' = Unfinished  BY Zenon, <1>1, <1>2, <1>4 DEF QueueInv, TypeOK, Unfinished
    <2>2. Idle' = Idle  BY Zenon, <1>1, <1>2, <1>4 DEF QueueInv, TypeOK, Idle
    <2>3. InLoop' = InLoop  BY Zenon, <1>1, <1>2, <1>4 DEF QueueInv, TypeOK, InLoop
    <2>4. nTodo' = Len(queue') + Cardinality(PlacesIn(Threads, Unfinished))
        <3>1. Cardinality(PlacesIn(Threads, Unfinished)) \in Nat
            BY Zenon, <1>1, UnfinishedType, PlacesSplit DEF QueueInv
        <3>2. Len(queue) \in Nat  BY DEF QueueInv, TypeOK
        <3> QED  BY <1>2, <1>5, <1>7, <3>1, <3>2 DEF QueueInv, Counters
    <2> QED  BY Zenon, <1>4, <2>1, <2>2, <2>3, <2>4 DEF QueueInv, Counters
<1>12. OnePlace'
    <2>1. \A t \in Threads : Range(vChecks[t]) \cap (added + 1..added + k) = {}
        BY <1>5 DEF QueueInv, Bounded
    <2>2. executed \cap (added + 1..added + k) = {}
        BY <1>5 DEF QueueInv, Bounded
    <2> QED  BY Zenon, <1>4, <1>7, <2>1, <2>2 DEF QueueInv, OnePlace
<1>13. Bounded'
    <2>1. 1..added \subseteq 1..added' /\ added + 1..added + k \subseteq 1..added'
        BY <1>2, <1>5
    <2>2. control' # NoThread /\ nTodo' <= added'  BY <1>1, <1>2, <1>4, <1>5, <1>6
    <2> QED  BY Zenon, <1>3, <1>4, <1>7, <2>1, <2>2 DEF QueueInv, Bounded
<1>14. Errors'
    <2>1. \A t \in Threads : Reporting(t)' <=> Reporting(t)
        BY Zenon, <1>1, <1>2, <1>4 DEF QueueInv, TypeOK, Reporting
    <2>2. Erred' <=> Erred  BY Zenon, <1>4, <2>1 DEF Erred
    <2>3. \A c : Held(c) => Held(c)'  BY Zenon, <1>4, <1>7 DEF Held
    <2>4. \A c \in added + 1..added + k : Held(c)'  BY Zenon, <1>7 DEF Held
    <2>5. \A c \in 1..added' : c \in 1..added \/ c \in added + 1..added + k
        BY <1>2, <1>5
    <2>6. executed' \cap bad' = executed \cap bad
        <3>1. executed \cap fail = {}  BY <1>3, <1>5 DEF QueueInv, Bounded
        <3> QED  BY Zenon, <1>3, <1>4, <3>1
    <2>7. (Erred => bad # {})'  BY ZenonT(30), <1>3, <2>2 DEF QueueInv, Errors
    <2>8. (InRound /\ ~Erred => /\ \A c \in 1..added : Held(c) \/ c \in executed
                                /\ executed \cap bad = {})'
        BY Zenon, <1>4, <1>6, <2>2, <2>3, <2>4, <2>5, <2>6 DEF QueueInv, Errors
    <2>9. (\A t \in Threads : pc[t] = "work" /\ ~do_work[t] => m_result = Failure)'
        BY Zenon, <1>1, <1>2, <1>4 DEF QueueInv, TypeOK, Errors
    <2> QED  BY Zenon, <2>7, <2>8, <2>9 DEF Errors
<1>15. InRound'  BY Zenon, <1>1, <1>2, <1>4, <1>6 DEF QueueInv, TypeOK, InRound
<1>16. Finished'  BY Zenon, <1>15 DEF Finished
<1>17. Verdict'
    BY <1>4, <1>6 DEF QueueInv, Verdict, VerdictCorrect, NoVerdict
<1> QED
    BY Zenon, <1>8, <1>9, <1>10, <1>11, <1>12, <1>13, <1>14, <1>16, <1>17 DEF QueueInv
-----------------------------------------------------------------------------
(* Work. *)

\* A batch is run up to its first failing check, or to its end.
LEMMA RunFacts ==
    ASSUME CountingFacts, NEW batch \in Seq(Checks), Len(batch) > 0
    PROVE  /\ Range(Run(batch)) \subseteq Range(batch)
           /\ Run(batch)[Len(Run(batch))] \in bad <=> Range(batch) \cap bad # {}
           /\ Range(batch) \cap bad = {} => Run(batch) = batch
<1> DEFINE fail == {i \in DOMAIN batch : batch[i] \in bad}
<1>1. Len(batch) \in Nat /\ DOMAIN batch = 1..Len(batch)  OBVIOUS
<1>2. CASE fail = {}
    <2>1. Run(batch) = batch  BY Zenon, <1>2 DEF Run
    <2>2. Range(batch) \cap bad = {}  BY Zenon, <1>2 DEF Range
    <2>3. batch[Len(batch)] \in Range(batch)  BY <1>1 DEF Range
    <2> QED  BY Zenon, <2>1, <2>2, <2>3
<1>3. CASE fail # {}
    <2> DEFINE m == Min(fail)
    <2>1. m \in fail
        <3>1. fail \in SUBSET Nat  BY <1>1
        <3> HIDE DEF fail
        <3> QED  BY Zenon, <1>3, <3>1, LeastOf
    <2>2. Run(batch) = SubSeq(batch, 1, m)  BY Zenon, <1>3 DEF Run
    <2>3. m \in 1..Len(batch) /\ batch[m] \in bad  BY Zenon, <1>1, <2>1
    <2> HIDE DEF m
    <2>4. \A i \in 1..m : batch[i] \in Checks  BY <1>1, <2>3
    <2>5. /\ Run(batch) \in Seq(Checks) /\ Len(Run(batch)) = m
          /\ \A i \in 1..m : Run(batch)[i] = batch[i]
        BY <1>1, <2>2, <2>3, <2>4
    <2>6. DOMAIN Run(batch) = 1..m  BY <2>5
    <2>7. Range(Run(batch)) \subseteq Range(batch)
        BY <1>1, <2>3, <2>5, <2>6 DEF Range
    <2>8. Run(batch)[Len(Run(batch))] = batch[m]  BY <1>1, <2>3, <2>5
    <2>9. Range(batch) \cap bad # {}  BY Zenon, <1>1, <2>3 DEF Range
    <2> QED  BY Zenon, <2>3, <2>7, <2>8, <2>9
<1> QED  BY Zenon, <1>2, <1>3

\* A batch that is run, or skipped after an error, is reported once and with the
\* error of its last check.
LEMMA WorkInv ==
    ASSUME CountingFacts, QueueInv, NEW t \in Threads, Work(t) PROVE QueueInv'
<1> DEFINE ran == Run(vChecks[t])
<1>1. /\ pc[t] = "work" /\ nNow[t] = Len(vChecks[t]) /\ nNow[t] > 0
      /\ vChecks[t] \in Seq(Checks)
    BY Zenon DEF Work, QueueInv, Batches, TypeOK
<1>2. /\ Range(ran) \subseteq Range(vChecks[t])
      /\ ran[Len(ran)] \in bad <=> Range(vChecks[t]) \cap bad # {}
      /\ Range(vChecks[t]) \cap bad = {} => ran = vChecks[t]
    BY Zenon, <1>1, RunFacts
<1> HIDE DEF ran
<1>3. /\ vChecks' = [vChecks EXCEPT ![t] = <<>>]
      /\ do_work' = [do_work EXCEPT ![t] = FALSE]
      /\ pc' = [pc EXCEPT ![t] = "lock"]
      /\ UNCHANGED <<queue, nIdle, nTotal, nTodo, m_result, m_request_stop, control,
                     nNow, bad, added, verdict>>
    BY Zenon DEF Work, shared
<1>4. \/ /\ do_work[t] /\ executed' = executed \cup Range(ran)
         /\ local_result' = [local_result EXCEPT ![t] =
                IF ran[Len(ran)] \in bad THEN Failure ELSE NoResult]
      \/ ~do_work[t] /\ UNCHANGED <<executed, local_result>>
    BY Zenon DEF Work, ran
<1>5. /\ executed \subseteq executed'
      /\ executed' \subseteq executed \cup Range(vChecks[t])
      /\ \A u \in Threads \ {t} : local_result'[u] = local_result[u]
      /\ local_result' \in [Threads -> Results]
    BY Zenon, <1>2, <1>4 DEF QueueInv, TypeOK, Results
<1>6. TypeOK'
    <2>1. <<>> \in Seq(Checks)  OBVIOUS
    <2>2. executed' \subseteq Checks  BY <1>1, <1>5 DEF QueueInv, TypeOK, Range
    <2> QED  BY Zenon, <1>3, <1>5, <2>1, <2>2 DEF QueueInv, TypeOK
<1>7. OneMaster'
    BY Zenon, <1>1, <1>3, CheckQueueAssumption
    DEF QueueInv, TypeOK, OneMaster, MasterPc, WorkerPc, Threads
<1>8. Batches'  BY Zenon, <1>1, <1>3 DEF QueueInv, TypeOK, Batches
<1>9. Counters'
    <2>1. Unfinished' = Unfinished  BY Zenon, <1>1, <1>3 DEF QueueInv, TypeOK, Unfinished
    <2>2. Idle' = Idle  BY Zenon, <1>1, <1>3 DEF QueueInv, TypeOK, Idle
    <2>3. InLoop' = InLoop  BY Zenon, <1>1, <1>3 DEF QueueInv, TypeOK, InLoop
    <2> QED  BY Zenon, <1>3, <2>1, <2>2, <2>3 DEF QueueInv, Counters, PlacesIn
<1>10. Range(vChecks'[t]) = {} /\ IsInjective(vChecks'[t])
    BY <1>3 DEF QueueInv, TypeOK, Range, IsInjective
<1>11. \A u \in Threads \ {t} : vChecks'[u] = vChecks[u]
    BY Zenon, <1>3 DEF QueueInv, TypeOK
<1>12. OnePlace'
    <2>1. \A u \in Threads : Range(vChecks'[u]) \cap Range(vChecks[t]) = {}
        BY Zenon, <1>10, <1>11 DEF QueueInv, OnePlace
    <2>2. Range(queue) \cap Range(vChecks[t]) = {}  BY Zenon DEF QueueInv, OnePlace
    <2>3. Range(queue) \cap executed' = {}  BY Zenon, <1>5, <2>2 DEF QueueInv, OnePlace
    <2>4. ASSUME NEW u \in Threads
          PROVE  /\ IsInjective(vChecks'[u])
                 /\ Range(vChecks'[u]) \cap (Range(queue) \cup executed') = {}
                 /\ \A v \in Threads \ {u} : Range(vChecks'[u]) \cap Range(vChecks'[v]) = {}
        <3>1. CASE u = t  BY Zenon, <1>10, <3>1
        <3>2. CASE u # t
            <4>1. Range(vChecks'[u]) = Range(vChecks[u])  BY Zenon, <1>11, <3>2
            <4>2. Range(vChecks[u]) \cap (Range(queue) \cup executed') = {}
                BY Zenon, <1>5, <2>1, <4>1 DEF QueueInv, OnePlace
            <4>3. \A v \in Threads \ {u} : Range(vChecks[u]) \cap Range(vChecks'[v]) = {}
                BY Zenon, <1>10, <1>11 DEF QueueInv, OnePlace
            <4>4. IsInjective(vChecks'[u])  BY Zenon, <1>11, <3>2 DEF QueueInv, OnePlace
            <4> QED  BY Zenon, <4>1, <4>2, <4>3, <4>4
        <3> QED  BY Zenon, <3>1, <3>2
    <2>5. IsInjective(queue')  BY Zenon, <1>3 DEF QueueInv, OnePlace
    <2> QED  BY Zenon, <1>3, <2>3, <2>4, <2>5 DEF OnePlace
<1>13. Bounded'
    BY Zenon, <1>3, <1>5, <1>10, <1>11 DEF QueueInv, Bounded
<1>14. Errors'
    <2>0. do_work[t] \/ m_result = Failure  BY Zenon, <1>1 DEF QueueInv, Errors
    <2>1. \A u \in Threads \ {t} : Reporting(u)' <=> Reporting(u)
        BY Zenon, <1>3, <1>5 DEF QueueInv, TypeOK, Reporting
    <2>2. ~Reporting(t)  BY Zenon, <1>1 DEF Reporting
    <2>3. Reporting(t)' <=> local_result'[t] = Failure
        BY Zenon, <1>1, <1>3 DEF QueueInv, TypeOK, Reporting
    <2>4. Erred' <=> Erred \/ local_result'[t] = Failure
        BY Zenon, <1>3, <2>1, <2>2, <2>3 DEF Erred
    <2>5. do_work[t] => (local_result'[t] = Failure <=> Range(vChecks[t]) \cap bad # {})
        BY Zenon, <1>2, <1>4 DEF QueueInv, TypeOK, Failure, NoResult
    <2>6. (Erred => bad # {})'
        <3>1. CASE do_work[t]  BY Zenon, <1>3, <2>4, <2>5, <3>1 DEF QueueInv, Errors
        <3>2. CASE ~do_work[t]  BY Zenon, <1>3, <2>0, <3>2 DEF QueueInv, Errors, Erred
        <3> QED  BY Zenon, <3>1, <3>2
    <2>7. ASSUME InRound', ~Erred'
          PROVE  (/\ \A c \in 1..added : Held(c) \/ c \in executed
                  /\ executed \cap bad = {})'
        <3>1. ~Erred /\ local_result'[t] # Failure  BY Zenon, <2>4, <2>7
        <3>2. do_work[t]  BY Zenon, <2>0, <3>1 DEF Erred
        <3>3. Range(vChecks[t]) \cap bad = {} /\ ran = vChecks[t]
            BY Zenon, <1>2, <2>5, <3>1, <3>2
        <3>4. executed' = executed \cup Range(vChecks[t])  BY Zenon, <1>4, <3>2, <3>3
        <3>5. InRound
            <4>1. control \in Threads /\ control # NoThread
                BY Zenon, <1>3, <2>7 DEF InRound, QueueInv, TypeOK, Threads
            <4> QED  BY Zenon, <1>1, <1>3, <2>7, <4>1 DEF InRound, QueueInv, TypeOK
        <3>6. /\ \A c \in 1..added : Held(c) \/ c \in executed
              /\ executed \cap bad = {}
            BY Zenon, <3>1, <3>5 DEF QueueInv, Errors
        <3>7. \A c : Held(c) => Held(c)' \/ c \in Range(vChecks[t])
            BY Zenon, <1>3, <1>11 DEF Held
        <3> QED  BY Zenon, <1>3, <3>3, <3>4, <3>6, <3>7
    <2>8. (\A u \in Threads : pc[u] = "work" /\ ~do_work[u] => m_result = Failure)'
        BY Zenon, <1>3 DEF QueueInv, TypeOK, Errors
    <2> QED  BY Zenon, <2>6, <2>7, <2>8 DEF Errors
<1>15. InRound' <=> InRound
    <2>1. control # NoThread => control \in Threads  BY Zenon DEF QueueInv, TypeOK, Threads
    <2> QED  BY Zenon, <1>1, <1>3, <2>1 DEF InRound, QueueInv, TypeOK
<1>16. Finished'  BY Zenon, <1>3, <1>15 DEF QueueInv, Finished
<1>17. Verdict'
    <2>1. InRound
        <3>1. nTodo # 0  BY Zenon, <1>1, NothingTodo DEF QueueInv
        <3> QED  BY Zenon, <3>1 DEF QueueInv, Finished
    <2> QED  BY <1>3, <2>1 DEF QueueInv, Verdict, VerdictCorrect, NoVerdict
<1> QED
    BY Zenon, <1>6, <1>7, <1>8, <1>9, <1>12, <1>13, <1>14, <1>16, <1>17 DEF QueueInv
-----------------------------------------------------------------------------
(* Loop. *)

\* Between the clean-up and the while loop of thread t: c accounts for every
\* other thread, counts t as in the loop, and has the error t reported.
Between(t, c) ==
    /\ pc[t] \in {"lock", "woken"}
    /\ c.res \in Results /\ c.local \in Results
    /\ c.pc \in [Threads -> {"out", "add", "notify_one", "notify_all", "lock",
                             "wait", "woken", "work", "ret", "done"}]
    /\ c.pc[t] = pc[t]
    /\ \A u \in Threads \ {t} : c.pc[u] = pc[u] \/ (pc[u] = "wait" /\ c.pc[u] = "woken")
    /\ c.todo = Len(queue) + Cardinality(PlacesIn(Threads \ {t}, Unfinished))
    /\ c.todo <= nTodo
    /\ c.idle = Cardinality(Idle \ {t})
    /\ c.total = Cardinality(InLoop \ {t}) + 1
    /\ c.res = Failure <=> m_result = Failure \/ Reporting(t)

\* A thread that resumes from wait only has to leave nIdle.
LEMMA BetweenResume ==
    ASSUME CountingFacts, QueueInv, NEW t \in Threads, pc[t] = "woken"
    PROVE  Between(t, [res |-> m_result, local |-> local_result[t], todo |-> nTodo,
                       total |-> nTotal, idle |-> nIdle - 1, pc |-> pc])
<1>1. TypeOK /\ Counters  BY Zenon DEF QueueInv
<1>2. Unfinished[t] = 0 /\ t \in Idle /\ t \in InLoop /\ ~Reporting(t)
    BY Zenon DEF Unfinished, Idle, InLoop, Reporting
<1>3. /\ Cardinality(PlacesIn(Threads \ {t}, Unfinished)) \in Nat
      /\ nTodo = Len(queue) + Cardinality(PlacesIn(Threads \ {t}, Unfinished))
                     + Unfinished[t]
    BY Zenon, <1>1, CountersWithout
<1>4. /\ Cardinality(Idle \ {t}) \in Nat
      /\ nIdle = Cardinality(Idle \ {t}) + (IF t \in Idle THEN 1 ELSE 0)
      /\ Cardinality(InLoop \ {t}) \in Nat
      /\ nTotal = Cardinality(InLoop \ {t}) + (IF t \in InLoop THEN 1 ELSE 0)
    BY Zenon, <1>1, CountersWithout
<1>5. Len(queue) \in Nat  BY <1>1 DEF TypeOK
<1>6. nTodo = Len(queue) + Cardinality(PlacesIn(Threads \ {t}, Unfinished))
    BY <1>2, <1>3, <1>5
<1>7. nIdle - 1 = Cardinality(Idle \ {t}) /\ nTotal = Cardinality(InLoop \ {t}) + 1
    BY <1>2, <1>4
<1>8. /\ m_result \in Results /\ local_result[t] \in Results /\ nTodo \in Nat
      /\ pc \in [Threads -> {"out", "add", "notify_one", "notify_all", "lock",
                             "wait", "woken", "work", "ret", "done"}]
    BY <1>1, CheckQueueAssumption DEF TypeOK
<1> QED  BY <1>2, <1>6, <1>7, <1>8 DEF Between

\* The clean-up of a thread that has the mutex again takes its batch out of nTodo
\* and its error into m_result, or counts the thread in nTotal on its first pass.
LEMMA BetweenEnter ==
    ASSUME CountingFacts, QueueInv, NEW t \in Threads, pc[t] = "lock", NEW c \in Cleanup(t)
    PROVE  Between(t, c)
<1>1. TypeOK /\ Counters  BY Zenon DEF QueueInv
<1>2. Unfinished[t] = nNow[t] /\ t \notin Idle /\ (t \in InLoop <=> nNow[t] > 0)
    BY Zenon DEF Unfinished, Idle, InLoop
<1>3. /\ Cardinality(PlacesIn(Threads \ {t}, Unfinished)) \in Nat
      /\ nTodo = Len(queue) + Cardinality(PlacesIn(Threads \ {t}, Unfinished))
                     + Unfinished[t]
    BY Zenon, <1>1, CountersWithout
<1>4. /\ Cardinality(Idle \ {t}) \in Nat
      /\ nIdle = Cardinality(Idle \ {t}) + (IF t \in Idle THEN 1 ELSE 0)
      /\ Cardinality(InLoop \ {t}) \in Nat
      /\ nTotal = Cardinality(InLoop \ {t}) + (IF t \in InLoop THEN 1 ELSE 0)
    BY Zenon, <1>1, CountersWithout
<1>5. Len(queue) \in Nat  BY <1>1 DEF TypeOK
<1>6. nNow[t] \in Nat  BY <1>1, CheckQueueAssumption DEF TypeOK
<1>7. /\ m_result \in Results /\ local_result[t] \in Results
      /\ pc \in [Threads -> {"out", "add", "notify_one", "notify_all", "lock",
                             "wait", "woken", "work", "ret", "done"}]
    BY Zenon, <1>1 DEF TypeOK
<1>8. CASE nNow[t] > 0
    <2> DEFINE keep == local_result[t] # NoResult /\ m_result = NoResult
    <2>1. PICK p \in NotifyMaster(t, nTodo - nNow[t]) :
            c = [res   |-> IF keep THEN local_result[t] ELSE m_result,
                 local |-> IF keep THEN NoResult ELSE local_result[t],
                 todo  |-> nTodo - nNow[t], total |-> nTotal, idle |-> nIdle, pc |-> p]
        BY Zenon, <1>8 DEF Cleanup
    <2>2. /\ p \in [Threads -> {"out", "add", "notify_one", "notify_all", "lock",
                                "wait", "woken", "work", "ret", "done"}]
          /\ \A u \in Threads : p[u] = pc[u] \/ (pc[u] = "wait" /\ p[u] = "woken")
        <3>1. CASE p \in NotifyOne(Masters)
            <4>1. Masters \in SUBSET Threads  BY Zenon DEF Threads
            <4> QED  BY Zenon, <3>1, <4>1, Notified
        <3>2. CASE p = pc  BY Zenon, <1>7, <3>2
        <3> QED  BY Zenon, <3>1, <3>2 DEF NotifyMaster
    <2>3. /\ c.todo = Len(queue) + Cardinality(PlacesIn(Threads \ {t}, Unfinished))
          /\ c.todo <= nTodo
        BY <1>2, <1>3, <1>5, <1>6, <2>1
    <2>4. /\ c.idle = Cardinality(Idle \ {t})
          /\ c.total = Cardinality(InLoop \ {t}) + 1
        BY <1>2, <1>4, <1>8, <2>1
    <2>5. /\ c.res \in Results /\ c.local \in Results
          /\ c.res = Failure <=> m_result = Failure \/ Reporting(t)
        BY ZenonT(30), <1>7, <1>8, <2>1 DEF Results, Failure, NoResult, Reporting
    <2>6. c.pc = p  BY ZenonT(30), <2>1
    <2> QED  BY ZenonT(30), <2>2, <2>3, <2>4, <2>5, <2>6 DEF Between
<1>9. CASE nNow[t] = 0
    <2>1. c = [res |-> m_result, local |-> local_result[t], todo |-> nTodo,
               total |-> nTotal + 1, idle |-> nIdle, pc |-> pc]
        BY <1>9 DEF Cleanup
    <2>2. ~Reporting(t)  BY <1>9 DEF Reporting
    <2>3. /\ c.todo = Len(queue) + Cardinality(PlacesIn(Threads \ {t}, Unfinished))
          /\ c.todo <= nTodo
        BY <1>2, <1>3, <1>5, <1>9, <2>1
    <2>4. /\ c.idle = Cardinality(Idle \ {t})
          /\ c.total = Cardinality(InLoop \ {t}) + 1
        BY <1>2, <1>4, <1>9, <2>1
    <2> QED  BY Zenon, <1>7, <2>1, <2>2, <2>3, <2>4 DEF Between
<1> QED  BY <1>6, <1>8, <1>9

\* What every turn of the while loop does.
LoopRest(t, c) ==
    /\ nTodo' = c.todo
    /\ local_result' = [local_result EXCEPT ![t] = c.local]
    /\ UNCHANGED <<m_request_stop, control, bad, added, executed>>

\* What follows for the threads and for the type, wherever thread t goes.
LEMMA LoopCommon ==
    ASSUME CountingFacts, QueueInv, NEW t \in Threads, NEW c, Between(t, c), LoopRest(t, c),
           NEW place \in {"ret", "wait", "work", "done"},
           pc' = [c.pc EXCEPT ![t] = place],
           place = "ret" => t \in Masters, place = "done" => m_request_stop
    PROVE  /\ OneMaster'
           /\ pc' \in [Threads -> {"out", "add", "notify_one", "notify_all", "lock",
                                   "wait", "woken", "work", "ret", "done"}]
           /\ nTodo' \in 0..MaxChecks /\ nTodo' <= added
           /\ local_result' \in [Threads -> Results]
           /\ \A u \in Threads \ {t} : Reporting(u) <=>
                  pc'[u] = "lock" /\ nNow[u] > 0 /\ local_result'[u] = Failure
           /\ \A u \in Threads \ {t} : pc'[u] = "work" => pc[u] = "work"
           /\ InRound' <=> InRound /\ ~(t = control /\ place = "ret")
<1>1. /\ pc' \in [Threads -> {"out", "add", "notify_one", "notify_all", "lock",
                              "wait", "woken", "work", "ret", "done"}]
      /\ pc'[t] = place
      /\ \A u \in Threads \ {t} : pc'[u] = pc[u] \/ (pc[u] = "wait" /\ pc'[u] = "woken")
    BY Zenon DEF Between
<1>2. pc[t] \in {"lock", "woken"}  BY Zenon DEF Between
<1>3. OneMaster'
    <2>1. /\ OneMaster /\ control' = control /\ m_request_stop' = m_request_stop
          /\ Workers \cap Masters = {} /\ NoThread \notin Workers \cup Masters
          /\ Workers \subseteq Threads /\ Masters \subseteq Threads
        BY Zenon, CheckQueueAssumption DEF QueueInv, LoopRest, Threads
    <2>2. ASSUME NEW w \in Workers  PROVE  pc'[w] \in WorkerPc
        <3>1. CASE w = t
            BY Zenon, <1>1, <2>1, <3>1 DEF WorkerPc
        <3>2. CASE w # t
            BY Zenon, <1>1, <2>1, <3>2 DEF OneMaster, WorkerPc
        <3> QED  BY Zenon, <3>1, <3>2
    <2>3. ASSUME NEW m \in Masters
          PROVE  pc'[m] \in MasterPc /\ (pc'[m] # "out" <=> control = m)
        <3>1. CASE m = t
            <4>1. control = m  BY Zenon, <1>2, <3>1, <2>1 DEF OneMaster
            <4>2. place # "done"  BY Zenon, <2>1, <4>1 DEF OneMaster
            <4> QED  BY Zenon, <1>1, <3>1, <4>1, <4>2 DEF MasterPc
        <3>2. CASE m # t
            BY Zenon, <1>1, <2>1, <3>2 DEF OneMaster, MasterPc
        <3> QED  BY Zenon, <3>1, <3>2
    <2> QED  BY Zenon, <2>1, <2>2, <2>3 DEF OneMaster
<1>4. nTodo' \in 0..MaxChecks /\ nTodo' <= added
    <2>1. TypeOK /\ Counters  BY ZenonT(30) DEF QueueInv
    <2>2. Cardinality(PlacesIn(Threads \ {t}, Unfinished)) \in Nat
        BY ZenonT(30), <2>1, CountersWithout
    <2>3. Len(queue) \in Nat  BY <2>1 DEF TypeOK
    <2>4. nTodo \in 0..MaxChecks /\ nTodo <= added /\ added \in Nat
        BY DEF QueueInv, TypeOK, Bounded
    <2>5. nTodo' = Len(queue) + Cardinality(PlacesIn(Threads \ {t}, Unfinished))
          /\ nTodo' <= nTodo
        BY Zenon DEF Between, LoopRest
    <2> QED  BY <2>2, <2>3, <2>4, <2>5, CheckQueueAssumption
<1>5. local_result' \in [Threads -> Results]
    BY ZenonT(30) DEF QueueInv, TypeOK, LoopRest, Between
<1>6. \A u \in Threads \ {t} : Reporting(u) <=>
          pc'[u] = "lock" /\ nNow[u] > 0 /\ local_result'[u] = Failure
    BY Zenon, <1>1 DEF Reporting, LoopRest, QueueInv, TypeOK
<1>7. InRound' <=> InRound /\ ~(t = control /\ place = "ret")
    <2>1. control # NoThread => control \in Threads  BY Zenon DEF QueueInv, TypeOK, Threads
    <2>2. control' = control  BY Zenon DEF LoopRest
    <2> QED  BY Zenon, <1>1, <1>2, <2>1, <2>2 DEF InRound
<1> QED  BY ZenonT(30), <1>1, <1>3, <1>4, <1>5, <1>6, <1>7

\* While a thread is in the loop with nothing to account for, an error that was
\* known is known after its turn.
LEMMA LoopErrors ==
    ASSUME CountingFacts, QueueInv, NEW t \in Threads, NEW c, Between(t, c),
           pc'[t] # "lock", m_result' = c.res,
           \A u \in Threads \ {t} : Reporting(u) <=> Reporting(u)'
    PROVE  Erred' <=> Erred
<1>1. c.res = Failure <=> m_result = Failure \/ Reporting(t)  BY ZenonT(30) DEF Between
<1>2. ~Reporting(t)'  BY ZenonT(30) DEF Reporting
<1> QED  BY Zenon, <1>1, <1>2 DEF Erred

\* When no check is queued or held by another thread, nothing is left of them.
LEMMA OthersIdle ==
    ASSUME CountingFacts, QueueInv, NEW t \in Threads, pc[t] # "work", queue = <<>>,
           Len(queue) + Cardinality(PlacesIn(Threads \ {t}, Unfinished)) = 0
    PROVE  /\ \A u \in Threads : pc[u] # "work" /\ vChecks[u] = <<>>
           /\ \A u \in Threads \ {t} : ~Reporting(u)
<1>1. TypeOK  BY Zenon DEF QueueInv
<1>2. Unfinished \in [Threads -> 0..nBatchSize]  BY Zenon, <1>1, UnfinishedType
<1>3. /\ IsFiniteSet(PlacesIn(Threads \ {t}, Unfinished))
      /\ Cardinality(PlacesIn(Threads \ {t}, Unfinished)) \in Nat
    BY <1>2, PlacesSplit
<1>4. Len(queue) = 0  BY Zenon
<1>5. PlacesIn(Threads \ {t}, Unfinished) = {}
    <2>1. Cardinality(PlacesIn(Threads \ {t}, Unfinished)) = 0  BY <1>3, <1>4
    <2> QED  BY Zenon, <1>3, <2>1 DEF CountingFacts, NoneCounted
<1>6. \A u \in Threads \ {t} : Unfinished[u] = 0
    <2> SUFFICES ASSUME NEW u \in Threads \ {t}, Unfinished[u] # 0 PROVE FALSE
        OBVIOUS
    <2>1. <<u, 1>> \in (Threads \ {t}) \X (1..nBatchSize) /\ 1 <= Unfinished[u]
        BY <1>2, CheckQueueAssumption
    <2> QED  BY <1>5, <2>1 DEF PlacesIn
<1>7. \A u \in Threads \ {t} : /\ pc[u] # "work"
                               /\ pc[u] = "lock" => ~(nNow[u] > 0)
    BY <1>6 DEF Unfinished, QueueInv, Batches
<1> QED  BY <1>7 DEF QueueInv, Batches, Reporting

\* Outside a round the loop finds nothing and reports nothing.
LEMMA LoopFinished ==
    ASSUME CountingFacts, QueueInv, NEW t \in Threads, NEW c, Between(t, c), ~InRound
    PROVE  queue = <<>> /\ c.todo = 0 /\ c.res = NoResult
<1>1. queue = <<>> /\ nTodo = 0 /\ m_result = NoResult  BY Zenon DEF QueueInv, Finished
<1>2. TypeOK /\ Counters /\ Batches  BY Zenon DEF QueueInv
<1>3. Unfinished[t] = 0  BY Zenon, <1>1, <1>2, NothingTodo
<1>4. ~Reporting(t)  BY <1>3 DEF Unfinished, Reporting
<1>5. c.res = NoResult  BY Zenon, <1>1, <1>4 DEF Between, Results, Failure, NoResult
<1>6. c.todo = 0
    <2>1. Cardinality(PlacesIn(Threads \ {t}, Unfinished)) \in Nat
        BY Zenon, <1>2, CountersWithout
    <2>2. Len(queue) = 0  BY Zenon, <1>1
    <2> QED  BY <1>1, <2>1, <2>2 DEF Between
<1> QED  BY Zenon, <1>1, <1>5, <1>6

\* Threads that hold no new batch: what does not depend on where t goes.
LEMMA LoopSame ==
    ASSUME CountingFacts, QueueInv, NEW t \in Threads, NEW c, Between(t, c), LoopRest(t, c),
           UNCHANGED <<queue, vChecks, do_work, verdict>>,
           nTodo' <= added, nTodo' = c.todo
    PROVE  OnePlace' /\ Bounded'
<1>1. OnePlace'  BY Zenon DEF QueueInv, OnePlace, LoopRest
<1>2. Bounded'  BY Zenon DEF QueueInv, Bounded, LoopRest
<1> QED  BY Zenon, <1>1, <1>2

\* A thread that finds nothing to do is counted in nIdle while it waits.
LEMMA WaitInv ==
    ASSUME CountingFacts, QueueInv, NEW t \in Threads, NEW c, Between(t, c), LoopRest(t, c), Wait(t, c)
    PROVE  QueueInv'
<1>1. /\ nIdle' = c.idle + 1 /\ pc' = [c.pc EXCEPT ![t] = "wait"]
      /\ nTotal' = c.total /\ m_result' = c.res /\ nNow' = [nNow EXCEPT ![t] = 0]
      /\ UNCHANGED <<queue, vChecks, do_work, verdict>>
    BY ZenonT(30) DEF Wait
<1>2. /\ OneMaster'
      /\ pc' \in [Threads -> {"out", "add", "notify_one", "notify_all", "lock",
                              "wait", "woken", "work", "ret", "done"}]
      /\ nTodo' \in 0..MaxChecks /\ nTodo' <= added
      /\ local_result' \in [Threads -> Results]
      /\ \A u \in Threads \ {t} : Reporting(u) <=>
             pc'[u] = "lock" /\ nNow[u] > 0 /\ local_result'[u] = Failure
      /\ \A u \in Threads \ {t} : pc'[u] = "work" => pc[u] = "work"
      /\ InRound' <=> InRound
    BY ZenonT(30), <1>1, LoopCommon
<1>3. /\ pc[t] \in {"lock", "woken"} /\ pc'[t] = "wait"
      /\ \A u \in Threads \ {t} : pc'[u] = pc[u] \/ (pc[u] = "wait" /\ pc'[u] = "woken")
      /\ \A u \in Threads \ {t} : nNow'[u] = nNow[u]
      /\ nNow'[t] = 0 /\ nNow' \in [Threads -> 0..nBatchSize]
    BY ZenonT(30), <1>1, NoBatch DEF Between, QueueInv, TypeOK
<1>4. /\ c.idle \in Nat /\ c.total \in Nat
    <2>1. TypeOK /\ Counters  BY Zenon DEF QueueInv
    <2>2. Cardinality(Idle \ {t}) \in Nat /\ Cardinality(InLoop \ {t}) \in Nat
        BY Zenon, <2>1, CountersWithout
    <2> QED  BY <2>2 DEF Between
<1>5. TypeOK'
    <2>1. nIdle' \in Nat  BY <1>1, <1>4
    <2> QED  BY ZenonT(30), <1>1, <1>2, <1>3, <1>4, <2>1 DEF QueueInv, TypeOK, LoopRest, Between
<1>6. Batches'
    BY Zenon, <1>1, <1>3 DEF QueueInv, Batches
<1>7. Counters'
    <2>1. OthersStay(t)  BY Zenon, <1>3 DEF OthersStay
    <2>2. Unfinished'[t] = 0 /\ t \in Idle' /\ t \in InLoop'
        BY Zenon, <1>3 DEF Unfinished, Idle, InLoop
    <2>3. TypeOK /\ Counters  BY Zenon DEF QueueInv
    <2>4. Cardinality(PlacesIn(Threads \ {t}, Unfinished)) \in Nat /\ Len(queue) \in Nat
        BY Zenon, <2>3, CountersWithout DEF TypeOK
    <2>5. nTodo' = Len(queue') + Cardinality(PlacesIn(Threads \ {t}, Unfinished))
                       + Unfinished'[t]
        BY ZenonT(30), <1>1, <2>2, <2>4, PlusNothing DEF Between, LoopRest
    <2>6. /\ nIdle' = Cardinality(Idle \ {t}) + (IF t \in Idle' THEN 1 ELSE 0)
          /\ nTotal' = Cardinality(InLoop \ {t}) + (IF t \in InLoop' THEN 1 ELSE 0)
        BY Zenon, <1>1, <2>2 DEF Between
    <2> QED  BY Zenon, <1>5, <2>1, <2>3, <2>5, <2>6, CountersStep
<1>8. OnePlace' /\ Bounded'  BY ZenonT(30), <1>1, <1>2, LoopSame DEF LoopRest
<1>9. Errors'
    <2>1. \A u \in Threads \ {t} : Reporting(u) <=> Reporting(u)'
        BY ZenonT(30), <1>2, <1>3 DEF Reporting
    <2>2. Erred' <=> Erred  BY ZenonT(30), <1>1, <1>3, <2>1, LoopErrors
    <2>3. \A d : Held(d)' <=> Held(d)  BY ZenonT(30), <1>1 DEF Held
    <2>4. (Erred => bad # {})'  BY ZenonT(30), <2>2 DEF QueueInv, Errors, LoopRest
    <2>5. (InRound /\ ~Erred => /\ \A d \in 1..added : Held(d) \/ d \in executed
                                /\ executed \cap bad = {})'
        BY Zenon, <1>2, <2>2, <2>3 DEF QueueInv, Errors, LoopRest
    <2>6. m_result = Failure => m_result' = Failure  BY ZenonT(30), <1>1 DEF Between
    <2>7. (\A u \in Threads : pc[u] = "work" /\ ~do_work[u] => m_result = Failure)'
        BY ZenonT(30), <1>1, <1>2, <1>3, <2>6 DEF QueueInv, Errors
    <2> QED  BY Zenon, <2>4, <2>5, <2>7 DEF Errors
<1>10. Finished'
    BY ZenonT(30), <1>1, <1>2, LoopFinished DEF Finished, LoopRest
<1>11. Verdict'  BY Zenon, <1>1, <1>2 DEF QueueInv, Verdict, VerdictCorrect, LoopRest
<1> QED
    BY Zenon, <1>2, <1>5, <1>6, <1>7, <1>8, <1>9, <1>10, <1>11 DEF QueueInv

\* A worker leaves Loop on a stop request only, when no round is on.
LEMMA StopLoopInv ==
    ASSUME CountingFacts, QueueInv, NEW t \in Threads, NEW c, Between(t, c), LoopRest(t, c), StopLoop(t, c)
    PROVE  QueueInv'
<1>1. /\ m_request_stop /\ pc' = [c.pc EXCEPT ![t] = "done"]
      /\ nIdle' = c.idle /\ nTotal' = c.total /\ m_result' = c.res
      /\ UNCHANGED <<queue, vChecks, nNow, do_work, verdict>>
    BY Zenon DEF StopLoop
<1>2. /\ OneMaster'
      /\ pc' \in [Threads -> {"out", "add", "notify_one", "notify_all", "lock",
                              "wait", "woken", "work", "ret", "done"}]
      /\ nTodo' \in 0..MaxChecks /\ nTodo' <= added
      /\ local_result' \in [Threads -> Results]
      /\ \A u \in Threads \ {t} : Reporting(u) <=>
             pc'[u] = "lock" /\ nNow[u] > 0 /\ local_result'[u] = Failure
      /\ \A u \in Threads \ {t} : pc'[u] = "work" => pc[u] = "work"
      /\ InRound' <=> InRound
    BY ZenonT(30), <1>1, LoopCommon
<1>3. /\ pc[t] \in {"lock", "woken"} /\ pc'[t] = "done"
      /\ \A u \in Threads \ {t} : pc'[u] = pc[u] \/ (pc[u] = "wait" /\ pc'[u] = "woken")
    BY ZenonT(30), <1>1 DEF Between, QueueInv, TypeOK
<1>4. ~InRound  BY ZenonT(30), <1>1 DEF QueueInv, OneMaster, InRound
<1>5. /\ c.idle \in Nat /\ c.total \in Nat
    <2>1. TypeOK /\ Counters  BY Zenon DEF QueueInv
    <2>2. Cardinality(Idle \ {t}) \in Nat /\ Cardinality(InLoop \ {t}) \in Nat
        BY Zenon, <2>1, CountersWithout
    <2> QED  BY <2>2 DEF Between
<1>6. TypeOK'
    BY ZenonT(30), <1>1, <1>2, <1>5 DEF QueueInv, TypeOK, LoopRest, Between
<1>7. Batches'  BY ZenonT(30), <1>1, <1>3 DEF QueueInv, Batches
<1>8. Counters'
    <2>1. OthersStay(t)  BY Zenon, <1>1, <1>3 DEF OthersStay
    <2>2. Unfinished'[t] = 0 /\ t \notin Idle' /\ t \in InLoop'
        BY Zenon, <1>3 DEF Unfinished, Idle, InLoop
    <2>3. TypeOK /\ Counters  BY Zenon DEF QueueInv
    <2>4. /\ Cardinality(PlacesIn(Threads \ {t}, Unfinished)) \in Nat /\ Len(queue) \in Nat
          /\ Cardinality(Idle \ {t}) \in Nat
        BY Zenon, <2>3, CountersWithout DEF TypeOK
    <2>5. nTodo' = Len(queue') + Cardinality(PlacesIn(Threads \ {t}, Unfinished))
                       + Unfinished'[t]
        BY ZenonT(30), <1>1, <2>2, <2>4, PlusNothing DEF Between, LoopRest
    <2>6. /\ nIdle' = Cardinality(Idle \ {t}) + (IF t \in Idle' THEN 1 ELSE 0)
          /\ nTotal' = Cardinality(InLoop \ {t}) + (IF t \in InLoop' THEN 1 ELSE 0)
        BY <1>1, <2>2, <2>4 DEF Between
    <2> QED  BY Zenon, <1>6, <2>1, <2>3, <2>5, <2>6, CountersStep
<1>9. OnePlace' /\ Bounded'  BY Zenon, <1>1, <1>2, LoopSame DEF LoopRest
<1>10. Errors'
    <2>1. \A u \in Threads \ {t} : Reporting(u) <=> Reporting(u)'
        BY Zenon, <1>1, <1>2 DEF Reporting
    <2>2. Erred' <=> Erred  BY ZenonT(30), <1>1, <1>3, <2>1, LoopErrors
    <2>3. (Erred => bad # {})'  BY ZenonT(30), <2>2 DEF QueueInv, Errors, LoopRest
    <2>4. m_result = Failure => m_result' = Failure  BY ZenonT(30), <1>1 DEF Between
    <2>5. (\A u \in Threads : pc[u] = "work" /\ ~do_work[u] => m_result = Failure)'
        BY ZenonT(30), <1>1, <1>2, <1>3, <2>4 DEF QueueInv, Errors
    <2> QED  BY Zenon, <1>2, <1>4, <2>3, <2>5 DEF Errors
<1>11. Finished'  BY ZenonT(30), <1>1, <1>4, LoopFinished DEF Finished, LoopRest
<1>12. Verdict'  BY ZenonT(30), <1>1, <1>2 DEF QueueInv, Verdict, VerdictCorrect, LoopRest
<1> QED
    BY Zenon, <1>2, <1>6, <1>7, <1>8, <1>9, <1>10, <1>11, <1>12 DEF QueueInv

\* The master returns when nothing is left to do: the verdict it takes is that of
\* all the checks of the round.
LEMMA ReturnInv ==
    ASSUME CountingFacts, QueueInv, NEW t \in Threads, NEW c, Between(t, c), LoopRest(t, c), Return(t, c)
    PROVE  QueueInv'
<1>1. /\ queue = <<>> /\ t \in Masters /\ c.todo = 0
      /\ nTotal' = c.total - 1 /\ m_result' = NoResult /\ nIdle' = c.idle
      /\ verdict' = [res |-> c.res, checks |-> added]
      /\ pc' = [c.pc EXCEPT ![t] = "ret"] /\ nNow' = [nNow EXCEPT ![t] = 0]
      /\ UNCHANGED <<queue, vChecks, do_work>>
    BY ZenonT(30) DEF Return, MayReturn, LeftTotal, LeftResult
<1>2. /\ OneMaster'
      /\ pc' \in [Threads -> {"out", "add", "notify_one", "notify_all", "lock",
                              "wait", "woken", "work", "ret", "done"}]
      /\ nTodo' \in 0..MaxChecks /\ nTodo' <= added
      /\ local_result' \in [Threads -> Results]
      /\ \A u \in Threads \ {t} : Reporting(u) <=>
             pc'[u] = "lock" /\ nNow[u] > 0 /\ local_result'[u] = Failure
      /\ \A u \in Threads \ {t} : pc'[u] = "work" => pc[u] = "work"
    BY ZenonT(30), <1>1, LoopCommon
<1>3. /\ pc[t] \in {"lock", "woken"} /\ pc'[t] = "ret"
      /\ \A u \in Threads \ {t} : pc'[u] = pc[u] \/ (pc[u] = "wait" /\ pc'[u] = "woken")
      /\ \A u \in Threads \ {t} : nNow'[u] = nNow[u]
      /\ nNow'[t] = 0 /\ nNow' \in [Threads -> 0..nBatchSize]
    BY ZenonT(30), <1>1, NoBatch DEF Between, QueueInv, TypeOK
<1>4. control = t /\ t # NoThread  BY Zenon, <1>1, <1>3, CheckQueueAssumption DEF QueueInv, OneMaster
<1>5. InRound /\ ~InRound'  BY ZenonT(30), <1>3, <1>4 DEF InRound, LoopRest
<1>6. /\ \A u \in Threads : pc[u] # "work" /\ vChecks[u] = <<>>
      /\ \A u \in Threads \ {t} : ~Reporting(u)
    <2>1. Len(queue) + Cardinality(PlacesIn(Threads \ {t}, Unfinished)) = 0
        BY ZenonT(30), <1>1 DEF Between
    <2> QED  BY ZenonT(30), <1>1, <1>3, <2>1, OthersIdle
<1>7. /\ c.idle \in Nat /\ c.total - 1 \in Nat /\ c.total - 1 = Cardinality(InLoop \ {t})
      /\ c.idle = Cardinality(Idle \ {t})
    <2>1. TypeOK /\ Counters  BY Zenon DEF QueueInv
    <2>2. Cardinality(Idle \ {t}) \in Nat /\ Cardinality(InLoop \ {t}) \in Nat
        BY Zenon, <2>1, CountersWithout
    <2> QED  BY <2>2 DEF Between
<1>8. TypeOK'
    BY Zenon, <1>1, <1>2, <1>3, <1>7 DEF QueueInv, TypeOK, LoopRest, Between, Results
<1>9. Batches'  BY Zenon, <1>1, <1>3, <1>6 DEF QueueInv, Batches
<1>10. Counters'
    <2>1. OthersStay(t)  BY ZenonT(30), <1>3 DEF OthersStay
    <2>2. Unfinished'[t] = 0 /\ t \notin Idle' /\ t \notin InLoop'
        BY Zenon, <1>3 DEF Unfinished, Idle, InLoop
    <2>3. TypeOK /\ Counters  BY Zenon DEF QueueInv
    <2>4. /\ Cardinality(PlacesIn(Threads \ {t}, Unfinished)) \in Nat /\ Len(queue) \in Nat
          /\ Cardinality(Idle \ {t}) \in Nat /\ Cardinality(InLoop \ {t}) \in Nat
        BY Zenon, <2>3, CountersWithout DEF TypeOK
    <2>5. nTodo' = Len(queue') + Cardinality(PlacesIn(Threads \ {t}, Unfinished))
                       + Unfinished'[t]
        BY ZenonT(30), <1>1, <2>2, <2>4, PlusNothing DEF Between, LoopRest
    <2>6. /\ nIdle' = Cardinality(Idle \ {t}) + (IF t \in Idle' THEN 1 ELSE 0)
          /\ nTotal' = Cardinality(InLoop \ {t}) + (IF t \in InLoop' THEN 1 ELSE 0)
        BY ZenonT(30), <1>1, <1>7, <2>2, <2>4, PlusNothing
    <2> QED  BY Zenon, <1>8, <2>1, <2>3, <2>5, <2>6, CountersStep
<1>11. OnePlace'  BY ZenonT(30), <1>1 DEF QueueInv, OnePlace, LoopRest
<1>12. Bounded'  BY ZenonT(30), <1>1, <1>2, <1>4 DEF QueueInv, Bounded, LoopRest
<1>13. Errors'
    <2>1. \A u \in Threads : ~Reporting(u)'
        BY ZenonT(30), <1>2, <1>3, <1>6 DEF Reporting
    <2>2. ~Erred'  BY Zenon, <1>1, <2>1 DEF Erred, NoResult, Failure
    <2>3. \A u \in Threads : pc'[u] # "work"  BY Zenon, <1>2, <1>3, <1>6
    <2> QED  BY ZenonT(30), <1>5, <2>2, <2>3 DEF Errors
<1>14. Finished'  BY Zenon, <1>1 DEF Finished, LoopRest
<1>15. Verdict'
    <2>1. c.res \in {NoResult, Failure} /\ (c.res = Failure <=> Erred)
        BY Zenon, <1>6 DEF Between, Results, Erred
    <2>2. bad \subseteq 1..added  BY Zenon DEF QueueInv, Bounded
    <2>3. \A d : ~Held(d)  BY <1>1, <1>6 DEF Held, Range
    <2>4. Erred => bad # {}  BY Zenon DEF QueueInv, Errors
    <2>5. ~Erred => 1..added \subseteq executed /\ executed \cap bad = {}
        BY Zenon, <1>5, <2>3 DEF QueueInv, Errors
    <2>6. VerdictCorrect'
        BY Zenon, <1>1, <2>1, <2>2, <2>4, <2>5 DEF VerdictCorrect, LoopRest, NoResult, Failure
    <2>7. control' # NoThread  BY Zenon, <1>4 DEF LoopRest
    <2> QED  BY Zenon, <1>5, <2>6, <2>7 DEF Verdict
<1> QED
    BY Zenon, <1>2, <1>8, <1>9, <1>10, <1>11, <1>12, <1>13, <1>14, <1>15 DEF QueueInv

\* The queue is what a batch of n checks leaves of it, and the batch.
LEMMA BatchTaken ==
    ASSUME TypeOK, IsInjective(queue), NEW n \in 1..Len(queue)
    PROVE  LET rest  == Remaining(n)
               taken == SubSeq(queue, Len(queue) - n + 1, Len(queue)) IN
           /\ rest \in Seq(Checks) /\ Len(rest) = Len(queue) - n /\ IsInjective(rest)
           /\ taken \in Seq(Checks) /\ Len(taken) = n /\ IsInjective(taken)
           /\ Range(queue) = Range(rest) \cup Range(taken)
           /\ Range(rest) \cap Range(taken) = {}
<1> DEFINE rest  == Remaining(n)
           taken == SubSeq(queue, Len(queue) - n + 1, Len(queue))
           len   == Len(queue)
<1>0. queue \in Seq(Checks) /\ len \in Nat /\ DOMAIN queue = 1..len /\ n \in 1..len
    BY DEF TypeOK
<1>1. \A i \in 1..len : queue[i] \in Checks  BY <1>0
<1> HIDE DEF len
<1>2. rest = SubSeq(queue, 1, len - n) /\ taken = SubSeq(queue, len - n + 1, len)
    BY Zenon DEF Remaining, len
<1> HIDE DEF rest, taken
<1>3. /\ rest \in Seq(Checks) /\ Len(rest) = len - n
      /\ \A i \in 1..len - n : rest[i] = queue[i]
    <2>1. \A i \in 1..len - n : queue[i] \in Checks  BY <1>0, <1>1
    <2>2. /\ SubSeq(queue, 1, len - n) \in Seq(Checks)
          /\ Len(SubSeq(queue, 1, len - n)) = IF 1 <= len - n THEN len - n - 1 + 1 ELSE 0
          /\ \A i \in 1..len - n - 1 + 1 : SubSeq(queue, 1, len - n)[i] = queue[1 + i - 1]
        BY <1>0, <2>1
    <2> QED  BY <1>0, <1>2, <2>2
<1>4. /\ taken \in Seq(Checks) /\ Len(taken) = n
      /\ \A i \in 1..n : taken[i] = queue[len - n + i]
    <2>1. \A i \in len - n + 1..len : queue[i] \in Checks  BY <1>0, <1>1
    <2>2. /\ SubSeq(queue, len - n + 1, len) \in Seq(Checks)
          /\ Len(SubSeq(queue, len - n + 1, len)) =
                 IF len - n + 1 <= len THEN len - (len - n + 1) + 1 ELSE 0
          /\ \A i \in 1..len - (len - n + 1) + 1 :
                 SubSeq(queue, len - n + 1, len)[i] = queue[len - n + 1 + i - 1]
        BY <1>0, <2>1
    <2> QED  BY <1>0, <1>2, <2>2
<1>5. DOMAIN rest = 1..len - n /\ DOMAIN taken = 1..n
    BY <1>3, <1>4
<1>6. IsInjective(rest)  BY <1>0, <1>3, <1>5 DEF IsInjective
<1>7. IsInjective(taken)
    <2> SUFFICES ASSUME NEW a \in 1..n, NEW b \in 1..n, taken[a] = taken[b] PROVE a = b
        BY Zenon, <1>5 DEF IsInjective
    <2>1. len - n + a \in 1..len /\ len - n + b \in 1..len  BY <1>0
    <2>2. queue[len - n + a] = queue[len - n + b]  BY Zenon, <1>4
    <2>3. len - n + a = len - n + b  BY Zenon, <1>0, <2>1, <2>2 DEF IsInjective
    <2> QED  BY <1>0, <2>3
<1>8. Range(rest) \cap Range(taken) = {}
    <2> SUFFICES ASSUME NEW a \in 1..len - n, NEW b \in 1..n, rest[a] = taken[b] PROVE FALSE
        BY Zenon, <1>5 DEF Range
    <2>1. a \in 1..len /\ len - n + b \in 1..len /\ a # len - n + b  BY <1>0
    <2>2. queue[a] = queue[len - n + b]  BY Zenon, <1>3, <1>4
    <2> QED  BY Zenon, <1>0, <2>1, <2>2 DEF IsInjective
<1>9. Range(queue) = Range(rest) \cup Range(taken)
    <2>1. ASSUME NEW i \in 1..len PROVE queue[i] \in Range(rest) \cup Range(taken)
        <3>1. CASE i <= len - n  BY <1>0, <1>3, <1>5, <3>1 DEF Range
        <3>2. CASE i > len - n
            <4>1. i - (len - n) \in 1..n /\ len - n + (i - (len - n)) = i  BY <1>0, <3>2
            <4>2. taken[i - (len - n)] = queue[i]  BY Zenon, <1>4, <4>1
            <4> QED  BY Zenon, <1>5, <4>1, <4>2 DEF Range
        <3> QED  BY <1>0, <3>1, <3>2
    <2>2. \A i \in 1..len - n : rest[i] \in Range(queue)  BY <1>0, <1>3 DEF Range
    <2>3. \A i \in 1..n : taken[i] \in Range(queue)
        <3> TAKE i \in 1..n
        <3>1. len - n + i \in 1..len  BY <1>0
        <3> QED  BY Zenon, <1>0, <1>4, <3>1 DEF Range
    <2>4. Range(rest) \subseteq Range(queue)  BY Zenon, <1>5, <2>2 DEF Range
    <2>5. Range(taken) \subseteq Range(queue)  BY Zenon, <1>5, <2>3 DEF Range
    <2>6. Range(queue) \subseteq Range(rest) \cup Range(taken)
        BY Zenon, <1>0, <2>1 DEF Range
    <2> QED  BY Zenon, <2>4, <2>5, <2>6
<1> QED  BY Zenon, <1>3, <1>4, <1>6, <1>7, <1>8, <1>9 DEF rest, taken, len

\* Where the checks are after thread t has taken its batch off the queue.
LEMMA ChecksMoved ==
    ASSUME CountingFacts, QueueInv, NEW t \in Threads, pc[t] # "work",
           NEW rest, NEW taken, queue' = rest, vChecks' = [vChecks EXCEPT ![t] = taken],
           executed' = executed, bad' = bad, added' = added, control' = control,
           nTodo' <= added, IsInjective(rest), IsInjective(taken),
           Range(queue) = Range(rest) \cup Range(taken), Range(rest) \cap Range(taken) = {}
    PROVE  OnePlace' /\ Bounded' /\ \A d : Held(d)' <=> Held(d)
<1>1. /\ vChecks'[t] = taken /\ Range(vChecks[t]) = {}
      /\ \A u \in Threads \ {t} : vChecks'[u] = vChecks[u]
    BY DEF QueueInv, TypeOK, Batches, Range
<1>2. OnePlace'
    <2>1. OnePlace  BY Zenon DEF QueueInv
    <2>2. IsInjective(queue') /\ Range(queue') \cap executed' = {}
        BY Zenon, <2>1 DEF OnePlace
    <2>3. ASSUME NEW u \in Threads
          PROVE  /\ IsInjective(vChecks'[u])
                 /\ Range(vChecks'[u]) \cap (Range(queue') \cup executed') = {}
        <3>1. CASE u = t  BY Zenon, <1>1, <2>1, <3>1 DEF OnePlace
        <3>2. CASE u # t  BY Zenon, <1>1, <2>1, <3>2 DEF OnePlace
        <3> QED  BY Zenon, <3>1, <3>2
    <2>4. ASSUME NEW u \in Threads, NEW v \in Threads \ {u}
          PROVE  Range(vChecks'[u]) \cap Range(vChecks'[v]) = {}
        <3>1. CASE u = t  BY Zenon, <1>1, <2>1, <3>1 DEF OnePlace
        <3>2. CASE v = t  BY Zenon, <1>1, <2>1, <3>2 DEF OnePlace
        <3>3. CASE u # t /\ v # t  BY Zenon, <1>1, <2>1, <3>3 DEF OnePlace
        <3> QED  BY Zenon, <3>1, <3>2, <3>3
    <2> QED  BY Zenon, <2>2, <2>3, <2>4 DEF OnePlace
<1>3. Bounded'  BY Zenon, <1>1 DEF QueueInv, Bounded
<1>4. \A d : Held(d)' <=> Held(d)  BY Zenon, <1>1 DEF Held
<1> QED  BY Zenon, <1>2, <1>3, <1>4

\* A thread takes a batch: its checks leave the queue and stay in nTodo.
LEMMA TakeBatchInv ==
    ASSUME CountingFacts, QueueInv, NEW t \in Threads, NEW c, Between(t, c), LoopRest(t, c), TakeBatch(t, c)
    PROVE  QueueInv'
<1> DEFINE n == BatchSize(c)
           taken == SubSeq(queue, Len(queue) - n + 1, Len(queue))
<1>1. /\ queue # <<>> /\ nNow' = [nNow EXCEPT ![t] = n]
      /\ vChecks' = [vChecks EXCEPT ![t] = taken] /\ queue' = Remaining(n)
      /\ do_work' = [do_work EXCEPT ![t] = c.res = NoResult]
      /\ pc' = [c.pc EXCEPT ![t] = "work"]
      /\ nTotal' = c.total /\ m_result' = c.res /\ nIdle' = c.idle /\ verdict' = verdict
    BY ZenonT(30) DEF TakeBatch
<1>2. /\ OneMaster'
      /\ pc' \in [Threads -> {"out", "add", "notify_one", "notify_all", "lock",
                              "wait", "woken", "work", "ret", "done"}]
      /\ nTodo' \in 0..MaxChecks /\ nTodo' <= added
      /\ local_result' \in [Threads -> Results]
      /\ \A u \in Threads \ {t} : Reporting(u) <=>
             pc'[u] = "lock" /\ nNow[u] > 0 /\ local_result'[u] = Failure
      /\ \A u \in Threads \ {t} : pc'[u] = "work" => pc[u] = "work"
      /\ InRound' <=> InRound
    BY ZenonT(30), <1>1, LoopCommon
<1>3. TypeOK /\ Counters  BY Zenon DEF QueueInv
<1>4. /\ Cardinality(PlacesIn(Threads \ {t}, Unfinished)) \in Nat
      /\ c.idle \in Nat /\ c.total \in Nat /\ Len(queue) \in Nat
      /\ c.idle = Cardinality(Idle \ {t}) /\ c.total = Cardinality(InLoop \ {t}) + 1
      /\ nTodo' = Len(queue) + Cardinality(PlacesIn(Threads \ {t}, Unfinished))
    <2>1. /\ Cardinality(PlacesIn(Threads \ {t}, Unfinished)) \in Nat
          /\ Cardinality(Idle \ {t}) \in Nat /\ Cardinality(InLoop \ {t}) \in Nat
        BY Zenon, <1>3, CountersWithout
    <2>2. Len(queue) \in Nat  BY <1>3 DEF TypeOK
    <2> QED  BY <2>1, <2>2 DEF Between, LoopRest
<1>5. n \in 1..nBatchSize /\ n \in 1..Len(queue)
    BY ZenonT(30), <1>1, <1>3, <1>4, BatchSizeBounds DEF TypeOK
<1> HIDE DEF n
<1>6. /\ queue' \in Seq(Checks) /\ Len(queue') = Len(queue) - n /\ IsInjective(queue')
      /\ taken \in Seq(Checks) /\ Len(taken) = n /\ IsInjective(taken)
      /\ Range(queue) = Range(queue') \cup Range(taken)
      /\ Range(queue') \cap Range(taken) = {}
    <2>1. IsInjective(queue)  BY Zenon DEF QueueInv, OnePlace
    <2> QED  BY ZenonT(30), <1>1, <1>3, <1>5, <2>1, BatchTaken
<1> HIDE DEF taken
<1>7. /\ pc[t] \in {"lock", "woken"} /\ pc'[t] = "work" /\ vChecks'[t] = taken
      /\ do_work'[t] = (c.res = NoResult)
      /\ nNow'[t] = n /\ nNow' \in [Threads -> 0..nBatchSize]
      /\ vChecks' \in [Threads -> Seq(Checks)] /\ do_work' \in [Threads -> BOOLEAN]
    <2>1. n \in 0..nBatchSize
        BY Zenon, <1>5, NoBatch
    <2> QED  BY ZenonT(30), <1>1, <1>3, <1>6, <2>1 DEF Between, TypeOK
<1>8. \A u \in Threads \ {t} :
          /\ pc'[u] = pc[u] \/ (pc[u] = "wait" /\ pc'[u] = "woken")
          /\ nNow'[u] = nNow[u] /\ vChecks'[u] = vChecks[u] /\ do_work'[u] = do_work[u]
    BY ZenonT(30), <1>1, <1>3 DEF Between, TypeOK
<1>9. TypeOK'
    BY ZenonT(30), <1>1, <1>2, <1>3, <1>4, <1>6, <1>7 DEF TypeOK, LoopRest, Between
<1>10. Batches'
    <2> DEFINE Batch(u) ==
            /\ IF pc[u] = "work" THEN nNow[u] = Len(vChecks[u]) /\ nNow[u] > 0
               ELSE vChecks[u] = <<>>
            /\ pc[u] \in {"wait", "woken", "ret", "out", "add", "notify_one", "notify_all"}
                   => nNow[u] = 0
    <2>1. n > 0  BY Zenon, <1>5, NoBatch
    <2>3. Batch(t)'  BY Zenon, <1>6, <1>7, <2>1
    <2>2. ASSUME NEW u \in Threads \ {t}  PROVE  Batch(u)'
        <3>1. Batch(u)  BY Zenon DEF QueueInv, Batches
        <3> QED  BY <3>1, <1>8
    <2> QED  BY Zenon, <2>2, <2>3 DEF Batches
<1>11. Counters'
    <2>1. OthersStay(t)  BY Zenon, <1>8 DEF OthersStay
    <2>2. Unfinished'[t] = n /\ t \notin Idle' /\ t \in InLoop'
        BY Zenon, <1>7 DEF Unfinished, Idle, InLoop
    <2>3. nTodo' = Len(queue') + Cardinality(PlacesIn(Threads \ {t}, Unfinished))
                       + Unfinished'[t]
        BY <1>4, <1>5, <1>6, <2>2
    <2>4. /\ nIdle' = Cardinality(Idle \ {t}) + (IF t \in Idle' THEN 1 ELSE 0)
          /\ nTotal' = Cardinality(InLoop \ {t}) + (IF t \in InLoop' THEN 1 ELSE 0)
        BY <1>1, <1>4, <2>2
    <2> QED  BY Zenon, <1>3, <1>9, <2>1, <2>3, <2>4, CountersStep
<1>12. OnePlace' /\ Bounded' /\ \A d : Held(d)' <=> Held(d)
    <2>1. pc[t] # "work" /\ nTodo' <= added  BY Zenon, <1>2, <1>7
    <2>2. executed' = executed /\ bad' = bad /\ added' = added /\ control' = control
        BY Zenon DEF LoopRest
    <2> QED  BY ZenonT(30), <1>1, <1>6, <2>1, <2>2, ChecksMoved
<1>13. Errors'
    <2>1. \A u \in Threads \ {t} : Reporting(u) <=> Reporting(u)'
        BY Zenon, <1>2, <1>8 DEF Reporting
    <2>2. Erred' <=> Erred  BY ZenonT(30), <1>1, <1>7, <2>1, LoopErrors
    <2>3. (Erred => bad # {})'  BY ZenonT(30), <2>2 DEF QueueInv, Errors, LoopRest
    <2>4. (InRound /\ ~Erred => /\ \A d \in 1..added : Held(d) \/ d \in executed
                                /\ executed \cap bad = {})'
        BY ZenonT(30), <1>2, <1>12, <2>2 DEF QueueInv, Errors, LoopRest
    <2>5. m_result = Failure => m_result' = Failure  BY ZenonT(30), <1>1 DEF Between
    <2>6. c.res # NoResult => m_result' = Failure  BY Zenon, <1>1 DEF Between, Results
    <2>7. ASSUME NEW u \in Threads, pc'[u] = "work", ~do_work'[u] PROVE m_result' = Failure
        <3>1. CASE u = t  BY ZenonT(30), <1>7, <2>6, <2>7, <3>1
        <3>2. CASE u # t  BY ZenonT(30), <1>2, <1>8, <2>5, <2>7, <3>2 DEF QueueInv, Errors
        <3> QED  BY Zenon, <3>1, <3>2
    <2> QED  BY ZenonT(30), <2>3, <2>4, <2>7 DEF Errors
<1>14. InRound  BY ZenonT(30), <1>1 DEF QueueInv, Finished
<1>15. Finished'  BY Zenon, <1>2, <1>14 DEF Finished
<1>16. Verdict'
    BY ZenonT(30), <1>1, <1>2, <1>14 DEF QueueInv, Verdict, VerdictCorrect, LoopRest
<1> QED
    BY Zenon, <1>2, <1>9, <1>10, <1>11, <1>12, <1>13, <1>15, <1>16 DEF QueueInv
-----------------------------------------------------------------------------
(* The inductive invariant. *)

\* One turn of Loop's while, from whatever the clean-up left.
LEMMA WhileInv ==
    ASSUME CountingFacts, QueueInv, NEW t \in Threads, NEW c, Between(t, c), While(t, c)
    PROVE  QueueInv'
<1>1. LoopRest(t, c)  BY Zenon DEF While, LoopRest
<1>2. CASE Return(t, c)  BY Zenon, <1>1, <1>2, ReturnInv
<1>3. CASE Wait(t, c)  BY Zenon, <1>1, <1>3, WaitInv
<1>4. CASE TakeBatch(t, c)  BY Zenon, <1>1, <1>4, TakeBatchInv
<1>5. CASE StopLoop(t, c)  BY Zenon, <1>1, <1>5, StopLoopInv
<1> QED  BY Zenon, <1>2, <1>3, <1>4, <1>5 DEF While

\* A step of Loop: entering it, returning from cond.wait, or running a batch.
LEMMA LoopStepInv ==
    ASSUME CountingFacts, QueueInv, NEW t \in Threads, LoopStep(t) PROVE QueueInv'
<1>1. CASE EnterLoop(t)
    <2>1. PICK c \in Cleanup(t) : While(t, c)  BY Zenon, <1>1 DEF EnterLoop
    <2>2. pc[t] = "lock"  BY Zenon, <1>1 DEF EnterLoop
    <2>3. Between(t, c)  BY Zenon, <2>2, BetweenEnter
    <2> QED  BY Zenon, <2>1, <2>3, WhileInv
<1>2. CASE ResumeWait(t)
    <2> DEFINE c == [res |-> m_result, local |-> local_result[t], todo |-> nTodo,
                     total |-> nTotal, idle |-> nIdle - 1, pc |-> pc]
    <2>1. pc[t] = "woken" /\ While(t, c)  BY ZenonT(30), <1>2 DEF ResumeWait
    <2>2. Between(t, c)  BY Zenon, <2>1, BetweenResume
    <2> HIDE DEF c
    <2> QED  BY Zenon, <2>1, <2>2, WhileInv
<1>3. CASE Work(t)  BY Zenon, <1>3, WorkInv
<1> QED  BY Zenon, <1>1, <1>2, <1>3 DEF LoopStep
-----------------------------------------------------------------------------
(* The facts about sets. *)

INSTANCE FiniteSetTheorems

\* The size of a product of two finite sets, with no reference to intervals.
LEMMA Product ==
    ASSUME NEW S, NEW T, IsFiniteSet(S), IsFiniteSet(T)
    PROVE  IsFiniteSet(S \X T) /\ Cardinality(S \X T) = Cardinality(S) * Cardinality(T)
    BY Zenon, FS_Product

\* There are finitely many threads.
LEMMA ThreadsFinite == IsFiniteSet(Threads)
    BY Zenon, CheckQueueAssumption, FS_Union DEF Threads

\* A set of threads is a thread of it and the others.
LEMMA ThreadsAddUp ==
    ASSUME NEW S \in SUBSET Threads, NEW t \in Threads
    PROVE  /\ Cardinality(S) \in Nat /\ Cardinality(S \ {t}) \in Nat
           /\ Cardinality(S) = Cardinality(S \ {t}) + (IF t \in S THEN 1 ELSE 0)
<1>1. IsFiniteSet(S)  BY Zenon, ThreadsFinite, FS_Subset
<1>2. IsFiniteSet(S \ {t}) /\ Cardinality(S \ {t}) =
          IF t \in S THEN Cardinality(S) - 1 ELSE Cardinality(S)
    BY Zenon, <1>1, FS_RemoveElement
<1>3. Cardinality(S) \in Nat /\ Cardinality(S \ {t}) \in Nat
    BY Zenon, <1>1, <1>2, FS_CardinalityType
<1> QED  BY <1>2, <1>3

\* The places in the batches of all threads are those of one thread and those of
\* the others.
LEMMA PlacesAddUp ==
    ASSUME NEW f \in [Threads -> 0..nBatchSize], NEW t \in Threads
    PROVE  /\ IsFiniteSet(PlacesIn(Threads \ {t}, f))
           /\ Cardinality(PlacesIn(Threads, f)) \in Nat
           /\ Cardinality(PlacesIn(Threads \ {t}, f)) \in Nat
           /\ Cardinality(PlacesIn(Threads, f)) =
                  Cardinality(PlacesIn(Threads \ {t}, f)) + f[t]
<1> DEFINE A == PlacesIn(Threads \ {t}, f)
           B == {t} \X (1..f[t])
<1>0. nBatchSize \in Nat /\ f[t] \in 0..nBatchSize  BY Zenon, CheckQueueAssumption
<1>1. IsFiniteSet(Threads \X (1..nBatchSize))
    <2>1. IsFiniteSet(1..nBatchSize)  BY <1>0, FS_Interval
    <2> QED  BY Zenon, <2>1, ThreadsFinite, Product
<1>2. IsFiniteSet(PlacesIn(Threads, f)) /\ IsFiniteSet(A)
    <2>1. PlacesIn(Threads, f) \in SUBSET (Threads \X (1..nBatchSize))  BY Zenon DEF PlacesIn
    <2>2. A \in SUBSET (Threads \X (1..nBatchSize))  BY Zenon DEF PlacesIn
    <2> QED  BY Zenon, <1>1, <2>1, <2>2, FS_Subset
<1>3. PlacesIn(Threads, f) = A \cup B  BY <1>0 DEF PlacesIn
<1>4. A \cap B = {}  BY Zenon DEF PlacesIn
<1>5. IsFiniteSet(B) /\ Cardinality(B) = f[t]
    <2>1. IsFiniteSet(1..f[t]) /\ Cardinality(1..f[t]) = f[t]  BY <1>0, FS_Interval
    <2>2. IsFiniteSet({t}) /\ Cardinality({t}) = 1  BY Zenon, FS_Singleton
    <2> HIDE DEF B
    <2>3. IsFiniteSet({t} \X (1..f[t])) /\ Cardinality({t} \X (1..f[t])) = 1 * f[t]
        <3> DEFINE I == 1..f[t]
        <3> HIDE DEF I
        <3>1. IsFiniteSet({t} \X I) /\ Cardinality({t} \X I) = Cardinality({t}) * Cardinality(I)
            BY Zenon, <2>1, <2>2, Product DEF I
        <3> QED  BY Zenon, <2>1, <2>2, <3>1 DEF I
    <2> QED  BY <2>3, <1>0 DEF B
<1> HIDE DEF A, B
<1>6. Cardinality(A \cup B) = Cardinality(A) + Cardinality(B) - Cardinality(A \cap B)
    BY Zenon, <1>2, <1>5, FS_Union
<1>7. Cardinality(A \cap B) = 0  BY Zenon, <1>4, FS_EmptySet
<1>8. Cardinality(A) \in Nat /\ Cardinality(PlacesIn(Threads, f)) \in Nat
    BY Zenon, <1>2, FS_CardinalityType
<1>9. Cardinality(PlacesIn(Threads, f)) = Cardinality(A) + f[t]
    BY <1>0, <1>3, <1>5, <1>6, <1>7, <1>8
<1> QED  BY Zenon, <1>2, <1>8, <1>9 DEF A

\* A set of natural numbers has a least element: < is well-founded on them.
LEMMA NumbersOrdered == LeastExists
<1> SUFFICES ASSUME NEW T \in SUBSET Nat, T # {} PROVE \E m \in T : \A n \in T : m <= n
    BY Zenon DEF LeastExists
<1>1. PICK m \in T : \A n \in T : ~(<<n, m>> \in OpToRel(<, Nat))
    BY NatLessThanWellFounded, WFMin, Zenon
<1>2. ASSUME NEW n \in T PROVE m <= n
    <2>1. ~(<<n, m>> \in {x \in Nat \X Nat : x[1] < x[2]})
        BY <1>1, Zenon DEF OpToRel
    <2> QED  BY <2>1
<1> QED  BY Zenon, <1>2

\* The facts the lemmas above assume.
LEMMA Facts == CountingFacts
BY Zenon, ThreadsAddUp, PlacesAddUp, NumbersOrdered, FS_EmptySet DEF CountingFacts, ThreadsAdd, PlacesAdd, NoneCounted
-----------------------------------------------------------------------------


\* A queue that has just been constructed: nothing queued, every worker about
\* to enter Loop.
LEMMA InitInv == Init => QueueInv
<1> SUFFICES ASSUME Init PROVE QueueInv
    BY Zenon
<1>1. /\ queue = <<>> /\ nIdle = 0 /\ nTotal = 0 /\ nTodo = 0
      /\ m_result = NoResult /\ m_request_stop = FALSE /\ control = NoThread
      /\ added = 0 /\ bad = {} /\ executed = {} /\ verdict = NoVerdict
    BY Zenon DEF Init
<1>2. \A t \in Threads : /\ pc[t] = IF t \in Workers THEN "lock" ELSE "out"
                         /\ vChecks[t] = <<>> /\ nNow[t] = 0
                         /\ local_result[t] = NoResult /\ do_work[t] = FALSE
    BY Zenon DEF Init
<1>3. TypeOK
    <2>1. queue \in Seq(Checks)  BY <1>1
    <2>2. pc \in [Threads -> {"out", "add", "notify_one", "notify_all", "lock",
                              "wait", "woken", "work", "ret", "done"}]
        BY Zenon DEF Init
    <2>3. vChecks \in [Threads -> Seq(Checks)] /\ do_work \in [Threads -> BOOLEAN]
        BY DEF Init
    <2>4. nNow \in [Threads -> 0..nBatchSize]  BY CheckQueueAssumption DEF Init
    <2>5. local_result \in [Threads -> Results]  BY Zenon DEF Init, Results
    <2>6. nTodo \in 0..MaxChecks /\ added \in 0..MaxChecks  BY <1>1, CheckQueueAssumption
    <2> QED  BY Zenon, <1>1, <2>1, <2>2, <2>3, <2>4, <2>5, <2>6 DEF TypeOK, Results
<1>4. OneMaster
    BY Zenon, <1>1, <1>2, CheckQueueAssumption DEF OneMaster, WorkerPc, MasterPc, Threads
<1>5. Batches  BY Zenon, <1>2 DEF Batches
<1>6. Counters
    <2>1. Unfinished \in [Threads -> 0..nBatchSize]  BY Zenon, <1>3, UnfinishedType
    <2>2. \A t \in Threads : Unfinished[t] = 0  BY Zenon, <1>2 DEF Unfinished
    <2>3. PlacesIn(Threads, Unfinished) = {}  BY <2>2, CheckQueueAssumption DEF PlacesIn
    <2>4. Idle = {} /\ InLoop = {}  BY <1>2 DEF Idle, InLoop
    <2>5. Cardinality({}) = 0 /\ Len(queue) = 0  BY Zenon, <1>1, FS_EmptySet
    <2> QED  BY <1>1, <2>3, <2>4, <2>5 DEF Counters
<1>7. OnePlace  BY <1>1, <1>2 DEF OnePlace, IsInjective, Range
<1>8. Bounded  BY <1>1, <1>2 DEF Bounded, Range
<1>9. Errors  BY Zenon, <1>1, <1>2 DEF Errors, Erred, Reporting, InRound, NoResult, Failure
<1>10. Finished /\ Verdict
    BY <1>1 DEF Finished, Verdict, VerdictCorrect, NoVerdict
<1> QED  BY Zenon, <1>3, <1>4, <1>5, <1>6, <1>7, <1>8, <1>9, <1>10 DEF QueueInv

\* Every step of every thread preserves the invariant.
LEMMA StepInv == QueueInv /\ [Next]_vars => QueueInv'
<1> SUFFICES ASSUME QueueInv, [Next]_vars PROVE QueueInv'
    BY Zenon
<1> USE Facts
<1>1. ASSUME NEW m \in Masters, MasterStep(m) PROVE QueueInv'
    BY Zenon, <1>1, CreateControlInv, AddInv, AddNotifyInv, CompleteInv, DestroyControlInv
    DEF MasterStep
<1>2. ASSUME NEW t \in Threads, LoopStep(t) PROVE QueueInv'
    BY Zenon, <1>2, LoopStepInv
<1>3. ASSUME NEW t \in Threads, SpuriousWakeup(t) PROVE QueueInv'
    BY Zenon, <1>3, SpuriousWakeupInv
<1>4. CASE RequestStop  BY Zenon, <1>4, RequestStopInv
<1>5. CASE NotifyStop  BY Zenon, <1>5, NotifyStopInv
<1>6. CASE Destroyed  BY Zenon, <1>6, StutterInv DEF Destroyed
<1>7. CASE UNCHANGED vars  BY Zenon, <1>7, StutterInv
<1> QED  BY Zenon, <1>1, <1>2, <1>3, <1>4, <1>5, <1>6, <1>7 DEF Next

\* The invariant holds in every state CCheckQueue can reach.
THEOREM QueueInvariant == Spec => []QueueInv
<1>1. Init => QueueInv  BY Zenon, InitInv
<1>2. QueueInv /\ [Next]_vars => QueueInv'  BY Zenon, StepInv
<1> QED  BY <1>1, <1>2, PTL DEF Spec

\* Complete returns an error exactly when a check of the round fails, and after a
\* success every check has been evaluated, whatever the number of threads.
THEOREM VerdictIsCorrect == Spec => []VerdictCorrect
<1>1. QueueInv => VerdictCorrect  BY Zenon DEF QueueInv, Verdict
<1> QED  BY <1>1, QueueInvariant, PTL

\* nTodo, nIdle and nTotal count what they are meant to count at every release of
\* m_mutex, and no check is in two places or evaluated twice.
THEOREM CountersAreExact == Spec => []CountersExact
<1>1. QueueInv => CountersExact
    BY Zenon DEF QueueInv, Counters, Idle, InLoop, OnePlace, CountersExact
<1> QED  BY <1>1, QueueInvariant, PTL

\* Once the control of a block is gone, no thread holds one of its checks.
THEOREM NothingAfterRelease == Spec => []FinishedWhenReleased
<1>1. QueueInv => FinishedWhenReleased
    <2> SUFFICES ASSUME QueueInv, control = NoThread PROVE FinishedWhenReleased
        BY Zenon DEF FinishedWhenReleased
    <2>1. queue = <<>> /\ nTodo = 0 /\ m_result = NoResult
        BY Zenon DEF QueueInv, Finished, InRound
    <2>2. \A t \in Threads : vChecks[t] = <<>>
        BY Zenon, <2>1, Facts, NothingTodo DEF QueueInv
    <2> QED  BY Zenon, <2>1, <2>2 DEF FinishedWhenReleased
<1> QED  BY <1>1, QueueInvariant, PTL
=============================================================================
