------------------------ MODULE ValidationSignalsDelivery ------------------------
(***************************************************************************)
(* Proofs about ValidationSignals, for any number of threads and entries:  *)
(* a subscriber handles the events in order and once (DeliveredInOrder),   *)
(* the counts of the list are exact (CountsExact), and a subscriber is     *)
(* left alone once its owner has synced (QuietAfterSync).                  *)
(***************************************************************************)
EXTENDS ValidationSignalsProofs

\* Nobody's function is queued twice or left behind when its caller goes on
\* (SyncWithValidationInterfaceQueue, validationinterface.cpp:149).
LEMMA SyncKept ==
    ASSUME Inv1, Inv1', SyncInv, [Next]_vars
    PROVE  SyncInv'
<1> USE ThreeClients, EventKinds
<1>0. TaskInv /\ PlacesInv /\ StepsInv
  BY Zenon DEF Inv1
<1>1. ASSUME UNCHANGED <<Calls, promise, inserted>>,
             \A c \in Clients : step'[c] = "wait" <=> step[c] = "wait",
             step'[validator] = "direct" => step[validator] = "direct"
      PROVE  SyncInv'
  <2>1. Index' = Index /\ \A e : (Runs(e)' <=> Runs(e)) /\ (Queued(e)' <=> Queued(e))
    BY Zenon, <1>1 DEF Calls, Runs, Queued, Index
  <2>2. m_callbacks_pending' = m_callbacks_pending /\ promise' = promise /\ inserted' = inserted
    BY Zenon, <1>1 DEF Calls
  <2> QED BY <1>1, <2>1, <2>2 DEF SyncInv
<1>2. CASE Quiet
  <2>1. /\ \A c \in Clients : step'[c] = "wait" <=> step[c] = "wait"
        /\ step'[validator] = "direct" => step[validator] = "direct"
    BY Zenon, <1>2 DEF Quiet, Marked
  <2> QED BY Zenon, <1>1, <1>2, <2>1 DEF Quiet
<1>3. ASSUME NEW a \in Actors, Begins(a), UNCHANGED signals
      PROVE  SyncInv'
  <2> DEFINE head == m_callbacks_pending[1]
  <2>1. /\ head \in Events /\ 1 \in Index
        /\ \A e : e # NoEvent => (Runs(e)' <=> e = head) /\ ~Runs(e)
        /\ \A i \in Index' : /\ i + 1 \in Index /\ i \in Nat /\ i >= 1
                             /\ m_callbacks_pending'[i] = m_callbacks_pending[i + 1]
        /\ \A i \in Index : i # 1 => i - 1 \in Index' /\ i \in Nat /\ i > 1
    BY Zenon, <1>0, <1>3, BeginFacts
  <2>2. promise' = promise /\ inserted' = inserted /\ step' = step
    BY Zenon, <1>3 DEF signals
  <2>3. \A e : Queued(e) <=> e = head \/ Queued(e)'
    <3>1. \A e : Queued(e)' => Queued(e)
      BY <2>1 DEF Queued
    <3>2. ASSUME NEW e, Queued(e), e # head PROVE Queued(e)'
      <4>1. PICK i \in Index : m_callbacks_pending[i] = e
        BY Zenon, <3>2 DEF Queued
      <4>2. i # 1 /\ i - 1 \in Index' /\ i \in Nat
        BY Zenon, <2>1, <3>2, <4>1
      <4>3. m_callbacks_pending'[i - 1] = m_callbacks_pending[(i - 1) + 1] /\ (i - 1) + 1 = i
        BY <2>1, <4>2
      <4> QED BY Zenon, <4>1, <4>2, <4>3 DEF Queued
    <3>3. Queued(head)
      BY Zenon, <2>1 DEF Queued
    <3> QED BY Zenon, <3>1, <3>2, <3>3
  <2>4. ASSUME NEW c \in Clients
        PROVE  /\ promise[c] \/ Runs(Sync(c))' \/ Queued(Sync(c))' => step[c] = "wait"
               /\ promise[c] => ~Runs(Sync(c))' /\ ~Queued(Sync(c))'
               /\ Runs(Sync(c))' => ~Queued(Sync(c))'
               /\ \A i, j \in Index' :
                    m_callbacks_pending'[i] = Sync(c) /\ m_callbacks_pending'[j] = Sync(c) => i = j
    <3>1. \A i, j \in Index : m_callbacks_pending[i] = Sync(c) /\ m_callbacks_pending[j] = Sync(c) => i = j
      BY Zenon DEF SyncInv
    <3>2. \A i, j \in Index' : m_callbacks_pending'[i] = Sync(c) /\ m_callbacks_pending'[j] = Sync(c) => i = j
      BY <2>1, <3>1
    <3>3. Sync(c) = head => ~Queued(Sync(c))'
      <4>1. SUFFICES ASSUME Sync(c) = head, NEW i \in Index', m_callbacks_pending'[i] = Sync(c)
                     PROVE  FALSE
        BY Zenon DEF Queued
      <4>2. i + 1 = 1 /\ i >= 1 /\ i \in Nat
        BY <2>1, <3>1, <4>1
      <4> QED BY <4>2
    <3> HIDE DEF head
    <3>4. Sync(c) # NoEvent
      BY Zenon
    <3> QED BY Zenon, <2>1, <2>3, <3>2, <3>3, <3>4 DEF SyncInv
  <2>5. ASSUME step[validator] = "direct"
        PROVE  inserted \in BlockNumbers /\ (Runs(Block(inserted))' \/ Queued(Block(inserted))')
    <3>0. PICK e : e = Block(inserted)
      BY Zenon
    <3>1. inserted \in BlockNumbers /\ (Runs(e) \/ Queued(e)) /\ e # NoEvent
      BY Zenon, <2>5, <3>0 DEF SyncInv
    <3>2. Block(inserted)' = e
      BY Zenon, <2>2, <3>0 DEF Block
    <3>3. (Runs(e)' <=> e = head) /\ ~Runs(e) /\ (Queued(e) <=> e = head \/ Queued(e)')
      BY Zenon, <2>1, <2>3, <3>1
    <3>4. callback'[a] = head
      BY Zenon, <1>0, <1>3, BeginFacts
    <3> QED BY Zenon, <2>2, <3>1, <3>2, <3>3, <3>4 DEF Runs, Queued
  <2> QED BY Zenon, <2>2, <2>4, <2>5 DEF SyncInv
<1>4. ASSUME NEW a \in Actors, SyncCallback(a)
      PROVE  SyncInv'
  <2>1. /\ CallbackReturns(a) /\ callback[a].type = "sync" /\ UNCHANGED <<step, inserted>>
        /\ promise' = [promise EXCEPT ![callback[a].caller] = TRUE]
    BY Zenon, <1>4 DEF SyncCallback
  <2>2. /\ m_callbacks_pending' = m_callbacks_pending /\ callback[a] \in Events
        /\ \A e : e # NoEvent => ~Runs(e)' /\ (Runs(e) <=> e = callback[a])
    BY Zenon, <1>0, <2>1, ReturnFacts
  <2>3. PICK d \in Clients : callback[a] = Sync(d)
    BY Zenon, <2>1, <2>2
  <2>4. Index' = Index /\ \A e : Queued(e)' <=> Queued(e)
    BY Zenon, <2>2 DEF Queued, Index
  <2>5. promise' = [promise EXCEPT ![d] = TRUE] /\ promise \in [Clients -> BOOLEAN]
    BY Zenon, <1>0, <2>1, <2>3 DEF StepsInv
  <2>6. \A c \in Clients : Sync(c) # NoEvent /\ (Runs(Sync(c)) <=> c = d) /\ ~Runs(Sync(c))'
    BY <2>2, <2>3
  <2>7. \A c \in Clients : promise'[c] <=> promise[c] \/ c = d
    BY <2>5, Zenon
  <2>8. ASSUME step[validator] = "direct"
        PROVE  inserted \in BlockNumbers /\ Queued(Block(inserted))'
    <3>1. inserted \in BlockNumbers /\ (Runs(Block(inserted)) \/ Queued(Block(inserted)))
      BY Zenon, <2>8 DEF SyncInv
    <3>2. ~Runs(Block(inserted))
      BY <2>2, <2>3, <3>1
    <3> QED BY Zenon, <2>1, <2>4, <3>1, <3>2 DEF Queued, Index
  <2> QED BY <2>1, <2>2, <2>4, <2>6, <2>7, <2>8 DEF SyncInv
<1>5. ASSUME NEW a \in Actors, BlockBegin(a) \/ BlockHandled(a)
      PROVE  SyncInv'
  <2>1. UNCHANGED <<step, promise, inserted>> /\ (CallbackReturns(a) \/ UNCHANGED taskVars)
    BY Zenon, <1>5 DEF BlockBegin, BlockHandled
  <2>2. CASE UNCHANGED taskVars
    BY Zenon, <1>1, <2>1, <2>2 DEF taskVars, runner, Calls
  <2>3. CASE CallbackReturns(a)
    <3>1. m_callbacks_pending' = m_callbacks_pending /\ \A e : e # NoEvent => ~Runs(e)'
      BY Zenon, <1>0, <2>3, ReturnFacts
    <3>2. step[validator] # "direct"
      BY Zenon, <1>5, <2>3, DirectBlocks DEF CallbackReturns, taskVars, Goto, Inv1, TaskInv, TaskTypeOK
    <3>3. Index' = Index /\ \A e : Queued(e)' <=> Queued(e)
      BY Zenon, <3>1 DEF Queued, Index
    <3> QED BY <2>1, <3>1, <3>2, <3>3 DEF SyncInv
  <2> QED BY Zenon, <2>1, <2>2, <2>3
<1>6. ASSUME NEW c \in {validator, owner}, SyncInsert(c)
      PROVE  SyncInv'
  <2>1. /\ InsertCallback(c, Sync(c)) /\ step[c] = "sync" /\ step' = [step EXCEPT ![c] = "wait"]
        /\ UNCHANGED <<promise, inserted>> /\ c \in Clients /\ Sync(c) \in Events
    BY Zenon, <1>6 DEF SyncInsert, At, Step
  <2>2. /\ \A f : Runs(f)' <=> Runs(f)
        /\ \A f : Queued(f)' <=> Queued(f) \/ f = Sync(c)
        /\ \A i \in Index : i \in Index' /\ m_callbacks_pending'[i] = m_callbacks_pending[i]
        /\ \A i \in Index' : i \in Index \/ i = Len(m_callbacks_pending) + 1
        /\ m_callbacks_pending'[Len(m_callbacks_pending) + 1] = Sync(c)
    BY Zenon, <1>0, <2>1, InsertFacts
  <2>3. ~promise[c] /\ ~Runs(Sync(c)) /\ ~Queued(Sync(c))
    BY Zenon, <2>1 DEF SyncInv
  <2>4. \A d \in Clients : step'[d] = IF d = c THEN "wait" ELSE step[d]
    BY Zenon, <1>0, <2>1 DEF StepsInv
  <2>5. ASSUME NEW d \in Clients, NEW i \in Index', NEW j \in Index',
               m_callbacks_pending'[i] = Sync(d), m_callbacks_pending'[j] = Sync(d)
        PROVE  i = j
    <3>1. CASE d = c
      BY Zenon, <2>2, <2>3, <2>5, <3>1 DEF Queued
    <3>2. CASE d # c
      BY <2>2, <2>5, <3>2 DEF SyncInv
    <3> QED BY Zenon, <3>1, <3>2
  <2> QED BY <2>1, <2>2, <2>3, <2>4, <2>5 DEF SyncInv
<1>7. ASSUME NEW c \in {validator, owner}, NEW place \in {"lock", "unregistered"}, SyncReturn(c, place)
      PROVE  SyncInv'
  <2>1. /\ promise[c] /\ promise' = [promise EXCEPT ![c] = FALSE] /\ step[c] = "wait" /\ c \in Clients
        /\ step' = [step EXCEPT ![c] = place] /\ UNCHANGED <<taskVars, inserted>>
    BY Zenon, <1>7 DEF SyncReturn, At, Step
  <2>2. m_callbacks_pending' = m_callbacks_pending /\ callback' = callback /\ inserted' = inserted
    BY Zenon, <2>1 DEF taskVars, runner
  <2>3. Index' = Index /\ \A e : (Runs(e)' <=> Runs(e)) /\ (Queued(e)' <=> Queued(e))
    BY Zenon, <2>2 DEF Runs, Queued, Index
  <2>4. /\ \A d \in Clients : step'[d] = IF d = c THEN place ELSE step[d]
        /\ \A d \in Clients : promise'[d] <=> promise[d] /\ d # c
    <3>1. step \in [Clients -> Steps] /\ promise \in [Clients -> BOOLEAN]
      BY Zenon, <1>0 DEF StepsInv
    <3>2. \A d \in Clients : promise'[d] <=> promise[d] /\ d # c
      BY <2>1, <3>1, Zenon
    <3> QED BY Zenon, <2>1, <3>1, <3>2
  <2>5. ~Runs(Sync(c)) /\ ~Queued(Sync(c))
    BY Zenon, <2>1 DEF SyncInv
  <2>6. place # "direct" /\ place # "wait"
    BY Zenon
  <2> QED BY <2>2, <2>3, <2>4, <2>5, <2>6 DEF SyncInv
<1>8. ASSUME NEW c \in {validator, main}, NEW place \in {"direct", "flushed", "again"},
             InsertBlock(c, place) \/ (FlushAgain /\ c = main /\ place = "again")
      PROVE  SyncInv'
  <2>1. /\ InsertCallback(c, Block(inserted + 1)) /\ step[c] \in {"insert", "drained"}
        /\ step' = [step EXCEPT ![c] = place] /\ promise' = promise /\ inserted' = inserted + 1
        /\ inserted + 1 \in BlockNumbers /\ c \in Clients
    BY <1>0, <1>8, SignalsAssumption DEF InsertBlock, FlushAgain, At, Step, StepsInv, BlockNumbers
  <2>2. /\ \A f : Runs(f)' <=> Runs(f)
        /\ \A f : Queued(f)' <=> Queued(f) \/ f = Block(inserted + 1)
        /\ \A i \in Index : i \in Index' /\ m_callbacks_pending'[i] = m_callbacks_pending[i]
        /\ \A i \in Index' : i \in Index \/ i = Len(m_callbacks_pending) + 1
        /\ m_callbacks_pending'[Len(m_callbacks_pending) + 1] = Block(inserted + 1)
    BY <1>0, <2>1, InsertFacts
  <2>3. \A d \in Clients : step'[d] = "wait" <=> step[d] = "wait"
    BY Zenon, <1>0, <2>1 DEF StepsInv
  <2>4. inserted' \in BlockNumbers /\ Queued(Block(inserted))'
    BY Zenon, <2>1, <2>2 DEF Queued
  <2> QED BY <2>1, <2>2, <2>3, <2>4 DEF SyncInv
<1>9. CASE DirectSignal
  BY <1>0, <1>1, <1>9 DEF DirectSignal, At, Step, taskVars, runner, Calls, StepsInv
<1>10. CASE RegisterTemporary \/ UnregisterTemporary
  BY <1>0, <1>1, <1>10
     DEF RegisterTemporary, UnregisterTemporary, At, Step, taskVars, runner, Calls, StepsInv
<1>11. CASE RegisterPermanent \/ UnregisterAllValidationInterfaces
  BY <1>0, <1>1, <1>11
     DEF RegisterPermanent, UnregisterAllValidationInterfaces, At, Step, taskVars, runner, Calls, StepsInv
<1> QED
  BY Zenon, <1>0, <1>2, <1>3, <1>4, <1>5, <1>6, <1>7, <1>8, <1>9, <1>10, <1>11, QuietSteps

\* The owner's function is running or has run.
Synced == step[owner] = "unregistered" \/ promise[owner] \/ Runs(Sync(owner))

OnTemporary(a) == iterator[a] # NoEntry /\ subscriber[iterator[a]] = Temporary

BlockRuns == \E a \in Actors, n \in BlockNumbers : callback[a] = Block(n)

BlockAhead ==
    \E i \in Index, n \in BlockNumbers :
        /\ m_callbacks_pending[i] = Block(n)
        /\ \A j \in Index : j <= i => m_callbacks_pending[j] # Sync(owner)

\* Once the owner's function runs no entry of the temporary subscriber is left.  As
\* long as it does not, and the validator's direct signal is at such an entry, which
\* keeps it in the list for others to find, there is an event the function waits for.
QuietInv ==
    /\ Synced => \A e \in m_list : subscriber[e] # Temporary
    /\ step[owner] \in {"sync", "wait"} /\ ~Synced /\ OnTemporary(validator)
         => BlockRuns \/ BlockAhead

\* The wait of an owner that has unregistered its subscriber covers every callback
\* that could still find its entry (UnregisterValidationInterface and
\* SyncWithValidationInterfaceQueue).
LEMMA QuietKept ==
    ASSUME Inv1, Inv1', SyncInv, QuietInv, [Next]_vars
    PROVE  QuietInv'
<1> USE ThreeClients, EventKinds
<1>0. TaskInv /\ PlacesInv /\ StepsInv /\ ListInv /\ SubscribersInv
  BY Zenon DEF Inv1
<1>1. ASSUME UNCHANGED <<list, iterator>>, step'[owner] = step[owner], Synced' <=> Synced,
             BlockRuns => BlockRuns', BlockAhead => BlockAhead'
      PROVE  QuietInv'
  BY Zenon, <1>1 DEF QuietInv, OnTemporary, list
<1>2. CASE Quiet
  BY <1>1, <1>2 DEF Quiet, Calls, Synced, Runs, BlockRuns, BlockAhead, Index
<1>3. ASSUME NEW a \in Actors, Begins(a), UNCHANGED signals
      PROVE  QuietInv'
  <2>1. /\ m_callbacks_pending[1] \in Events /\ 1 \in Index
        /\ \A e : e # NoEvent => (Runs(e)' <=> e = m_callbacks_pending[1]) /\ ~Runs(e)
        /\ callback'[a] = m_callbacks_pending[1]
        /\ \A i \in Index' : /\ i + 1 \in Index /\ i \in Nat /\ i >= 1
                             /\ m_callbacks_pending'[i] = m_callbacks_pending[i + 1]
        /\ \A i \in Index : i # 1 => i - 1 \in Index' /\ i \in Nat /\ i > 1
    BY Zenon, <1>0, <1>3, BeginFacts
  <2>2. /\ promise' = promise /\ step' = step /\ iterator' = iterator
        /\ m_list' = m_list /\ subscriber' = subscriber
    BY Zenon, <1>3 DEF signals, list
  <2>3. \A b \in Actors : callback[b] = NoEvent
    BY Zenon, <1>3 DEF Begins
  <2>4. ~Runs(Sync(owner)) /\ ~BlockRuns
    BY Zenon, <2>3 DEF Runs, BlockRuns
  <2>5. CASE m_callbacks_pending[1] = Sync(owner) /\ ~Synced
    <3>1. step[owner] = "wait"
      BY Zenon, <2>1, <2>5 DEF SyncInv, Queued
    <3>2. ~BlockAhead
      <4>1. \A i \in Index : 1 <= i
        BY DEF Index
      <4> QED BY Zenon, <2>1, <2>5, <4>1 DEF BlockAhead
    <3>3. ASSUME NEW e \in m_list, subscriber[e] = Temporary PROVE FALSE
      <4>1. m_map[Temporary] = NoEntry /\ Temporary \in Subscribers /\ e \in Entries
        BY Zenon, <1>0, <3>1, <3>3, InList DEF SubscribersInv, Subscribers
      <4>2. e # NoEntry
        BY <4>1, SignalsAssumption DEF Entries, NoEntry
      <4>3. PICK b \in Actors : iterator[b] = e
        BY Zenon, <1>0, <3>3, <4>1, <4>2, InList
      <4>4. b = validator
        BY Zenon, <1>0, <2>3, <4>2, <4>3 DEF SubscribersInv
      <4> QED BY Zenon, <2>4, <2>5, <3>1, <3>2, <3>3, <4>2, <4>3, <4>4 DEF QuietInv, OnTemporary
    <3>4. Synced'
      BY Zenon, <2>1, <2>5 DEF Synced
    <3> QED BY Zenon, <2>2, <3>3, <3>4 DEF QuietInv
  <2>6. CASE m_callbacks_pending[1] # Sync(owner) \/ Synced
    <3>1. Synced' <=> Synced
      BY Zenon, <2>1, <2>2, <2>4, <2>6, <1>0 DEF Synced, SyncInv, Queued
    <3>2. BlockAhead => BlockRuns' \/ BlockAhead'
      <4>1. SUFFICES ASSUME NEW i \in Index, NEW n \in BlockNumbers, m_callbacks_pending[i] = Block(n),
                            \A j \in Index : j <= i => m_callbacks_pending[j] # Sync(owner)
                     PROVE  BlockRuns' \/ BlockAhead'
        BY Zenon DEF BlockAhead
      <4>2. CASE i = 1
        BY <2>1, <4>1, <4>2 DEF BlockRuns, BlockNumbers
      <4>3. CASE i # 1
        <5>1. i - 1 \in Index' /\ i \in Nat /\ (i - 1) + 1 = i
          BY <2>1, <4>3
        <5>2. m_callbacks_pending'[i - 1] = Block(n)
          BY Zenon, <2>1, <4>1, <5>1
        <5>3. \A j \in Index' : j <= i - 1 => m_callbacks_pending'[j] # Sync(owner)
          BY <2>1, <4>1, <5>1
        <5> QED BY Zenon, <5>1, <5>2, <5>3 DEF BlockAhead, BlockNumbers
      <4> QED BY Zenon, <4>2, <4>3
    <3> QED BY Zenon, <2>2, <2>4, <3>1, <3>2 DEF QuietInv, OnTemporary
  <2> QED BY Zenon, <2>5, <2>6
<1>4. ASSUME NEW a \in Actors, SyncCallback(a)
      PROVE  QuietInv'
  <2>1. /\ CallbackReturns(a) /\ callback[a].type = "sync" /\ UNCHANGED <<step, list, iterator>>
        /\ promise' = [promise EXCEPT ![callback[a].caller] = TRUE]
    BY Zenon, <1>4 DEF SyncCallback
  <2>2. /\ m_callbacks_pending' = m_callbacks_pending /\ callback[a] \in Events
        /\ \A e : e # NoEvent => ~Runs(e)' /\ (Runs(e) <=> e = callback[a])
    BY Zenon, <1>0, <2>1, ReturnFacts
  <2>3. PICK d \in Clients : callback[a] = Sync(d)
    BY Zenon, <2>1, <2>2
  <2>4. promise'[owner] <=> promise[owner] \/ d = owner
    <3>1. promise' = [promise EXCEPT ![d] = TRUE] /\ promise \in [Clients -> BOOLEAN]
      BY Zenon, <1>0, <2>1, <2>3 DEF StepsInv
    <3> QED BY <3>1, Zenon
  <2>5. Runs(Sync(owner)) <=> d = owner
    BY <2>2, <2>3
  <2>6. Synced' <=> Synced
    BY Zenon, <2>1, <2>2, <2>4, <2>5 DEF Synced
  <2>7. ~BlockRuns
    <3>1. \A n \in BlockNumbers : ~Runs(Block(n))
      BY <2>2, <2>3
    <3> QED BY Zenon, <3>1 DEF BlockRuns, Runs
  <2>8. BlockAhead => BlockAhead'
    BY Zenon, <2>2 DEF BlockAhead, Index
  <2> QED BY Zenon, <1>1, <2>1, <2>6, <2>7, <2>8
<1>5. ASSUME NEW a \in Actors, BlockBegin(a) \/ BlockHandled(a)
      PROVE  QuietInv'
  <2>1. /\ UNCHANGED <<step, promise>> /\ callback[a].type = "block" /\ pc[a] = "callback"
        /\ CallbackReturns(a) \/ UNCHANGED taskVars
        /\ IterateBegin(a) \/ IterateNext(a)
    BY Zenon, <1>5 DEF BlockBegin, BlockHandled
  <2>2. PICK n \in BlockNumbers : callback[a] = Block(n)
    BY <1>0, <2>1, CallbackFacts DEF PlacesInv
  <2>3. /\ iterator' = [iterator EXCEPT ![a] = iterator'[a]] /\ subscriber' = subscriber
        /\ m_list' \subseteq m_list
    BY Zenon, <1>0, <2>1, IterateFacts
  <2>4. ~Runs(Sync(owner)) /\ ~Runs(Sync(owner))'
    <3>1. \A b \in Actors : callback[b] # NoEvent => b = a
      BY Zenon, <1>0, <2>2, CallbackFacts
    <3>2. ~Runs(Sync(owner))
      BY <2>2, <3>1 DEF Runs
    <3>3. ASSUME UNCHANGED taskVars PROVE ~Runs(Sync(owner))'
      BY Zenon, <3>2, <3>3 DEF taskVars, runner, Runs
    <3>4. ASSUME CallbackReturns(a) PROVE ~Runs(Sync(owner))'
      BY Zenon, <1>0, <3>4, ReturnFacts
    <3>5. ~Runs(Sync(owner))'
      BY Zenon, <2>1, <3>3, <3>4
    <3> QED BY Zenon, <3>2, <3>5
  <2>5. Synced' <=> Synced
    BY Zenon, <2>1, <2>4 DEF Synced
  <2>6. ASSUME OnTemporary(validator)' PROVE BlockRuns'
    <3>1. a # validator
      BY Zenon, <1>0, <2>2, CallbackFacts
    <3>2. iterator[validator] # NoEntry
      BY Zenon, <1>0, <2>3, <2>6, <3>1 DEF OnTemporary, ListInv, ListTypeOK
    <3>3. step[validator] = "direct"
      BY <1>0, <2>2, <3>1, <3>2, CallbackFacts DEF SubscribersInv
    <3>4. UNCHANGED taskVars
      BY Zenon, <1>5, <3>3, DirectBlocks
    <3> QED BY Zenon, <2>2, <3>4 DEF BlockRuns, taskVars, runner
  <2> QED BY Zenon, <2>1, <2>3, <2>5, <2>6 DEF QuietInv
<1>6. ASSUME NEW c \in Clients, NEW e \in Events, InsertCallback(c, e), UNCHANGED <<list, iterator, promise>>,
             e # Sync(owner) \/ ~Queued(Sync(owner)),
             \/ step'[owner] = step[owner]
             \/ step[owner] = "sync" /\ step'[owner] = "wait"
      PROVE  QuietInv'
  <2>1. /\ callback' = callback /\ \A f : Runs(f)' <=> Runs(f)
        /\ Len(m_callbacks_pending) \in Nat
        /\ \A i \in Index : i \in Index' /\ m_callbacks_pending'[i] = m_callbacks_pending[i]
        /\ \A i \in Index' : i \in Index \/ i = Len(m_callbacks_pending) + 1
    BY Zenon, <1>0, <1>6, InsertFacts
  <2>2. Synced' <=> Synced
    BY Zenon, <1>6, <2>1 DEF Synced
  <2>3. BlockRuns => BlockRuns'
    BY Zenon, <2>1 DEF BlockRuns
  <2>4. BlockAhead => BlockAhead'
    <3>1. SUFFICES ASSUME NEW i \in Index, NEW n \in BlockNumbers, m_callbacks_pending[i] = Block(n),
                          \A j \in Index : j <= i => m_callbacks_pending[j] # Sync(owner)
                   PROVE  BlockAhead'
      BY Zenon DEF BlockAhead
    <3>2. \A j \in Index' : j <= i => j \in Index
      BY <2>1 DEF Index
    <3> QED BY <2>1, <3>1, <3>2 DEF BlockAhead, BlockNumbers
  <2> QED BY Zenon, <1>6, <2>2, <2>3, <2>4 DEF QuietInv, OnTemporary, list
<1>7. CASE SyncInsert(validator) \/ SyncInsert(owner)
  <2>1. ASSUME NEW c \in {validator, owner}, SyncInsert(c) PROVE QuietInv'
    <3>1. /\ InsertCallback(c, Sync(c)) /\ UNCHANGED <<list, iterator, promise>> /\ Sync(c) \in Events
          /\ c \in Clients /\ step[c] = "sync" /\ step' = [step EXCEPT ![c] = "wait"]
      BY Zenon, <2>1 DEF SyncInsert, At, Step
    <3>2. Sync(c) # Sync(owner) \/ ~Queued(Sync(owner))
      BY Zenon, <3>1 DEF SyncInv
    <3>3. \/ step'[owner] = step[owner]
          \/ step[owner] = "sync" /\ step'[owner] = "wait"
      BY Zenon, <1>0, <3>1 DEF StepsInv
    <3> QED BY Zenon, <1>6, <3>1, <3>2, <3>3
  <2> QED BY Zenon, <1>7, <2>1
<1>8. CASE InsertBlock(validator, "direct") \/ InsertBlock(main, "flushed") \/ FlushAgain
  <2>1. ASSUME NEW c \in {validator, main}, NEW place,
               InsertBlock(c, place) \/ (FlushAgain /\ c = main /\ place = "again")
        PROVE  QuietInv'
    <3>1. /\ InsertCallback(c, Block(inserted + 1)) /\ UNCHANGED <<list, iterator, promise>>
          /\ c \in Clients /\ step' = [step EXCEPT ![c] = place]
      BY Zenon, <2>1 DEF InsertBlock, FlushAgain, Step
    <3>2. Block(inserted + 1) \in Events /\ Block(inserted + 1) # Sync(owner)
      <4>1. inserted + 1 \in BlockNumbers
        BY <1>0, <2>1, SignalsAssumption DEF InsertBlock, FlushAgain, StepsInv, BlockNumbers
      <4> QED BY Zenon, <4>1
    <3>3. step'[owner] = step[owner]
      BY Zenon, <1>0, <3>1 DEF StepsInv
    <3> QED BY Zenon, <1>6, <3>1, <3>2, <3>3
  <2> QED BY Zenon, <1>8, <2>1
<1>9. CASE SyncReturn(validator, "lock")
  <2>1. /\ promise'[owner] = promise[owner] /\ step'[owner] = step[owner]
        /\ UNCHANGED <<taskVars, list, iterator>>
    BY Zenon, <1>0, <1>9 DEF SyncReturn, Step, StepsInv
  <2> QED BY <1>1, <2>1 DEF taskVars, runner, Synced, Runs, BlockRuns, BlockAhead, Index
<1>10. CASE SyncReturn(owner, "unregistered")
  <2>1. promise[owner] /\ step'[owner] = "unregistered" /\ UNCHANGED list
    BY Zenon, <1>0, <1>10 DEF SyncReturn, Step, StepsInv
  <2> QED BY Zenon, <2>1 DEF QuietInv, Synced, list
<1>11. CASE DirectSignal
  <2>1. /\ IterateBegin(validator) \/ IterateNext(validator)
        /\ UNCHANGED <<taskVars, promise>> /\ step'[owner] = step[owner]
    BY Zenon, <1>0, <1>11 DEF DirectSignal, Step, StepsInv
  <2>2. /\ subscriber' = subscriber /\ m_list' \subseteq m_list
        /\ iterator'[validator] # NoEntry => iterator'[validator] \in m_list
    BY Zenon, <1>0, <2>1, IterateFacts
  <2>3. (Synced' <=> Synced) /\ (BlockRuns' <=> BlockRuns) /\ (BlockAhead' <=> BlockAhead)
    BY <2>1 DEF Synced, Runs, BlockRuns, BlockAhead, Index, taskVars, runner
  <2>4. ASSUME step[owner] \in {"sync", "wait"}, ~Synced, OnTemporary(validator)'
        PROVE  BlockRuns \/ BlockAhead
    <3> DEFINE e == iterator'[validator]
    <3>1. e \in m_list /\ subscriber[e] = Temporary /\ e # NoEntry
      BY Zenon, <2>2, <2>4 DEF OnTemporary
    <3>2. m_map[Temporary] = NoEntry
      BY Zenon, <1>0, <2>4 DEF SubscribersInv
    <3>3. PICK b \in Actors : iterator[b] = e
      BY Zenon, <1>0, <3>1, <3>2, InList
    <3>4. CASE b = validator
      BY Zenon, <2>4, <3>1, <3>3, <3>4 DEF QuietInv, OnTemporary
    <3>5. CASE b # validator
      BY Zenon, <1>0, <3>1, <3>3, <3>5 DEF SubscribersInv, BlockRuns
    <3> QED BY Zenon, <3>4, <3>5
  <2> QED BY Zenon, <2>1, <2>2, <2>3, <2>4 DEF QuietInv
<1>12. CASE RegisterTemporary
  <2>1. step[owner] = "unregistered" /\ step'[owner] = "registered" /\ UNCHANGED <<taskVars, promise>>
    BY Zenon, <1>0, <1>12 DEF RegisterTemporary, At, Step, StepsInv
  <2>2. ~Synced'
    BY Zenon, <2>1 DEF SyncInv, Synced, Runs, taskVars, runner
  <2> QED BY Zenon, <2>1, <2>2 DEF QuietInv
<1>13. CASE UnregisterTemporary
  <2>1. /\ step[owner] = "registered" /\ step'[owner] = "sync"
        /\ UNCHANGED <<taskVars, promise, iterator, subscriber>>
    BY Zenon, <1>0, <1>13 DEF UnregisterTemporary, UnregisterAll, At, Step, StepsInv
  <2>2. ~Synced'
    BY Zenon, <2>1 DEF SyncInv, Synced, Runs, taskVars, runner
  <2>3. ASSUME OnTemporary(validator) PROVE BlockRuns \/ BlockAhead
    <3>1. callback[validator] = NoEvent
      BY Zenon, <1>0, CallbackFacts
    <3>2. step[validator] = "direct"
      BY Zenon, <1>0, <2>3, <3>1 DEF SubscribersInv, OnTemporary
    <3>3. inserted \in BlockNumbers /\ (Runs(Block(inserted)) \/ Queued(Block(inserted)))
      BY Zenon, <3>2 DEF SyncInv
    <3>4. ~Queued(Sync(owner))
      BY Zenon, <2>1 DEF SyncInv
    <3> QED BY Zenon, <3>3, <3>4 DEF Runs, Queued, BlockRuns, BlockAhead
  <2>4. (BlockRuns' <=> BlockRuns) /\ (BlockAhead' <=> BlockAhead)
        /\ (OnTemporary(validator)' <=> OnTemporary(validator))
    BY Zenon, <2>1 DEF BlockRuns, BlockAhead, Index, OnTemporary, taskVars, runner
  <2> QED BY Zenon, <2>2, <2>3, <2>4 DEF QuietInv
<1>14. CASE RegisterPermanent
  <2>1. /\ step[main] = "starting" /\ Register(Permanent) /\ step'[owner] = step[owner]
        /\ UNCHANGED <<taskVars, promise>>
    BY Zenon, <1>0, <1>14 DEF RegisterPermanent, At, Step, StepsInv
  <2>2. PICK e \in Entries : /\ m_list' = m_list \cup {e}
                             /\ subscriber' = [subscriber EXCEPT ![e] = Permanent]
    BY Zenon, <1>0, <2>1 DEF Register, SubscribersInv
  <2>3. \A f \in m_list' : \/ f \in m_list /\ subscriber'[f] = subscriber[f]
                         \/ subscriber'[f] = Permanent
    BY <1>0, <2>2 DEF ListInv, ListTypeOK
  <2>4. (Synced' <=> Synced) /\ step[owner] \notin {"sync", "wait"}
    BY Zenon, <1>0, <2>1 DEF Synced, Runs, StepsInv, taskVars, runner
  <2> QED BY Zenon, <2>1, <2>3, <2>4, SignalsAssumption DEF QuietInv
<1>15. CASE UnregisterAllValidationInterfaces
  <2>1. /\ step[main] = "again" /\ step'[owner] = step[owner] /\ m_list' \subseteq m_list
        /\ subscriber' = subscriber
    BY Zenon, <1>0, <1>15 DEF UnregisterAllValidationInterfaces, UnregisterAll, At, Step, StepsInv
  <2>2. step[owner] = "unregistered"
    BY Zenon, <1>0, <2>1 DEF StepsInv, Late, Joined
  <2> QED BY Zenon, <2>1, <2>2 DEF QuietInv, Synced
<1> QED
  BY Zenon, <1>0, <1>2, <1>3, <1>4, <1>5, <1>7, <1>8, <1>9, <1>10, <1>11, <1>12, <1>13, <1>14, <1>15, QuietSteps
-----------------------------------------------------------------------------
(* What the subscribers are given.                                         *)

Handled == Len(delivered[Permanent])

\* The events in the queue are those not yet begun, in order.
QueueOrder ==
    /\ delivered \in [Subscribers -> Seq(Nat)] /\ Handled <= inserted
    /\ \A i \in Index, n \in BlockNumbers : m_callbacks_pending[i] = Block(n) =>
         /\ Handled < n /\ n <= inserted
         /\ \A a \in Actors, m \in BlockNumbers : callback[a] = Block(m) => m < n
    /\ \A i, j \in Index, m, n \in BlockNumbers :
         i < j /\ m_callbacks_pending[i] = Block(m) /\ m_callbacks_pending[j] = Block(n) => m < n
    /\ \A n \in 1..inserted : n <= Handled \/ Runs(Block(n)) \/ Queued(Block(n))

\* The event being executed is the one after those the permanent subscriber has
\* handled, until its entry has been passed.
ExecInv ==
    /\ \A i \in 1..Handled : delivered[Permanent][i] = i
    /\ \A a \in Actors, n \in BlockNumbers : callback[a] = Block(n) =>
         /\ step[main] \notin {"starting", "again", "done"} /\ n <= inserted
         /\ n = IF iterator[a] <= m_map[Permanent] THEN Handled + 1 ELSE Handled
    /\ step[main] \in {"again", "done"} => Handled = inserted - 1

\* The numbers of the entries.
LEMMA EntryNumbers ==
    ASSUME Inv1
    PROVE  /\ NoEntry = 0 /\ \A e \in Entries : e \in Nat /\ e > 0
           /\ \A a \in Actors : iterator[a] \in Nat /\ (iterator[a] # NoEntry => iterator[a] \in Entries)
           /\ \A s \in Subscribers : m_map[s] \in Nat
           /\ Permanent \in Subscribers /\ Temporary \in Subscribers /\ Permanent # Temporary
           /\ \A s \in Subscribers : s = Permanent \/ s = Temporary
<1>1. NoEntry = 0 /\ \A e \in Entries : e \in Nat /\ e > 0
  BY SignalsAssumption DEF NoEntry, Entries
<1>2. /\ iterator \in [Actors -> Entries \cup {NoEntry}]
      /\ m_map \in [Subscribers -> Entries \cup {NoEntry}]
  BY Zenon DEF Inv1, ListInv, ListTypeOK
<1> QED BY <1>1, <1>2, SignalsAssumption DEF Subscribers

\* A block callback is not done before it has reached the permanent subscriber.
LEMMA BeginStays ==
    ASSUME Inv1, ExecInv, NEW a \in Actors, NEW n \in BlockNumbers, callback[a] = Block(n),
           BlockBegin(a)
    PROVE  /\ UNCHANGED <<taskVars, step, promise, inserted, delivered>>
           /\ m_list' = m_list /\ m_map' = m_map /\ subscriber' = subscriber
           /\ iterator'[a] # NoEntry /\ iterator[a] = NoEntry
           /\ iterator' = [iterator EXCEPT ![a] = iterator'[a]]
           /\ iterator'[a] <= m_map[Permanent] /\ m_map[Permanent] # NoEntry
<1>1. m_map[Permanent] \in m_list /\ m_map[Permanent] # NoEntry
  BY Zenon, InList, EntryNumbers DEF Inv1, ExecInv, SubscribersInv
<1>2. iterator[a] = NoEntry /\ IterateBegin(a)
  BY Zenon DEF BlockBegin, IterateBegin
<1>3. m_map[Permanent] > NoEntry /\ m_map[Permanent] \in Nat
  BY <1>1, EntryNumbers
<1>4. /\ iterator'[a] = NoEntry => \A f \in m_list : f <= iterator[a]
      /\ iterator'[a] # NoEntry => \A f \in m_list : f > iterator[a] => iterator'[a] <= f
      /\ iterator' = [iterator EXCEPT ![a] = iterator'[a]]
  BY Zenon, <1>2, IterateFacts DEF Inv1
<1>5. iterator'[a] # NoEntry
  BY <1>1, <1>2, <1>3, <1>4, EntryNumbers
<1>6. iterator'[a] <= m_map[Permanent]
  BY Zenon, <1>1, <1>2, <1>3, <1>4, <1>5
<1> QED BY Zenon, <1>1, <1>2, <1>4, <1>5, <1>6 DEF BlockBegin, IterateBegin

\* What handling an event at one entry does.
LEMMA HandleFacts ==
    ASSUME Inv1, ExecInv, NEW a \in Actors, NEW n \in BlockNumbers, callback[a] = Block(n),
           BlockHandled(a)
    PROVE  /\ iterator[a] \in m_list /\ m_map[Permanent] \in m_list
           /\ iterator[a] \in Nat /\ m_map[Permanent] \in Nat /\ iterator[a] # NoEntry
           /\ subscriber[iterator[a]] = IF iterator[a] = m_map[Permanent] THEN Permanent ELSE Temporary
           /\ delivered' = [delivered EXCEPT ![subscriber[iterator[a]]] = Append(@, n)]
           /\ iterator' = [iterator EXCEPT ![a] = iterator'[a]]
           /\ iterator'[a] = NoEntry => m_map[Permanent] <= iterator[a] /\ CallbackReturns(a)
           /\ iterator'[a] # NoEntry => /\ UNCHANGED taskVars /\ iterator'[a] > iterator[a]
                                        /\ iterator'[a] \in m_list /\ iterator'[a] \in Nat
                                        /\ iterator'[a] <= m_map[Permanent] <=> iterator[a] < m_map[Permanent]
           /\ m_map' = m_map /\ subscriber' = subscriber /\ m_list' \subseteq m_list
           /\ UNCHANGED <<step, promise, inserted>>
<1>1. /\ iterator[a] # NoEntry /\ IterateNext(a) /\ UNCHANGED <<step, promise, inserted>>
      /\ delivered' = [delivered EXCEPT ![subscriber[iterator[a]]] = Append(@, n)]
      /\ IF iterator'[a] = NoEntry THEN CallbackReturns(a) ELSE UNCHANGED taskVars
  BY Zenon, EventKinds DEF BlockHandled, IterateNext
<1>2. step[main] \notin {"starting", "again", "done"} /\ m_map[Permanent] # NoEntry
  BY Zenon DEF ExecInv, Inv1, SubscribersInv
<1>3. /\ iterator[a] \in m_list /\ m_map[Permanent] \in m_list /\ subscriber[m_map[Permanent]] = Permanent
      /\ iterator[a] \in Entries /\ subscriber[iterator[a]] \in Subscribers
  BY Zenon, <1>1, <1>2, InList, EntryNumbers DEF Inv1
<1>4. subscriber[iterator[a]] = IF iterator[a] = m_map[Permanent] THEN Permanent ELSE Temporary
  BY Zenon, <1>2, <1>3, EntryNumbers DEF Inv1, SubscribersInv
<1>5. /\ iterator' = [iterator EXCEPT ![a] = iterator'[a]]
      /\ m_map' = m_map /\ subscriber' = subscriber /\ m_list' \subseteq m_list
      /\ iterator'[a] # NoEntry => /\ iterator'[a] \in m_list /\ iterator'[a] > iterator[a]
                                   /\ \A f \in m_list : f > iterator[a] => iterator'[a] <= f
      /\ iterator'[a] = NoEntry => \A f \in m_list : f <= iterator[a]
  BY Zenon, <1>1, IterateFacts DEF Inv1
<1>6. iterator[a] \in Nat /\ m_map[Permanent] \in Nat /\ (iterator'[a] \in m_list => iterator'[a] \in Nat)
  BY Zenon, EntryNumbers DEF Inv1, ListInv, ListTypeOK
<1>7. iterator'[a] # NoEntry => (iterator'[a] <= m_map[Permanent] <=> iterator[a] < m_map[Permanent])
  BY <1>3, <1>5, <1>6
<1> QED BY Zenon, <1>1, <1>3, <1>4, <1>5, <1>6, <1>7

\* What handling an event at one entry appends.
LEMMA HandleAppends ==
    ASSUME Inv1, QueueOrder, ExecInv, NEW a \in Actors, NEW n \in BlockNumbers, callback[a] = Block(n),
           BlockHandled(a)
    PROVE  /\ delivered' \in [Subscribers -> Seq(Nat)] /\ Handled \in Nat /\ n \in Nat
           /\ IF iterator[a] = m_map[Permanent]
              THEN /\ Handled' = Handled + 1 /\ delivered'[Permanent][Handled + 1] = n
                   /\ \A i \in 1..Handled : delivered'[Permanent][i] = delivered[Permanent][i]
                   /\ delivered'[Temporary] = delivered[Temporary]
              ELSE /\ delivered'[Permanent] = delivered[Permanent] /\ Handled' = Handled
                   /\ delivered'[Temporary] = Append(delivered[Temporary], n)
<1>1. /\ delivered' = [delivered EXCEPT ![subscriber[iterator[a]]] = Append(@, n)]
      /\ subscriber[iterator[a]] = IF iterator[a] = m_map[Permanent] THEN Permanent ELSE Temporary
  BY Zenon, HandleFacts
<1>2. /\ delivered \in [Subscribers -> Seq(Nat)] /\ n \in Nat
      /\ Permanent \in Subscribers /\ Temporary \in Subscribers /\ Permanent # Temporary
  BY Zenon, EventKinds, EntryNumbers DEF QueueOrder
<1>3. \A s \in Subscribers : delivered[s] \in Seq(Nat) /\ Append(delivered[s], n) \in Seq(Nat)
  BY <1>2
<1>4. CASE iterator[a] = m_map[Permanent]
  <2>1. delivered' = [delivered EXCEPT ![Permanent] = Append(delivered[Permanent], n)]
    BY Zenon, <1>1, <1>4
  <2>2. delivered'[Permanent] = Append(delivered[Permanent], n) /\ delivered'[Temporary] = delivered[Temporary]
        /\ delivered' \in [Subscribers -> Seq(Nat)]
    BY Zenon, <1>2, <1>3, <2>1
  <2> QED BY <1>2, <1>3, <1>4, <2>2 DEF Handled
<1>5. CASE iterator[a] # m_map[Permanent]
  <2>1. delivered' = [delivered EXCEPT ![Temporary] = Append(delivered[Temporary], n)]
    BY Zenon, <1>1, <1>5
  <2>2. delivered'[Temporary] = Append(delivered[Temporary], n) /\ delivered'[Permanent] = delivered[Permanent]
        /\ delivered' \in [Subscribers -> Seq(Nat)]
    BY Zenon, <1>2, <1>3, <2>1
  <2> QED BY <1>2, <1>3, <1>5, <2>2 DEF Handled
<1> QED BY Zenon, <1>4, <1>5

\* Every event is begun in its turn, and the permanent subscriber handles each.
LEMMA OrderKept ==
    ASSUME Inv1, Inv1', QueueOrder, ExecInv, [Next]_vars
    PROVE  QueueOrder' /\ ExecInv'
<1> USE ThreeClients, EventKinds
<1>0. /\ TaskInv /\ PlacesInv /\ StepsInv /\ ListInv /\ SubscribersInv
      /\ Handled \in Nat /\ inserted \in Nat /\ \A n \in 1..inserted : n \in BlockNumbers
  <2>1. inserted \in 0 .. MaxBlocks + 2
    BY Zenon DEF Inv1, StepsInv
  <2> QED BY <2>1, EntryNumbers, SignalsAssumption DEF Inv1, QueueOrder, Handled, BlockNumbers
<1>1. ASSUME UNCHANGED <<Calls, inserted, delivered>>
      PROVE  QueueOrder'
  <2>1. Index' = Index /\ \A e : (Runs(e)' <=> Runs(e)) /\ (Queued(e)' <=> Queued(e))
    BY Zenon, <1>1 DEF Calls, Runs, Queued, Index
  <2>2. /\ m_callbacks_pending' = m_callbacks_pending /\ callback' = callback
        /\ inserted' = inserted /\ delivered' = delivered /\ Handled' = Handled
    BY Zenon, <1>1 DEF Calls, Handled
  <2> QED BY <2>1, <2>2 DEF QueueOrder
<1>2. ASSUME callback' = callback \/ (\A a \in Actors : callback'[a] = NoEvent),
             UNCHANGED <<inserted, delivered>>, UNCHANGED m_map \/ step'[main] = "starting" \/ ~BlockRuns,
             UNCHANGED iterator \/ (\A a \in Actors : callback[a] # NoEvent => iterator'[a] = iterator[a]),
             \A p \in {"starting", "again", "done"} : step'[main] = p => step[main] = p \/ ~BlockRuns,
             step'[main] \in {"again", "done"} => step[main] \in {"again", "done"}
      PROVE  ExecInv'
  <2>1. Handled' = Handled
    BY Zenon, <1>2 DEF Handled
  <2>2. ASSUME NEW a \in Actors, NEW n \in BlockNumbers, callback'[a] = Block(n)
        PROVE  /\ step'[main] \notin {"starting", "again", "done"} /\ n <= inserted'
               /\ n = IF iterator'[a] <= m_map'[Permanent] THEN Handled' + 1 ELSE Handled'
    <3>1. callback[a] = Block(n) /\ BlockRuns /\ callback[a] # NoEvent
      BY <1>2, <2>2 DEF BlockRuns
    <3>2. step[main] \notin {"starting", "again", "done"} /\ step'[main] \notin {"starting", "again", "done"}
      BY Zenon, <1>2, <3>1 DEF ExecInv
    <3>3. iterator'[a] = iterator[a] /\ m_map' = m_map
      BY Zenon, <1>2, <3>1, <3>2
    <3> QED BY Zenon, <1>2, <2>1, <3>1, <3>2, <3>3 DEF ExecInv
  <2> QED BY Zenon, <1>2, <2>1, <2>2 DEF ExecInv
<1>3. CASE Quiet
  <2>1. \A p \in {"starting", "again", "done"} : step'[main] = p => step[main] = p
    BY Zenon, <1>3 DEF Quiet, Marked
  <2>2. /\ callback' = callback /\ UNCHANGED <<Calls, inserted, delivered>> /\ UNCHANGED iterator
        /\ m_map' = m_map
    BY Zenon, <1>3 DEF Quiet, Calls, list
  <2> QED BY Zenon, <1>1, <1>2, <2>1, <2>2
<1>4. ASSUME NEW a \in Actors, Begins(a), UNCHANGED signals
      PROVE  QueueOrder' /\ ExecInv'
  <2> DEFINE head == m_callbacks_pending[1]
  <2>1. /\ head \in Events /\ 1 \in Index
        /\ \A e : e # NoEvent => (Runs(e)' <=> e = head) /\ ~Runs(e)
        /\ callback'[a] = head /\ \A b \in Actors : b # a => callback'[b] = NoEvent
        /\ \A i \in Index' : /\ i + 1 \in Index /\ i \in Nat /\ i >= 1
                             /\ m_callbacks_pending'[i] = m_callbacks_pending[i + 1]
        /\ \A i \in Index : i # 1 => i - 1 \in Index' /\ i \in Nat /\ i > 1
    BY Zenon, <1>0, <1>4, BeginFacts
  <2>2. UNCHANGED <<inserted, delivered, step, iterator, m_map>> /\ Handled' = Handled
    BY Zenon, <1>4 DEF signals, list, Handled
  <2>3. ASSUME NEW n \in BlockNumbers, head = Block(n)
        PROVE  n = Handled + 1 /\ n <= inserted
    <3>1. Handled < n /\ n <= inserted /\ n \in Nat
      BY Zenon, <2>1, <2>3 DEF QueueOrder
    <3>2. Handled + 1 \in BlockNumbers /\ Handled + 1 \in 1..inserted /\ ~(Handled + 1 <= Handled)
      BY <1>0, <3>1, SignalsAssumption DEF BlockNumbers
    <3>3. ~Runs(Block(Handled + 1))
      BY Zenon, <2>1, <3>2
    <3>4. PICK i \in Index : m_callbacks_pending[i] = Block(Handled + 1)
      BY Zenon, <3>2, <3>3 DEF QueueOrder, Queued
    <3>5. CASE i = 1
      BY Zenon, <2>3, <3>1, <3>4, <3>5
    <3>6. CASE i # 1
      <4>1. n < Handled + 1
        BY <2>1, <2>3, <3>2, <3>4, <3>6 DEF QueueOrder
      <4> QED BY <1>0, <3>1, <4>1
    <3> QED BY Zenon, <3>5, <3>6
  <2>4. \A e : Queued(e) => e = head \/ Queued(e)'
    <3>1. ASSUME NEW e, Queued(e), e # head PROVE Queued(e)'
      <4>1. PICK i \in Index : m_callbacks_pending[i] = e
        BY Zenon, <3>1 DEF Queued
      <4>2. i # 1 /\ i - 1 \in Index' /\ i \in Nat
        BY Zenon, <2>1, <3>1, <4>1
      <4>3. m_callbacks_pending'[i - 1] = m_callbacks_pending[(i - 1) + 1] /\ (i - 1) + 1 = i
        BY <2>1, <4>2
      <4> QED BY Zenon, <4>1, <4>2, <4>3 DEF Queued
    <3> QED BY Zenon, <3>1
  <2>5. QueueOrder'
    <3>1. ASSUME NEW i \in Index', NEW n \in BlockNumbers, m_callbacks_pending'[i] = Block(n)
          PROVE  /\ Handled < n /\ n <= inserted
                 /\ \A b \in Actors, m \in BlockNumbers : callback'[b] = Block(m) => m < n
      <4>1. i + 1 \in Index /\ m_callbacks_pending[i + 1] = Block(n) /\ 1 < i + 1
        BY <2>1, <3>1
      <4>2. \A b \in Actors, m \in BlockNumbers : callback'[b] = Block(m) => head = Block(m)
        BY Zenon, <2>1
      <4> QED BY <2>1, <4>1, <4>2 DEF QueueOrder
    <3>2. ASSUME NEW i \in Index', NEW j \in Index', NEW m \in BlockNumbers, NEW n \in BlockNumbers,
                 i < j, m_callbacks_pending'[i] = Block(m), m_callbacks_pending'[j] = Block(n)
          PROVE  m < n
      <4>1. /\ i + 1 \in Index /\ m_callbacks_pending[i + 1] = Block(m)
            /\ j + 1 \in Index /\ m_callbacks_pending[j + 1] = Block(n) /\ i + 1 < j + 1
        BY <2>1, <3>2
      <4> QED BY <4>1 DEF QueueOrder
    <3>3. ASSUME NEW n \in 1..inserted
          PROVE  n <= Handled \/ Runs(Block(n))' \/ Queued(Block(n))'
      <4>1. n <= Handled \/ Runs(Block(n)) \/ Queued(Block(n))
        BY Zenon DEF QueueOrder
      <4>2. CASE Runs(Block(n))
        BY <2>1, <4>2, <1>4 DEF Runs, Begins
      <4>3. CASE Queued(Block(n))
        BY Zenon, <2>1, <2>4, <4>3 DEF Runs
      <4> QED BY Zenon, <4>1, <4>2, <4>3
    <3> QED BY Zenon, <2>2, <3>1, <3>2, <3>3 DEF QueueOrder
  <2>6. ExecInv'
    <3>1. ASSUME NEW b \in Actors, NEW n \in BlockNumbers, callback'[b] = Block(n)
          PROVE  /\ step[main] \notin {"starting", "again", "done"} /\ n <= inserted
                 /\ n = IF iterator[b] <= m_map[Permanent] THEN Handled + 1 ELSE Handled
      <4>1. b = a /\ head = Block(n) /\ n = Handled + 1 /\ n <= inserted
        BY Zenon, <2>1, <2>3, <3>1
      <4>2. a # validator
        BY <3>1, <4>1 DEF Inv1, PlacesInv, Outside
      <4>3. iterator[a] = NoEntry
        BY <1>0, <1>4, <4>2 DEF Begins, SubscribersInv
      <4>4. step[main] \notin {"starting", "again", "done"}
        <5>1. step[main] # "starting"
          BY <1>0, <4>1 DEF StepsInv
        <5>2. pc'[a] = "callback"
          BY Zenon, <3>1, <4>1 DEF Inv1, PlacesInv
        <5>3. step'[main] \notin {"again", "done"}
          BY Zenon, <5>2 DEF Inv1, PlacesInv, Joined, Outside, Actors
        <5> QED BY Zenon, <2>2, <5>1, <5>3
      <4>5. iterator[a] <= m_map[Permanent]
        BY <4>3, EntryNumbers
      <4> QED BY Zenon, <4>1, <4>4, <4>5
    <3> QED BY Zenon, <2>2, <3>1 DEF ExecInv
  <2> QED BY Zenon, <2>5, <2>6
<1>5. ASSUME NEW a \in Actors, SyncCallback(a)
      PROVE  QueueOrder' /\ ExecInv'
  <2>1. /\ CallbackReturns(a) /\ callback[a].type = "sync"
        /\ UNCHANGED <<step, m_map, iterator, inserted, delivered>>
    BY Zenon, <1>5 DEF SyncCallback, list
  <2>2. /\ m_callbacks_pending' = m_callbacks_pending /\ callback[a] \in Events
        /\ \A b \in Actors : callback'[b] = NoEvent
        /\ \A e : e # NoEvent => ~Runs(e)' /\ (Runs(e) <=> e = callback[a])
    BY Zenon, <1>0, <2>1, ReturnFacts
  <2>3. PICK d \in Clients : callback[a] = Sync(d)
    BY Zenon, <2>1, <2>2
  <2>4. Handled' = Handled /\ Index' = Index /\ \A e : Queued(e)' <=> Queued(e)
    BY Zenon, <2>1, <2>2 DEF Handled, Queued, Index
  <2>5. \A n \in 1..inserted : n <= Handled \/ Queued(Block(n))
    <3>1. ASSUME NEW n \in 1..inserted, Runs(Block(n)) PROVE n <= Handled
      BY <1>0, <2>2, <2>3, <3>1
    <3> QED BY Zenon, <3>1 DEF QueueOrder
  <2>6. QueueOrder'
    <3>1. /\ \A i \in Index', n \in BlockNumbers : m_callbacks_pending'[i] = Block(n) =>
               /\ Handled' < n /\ n <= inserted'
               /\ \A b \in Actors, m \in BlockNumbers : callback'[b] = Block(m) => m < n
          /\ \A n \in 1..inserted' : n <= Handled' \/ Queued(Block(n))'
      BY Zenon, <2>1, <2>2, <2>4, <2>5 DEF QueueOrder
    <3>2. \A i, j \in Index', m, n \in BlockNumbers :
            i < j /\ m_callbacks_pending'[i] = Block(m) /\ m_callbacks_pending'[j] = Block(n) => m < n
      BY <2>2, <2>4 DEF QueueOrder
    <3> QED BY Zenon, <2>1, <2>4, <3>1, <3>2 DEF QueueOrder
  <2>7. ExecInv'
    BY Zenon, <1>2, <2>1, <2>2
  <2> QED BY Zenon, <2>6, <2>7
<1>6. ASSUME NEW a \in Actors, BlockBegin(a)
      PROVE  QueueOrder' /\ ExecInv'
  <2>1. PICK n \in BlockNumbers : callback[a] = Block(n)
    BY Zenon, <1>0, <1>6, BlockOf
  <2>2. /\ UNCHANGED <<taskVars, step, inserted, delivered>> /\ m_map' = m_map
        /\ iterator' = [iterator EXCEPT ![a] = iterator'[a]] /\ iterator[a] = NoEntry
        /\ iterator'[a] <= m_map[Permanent]
    BY Zenon, <1>6, <2>1, BeginStays
  <2>3. callback' = callback /\ UNCHANGED Calls /\ Handled' = Handled
    BY Zenon, <2>2 DEF taskVars, runner, Calls, Handled
  <2>4. ASSUME NEW b \in Actors, NEW m \in BlockNumbers, callback[b] = Block(m)
        PROVE  b = a
    BY Zenon, <1>0, <2>1, <2>4, CallbackFacts
  <2>5. iterator[a] <= m_map[Permanent]
    BY <2>2, EntryNumbers
  <2>6. ExecInv'
    BY Zenon, <2>1, <2>2, <2>3, <2>4, <2>5 DEF ExecInv
  <2> QED BY Zenon, <1>1, <2>2, <2>3, <2>6
<1>7. ASSUME NEW a \in Actors, BlockHandled(a)
      PROVE  QueueOrder' /\ ExecInv'
  <2>1. PICK n \in BlockNumbers : callback[a] = Block(n)
    BY Zenon, <1>0, <1>7, BlockOf
  <2> DEFINE e == iterator[a]
             p == m_map[Permanent]
  <2>2. /\ e \in Nat /\ p \in Nat
        /\ iterator' = [iterator EXCEPT ![a] = iterator'[a]]
        /\ iterator'[a] = NoEntry => p <= e /\ CallbackReturns(a)
        /\ iterator'[a] # NoEntry => UNCHANGED taskVars /\ (iterator'[a] <= p <=> e < p)
        /\ m_map' = m_map /\ UNCHANGED <<step, inserted>>
    BY Zenon, <1>7, <2>1, HandleFacts
  <2>3. /\ delivered' \in [Subscribers -> Seq(Nat)] /\ n \in Nat
        /\ IF e = p
           THEN /\ Handled' = Handled + 1 /\ delivered'[Permanent][Handled + 1] = n
                /\ \A i \in 1..Handled : delivered'[Permanent][i] = delivered[Permanent][i]
           ELSE delivered'[Permanent] = delivered[Permanent] /\ Handled' = Handled
    BY Zenon, <1>7, <2>1, HandleAppends
  <2>4. /\ step[main] \notin {"starting", "again", "done"} /\ n <= inserted
        /\ n = IF e <= p THEN Handled + 1 ELSE Handled
    BY Zenon, <2>1 DEF ExecInv
  <2>5. \A b \in Actors : b # a => callback[b] = NoEvent
    BY Zenon, <1>0, <2>1, CallbackFacts
  <2>6. /\ m_callbacks_pending' = m_callbacks_pending
        /\ IF iterator'[a] = NoEntry THEN \A b \in Actors : callback'[b] = NoEvent
           ELSE callback' = callback
    BY Zenon, <1>0, <2>2, ReturnFacts DEF taskVars, runner
  <2>7. Handled' \in Nat /\ Handled' <= n /\ Handled <= Handled' /\ n <= Handled' + 1
        /\ (iterator'[a] = NoEntry => n = Handled')
    BY <1>0, <2>2, <2>3, <2>4
  <2>8. Index' = Index /\ \A f : Queued(f)' <=> Queued(f)
    BY Zenon, <2>6 DEF Queued, Index
  <2>9. QueueOrder'
    <3>1. ASSUME NEW i \in Index, NEW m \in BlockNumbers, m_callbacks_pending[i] = Block(m)
          PROVE  /\ Handled' < m /\ m <= inserted
                 /\ \A b \in Actors, k \in BlockNumbers : callback'[b] = Block(k) => k < m
      <4>1. n < m /\ m <= inserted /\ m \in Nat
        BY Zenon, <2>1, <3>1 DEF QueueOrder
      <4>2. \A b \in Actors, k \in BlockNumbers : callback'[b] = Block(k) => k = n
        BY <2>1, <2>5, <2>6
      <4> QED BY <2>3, <2>7, <4>1, <4>2
    <3>2. ASSUME NEW k \in 1..inserted
          PROVE  k <= Handled' \/ Runs(Block(k))' \/ Queued(Block(k))'
      <4>1. k <= Handled \/ Runs(Block(k)) \/ Queued(Block(k))
        BY Zenon DEF QueueOrder
      <4>2. CASE Runs(Block(k)) /\ iterator'[a] # NoEntry
        BY Zenon, <2>6, <4>2 DEF Runs
      <4>3. CASE Runs(Block(k)) /\ iterator'[a] = NoEntry
        <5>1. k \in BlockNumbers
          BY Zenon, <1>0
        <5>2. k = n
          BY Zenon, <2>1, <2>5, <4>3, <5>1 DEF Runs
        <5> QED BY Zenon, <2>7, <4>3, <5>2
      <4> QED BY <1>0, <2>7, <2>8, <4>1, <4>2, <4>3
    <3>3. Handled' <= inserted
      BY <1>0, <2>3, <2>4, <2>7
    <3>4. \A i \in Index', m \in BlockNumbers : m_callbacks_pending'[i] = Block(m) =>
            /\ Handled' < m /\ m <= inserted
            /\ \A b \in Actors, k \in BlockNumbers : callback'[b] = Block(k) => k < m
      BY Zenon, <2>6, <2>8, <3>1
    <3>5. \A i, j \in Index', k, m \in BlockNumbers :
            i < j /\ m_callbacks_pending'[i] = Block(k) /\ m_callbacks_pending'[j] = Block(m) => k < m
      BY <2>6, <2>8 DEF QueueOrder
    <3> QED BY Zenon, <2>2, <2>3, <3>2, <3>3, <3>4, <3>5 DEF QueueOrder
  <2>10. ExecInv'
    <3>1. \A i \in 1..Handled' : delivered'[Permanent][i] = i
      <4>1. \A i \in 1..Handled : delivered[Permanent][i] = i
        BY Zenon DEF ExecInv
      <4>2. CASE e = p
        <5>1. n = Handled + 1 /\ Handled' = Handled + 1
          BY <1>0, <2>2, <2>3, <2>4, <4>2
        <5>2. \A i \in 1..(Handled + 1) : i \in 1..Handled \/ i = Handled + 1
          BY <1>0
        <5> HIDE DEF e, p
        <5> QED BY Zenon, <2>3, <4>1, <4>2, <5>1, <5>2
      <4>3. CASE e # p
        BY Zenon, <2>3, <4>1, <4>3
      <4> QED BY Zenon, <4>2, <4>3
    <3>2. ASSUME NEW b \in Actors, NEW m \in BlockNumbers, callback'[b] = Block(m)
          PROVE  m = n /\ b = a /\ iterator'[a] # NoEntry
      BY Zenon, <2>1, <2>5, <2>6, <3>2
    <3>3. iterator'[a] # NoEntry => n = IF iterator'[a] <= p THEN Handled' + 1 ELSE Handled'
      BY <1>0, <2>2, <2>3, <2>4
    <3> QED BY <2>2, <2>4, <3>1, <3>2, <3>3 DEF ExecInv
  <2> QED BY Zenon, <2>9, <2>10
<1>8. ASSUME NEW c \in Clients, NEW e \in Events, InsertCallback(c, e), UNCHANGED delivered,
             \/ inserted' = inserted /\ \E d : e = Sync(d)
             \/ inserted' = inserted + 1 /\ e = Block(inserted + 1)
      PROVE  QueueOrder'
  <2>1. /\ callback' = callback /\ \A f : Runs(f)' <=> Runs(f)
        /\ \A f : Queued(f)' <=> Queued(f) \/ f = e
        /\ Len(m_callbacks_pending) \in Nat
        /\ m_callbacks_pending'[Len(m_callbacks_pending) + 1] = e
        /\ \A i \in Index : i \in Index' /\ m_callbacks_pending'[i] = m_callbacks_pending[i]
        /\ \A i \in Index' : i \in Index \/ i = Len(m_callbacks_pending) + 1
    BY Zenon, <1>0, <1>8, InsertFacts
  <2>2. Handled' = Handled /\ inserted <= inserted' /\ inserted' \in Nat
    BY <1>0, <1>8 DEF Handled
  <2>3. \A n \in BlockNumbers : e = Block(n) => n = inserted + 1 /\ inserted' = inserted + 1
    BY Zenon, <1>8
  <2>4. \A a \in Actors, m \in BlockNumbers : callback[a] = Block(m) => m <= inserted
    BY Zenon DEF ExecInv
  <2>5. ASSUME NEW i \in Index', NEW n \in BlockNumbers, m_callbacks_pending'[i] = Block(n)
        PROVE  /\ Handled < n /\ n <= inserted'
               /\ \A a \in Actors, m \in BlockNumbers : callback[a] = Block(m) => m < n
    <3>1. CASE i \in Index
      <4>1. /\ Handled < n /\ n <= inserted
            /\ \A a \in Actors, m \in BlockNumbers : callback[a] = Block(m) => m < n
        BY Zenon, <2>1, <2>5, <3>1 DEF QueueOrder
      <4> QED BY <1>0, <2>2, <4>1
    <3>2. CASE i = Len(m_callbacks_pending) + 1
      <4>1. n = inserted + 1 /\ inserted' = inserted + 1 /\ Handled <= inserted
        BY Zenon, <2>1, <2>3, <2>5, <3>2 DEF QueueOrder
      <4> QED BY <1>0, <2>4, <4>1
    <3> QED BY Zenon, <2>1, <3>1, <3>2
  <2>6. ASSUME NEW i \in Index', NEW j \in Index', NEW m \in BlockNumbers, NEW n \in BlockNumbers,
               i < j, m_callbacks_pending'[i] = Block(m), m_callbacks_pending'[j] = Block(n)
        PROVE  m < n
    <3>1. i \in Index
      BY <2>1, <2>6 DEF Index
    <3>2. CASE j \in Index
      BY <2>1, <2>6, <3>1, <3>2 DEF QueueOrder
    <3>3. CASE j = Len(m_callbacks_pending) + 1
      <4>1. n = inserted + 1 /\ m <= inserted
        BY Zenon, <2>1, <2>3, <2>6, <3>1, <3>3 DEF QueueOrder
      <4> QED BY <1>0, <4>1
    <3> QED BY Zenon, <2>1, <3>2, <3>3
  <2>7. ASSUME NEW n \in 1..inserted'
        PROVE  n <= Handled \/ Runs(Block(n))' \/ Queued(Block(n))'
    <3>1. n \in 1..inserted \/ (n = inserted + 1 /\ e = Block(n))
      BY <1>0, <1>8
    <3>2. CASE n \in 1..inserted
      BY Zenon, <2>1, <3>2 DEF QueueOrder
    <3> QED BY Zenon, <2>1, <3>1, <3>2
  <2>8. delivered' \in [Subscribers -> Seq(Nat)] /\ Handled' <= inserted'
    BY <1>0, <1>8, <2>2 DEF QueueOrder
  <2> QED BY Zenon, <1>8, <2>1, <2>2, <2>5, <2>6, <2>7, <2>8 DEF QueueOrder
<1>9. ASSUME NEW c \in {validator, owner}, SyncInsert(c)
      PROVE  QueueOrder' /\ ExecInv'
  <2>1. /\ InsertCallback(c, Sync(c)) /\ c \in Clients /\ Sync(c) \in Events
        /\ UNCHANGED <<delivered, inserted, iterator, m_map>> /\ callback' = callback
        /\ step'[main] = step[main]
    BY Zenon, <1>0, <1>9 DEF SyncInsert, InsertCallback, Step, StepsInv, list
  <2>2. QueueOrder'
    BY Zenon, <1>8, <2>1
  <2>3. ExecInv'
    BY Zenon, <1>2, <2>1
  <2> QED BY Zenon, <2>2, <2>3
<1>10. ASSUME NEW c \in {validator, main}, NEW place \in {"direct", "flushed"}, InsertBlock(c, place)
       PROVE  QueueOrder' /\ ExecInv'
  <2>1. /\ InsertCallback(c, Block(inserted + 1)) /\ c \in Clients /\ inserted' = inserted + 1
        /\ UNCHANGED <<delivered, iterator, m_map>> /\ callback' = callback
        /\ step' = [step EXCEPT ![c] = place] /\ step[c] = "insert"
    BY Zenon, <1>10 DEF InsertBlock, InsertCallback, At, Step, list
  <2>2. inserted + 1 \in BlockNumbers
    BY <1>0, <1>10, SignalsAssumption DEF InsertBlock, BlockNumbers
  <2>3. QueueOrder'
    BY Zenon, <1>8, <2>1, <2>2
  <2>4. step'[main] \notin {"starting", "again", "done"}
    BY Zenon, <1>0, <2>1 DEF StepsInv, Late, Joined
  <2>5. ExecInv'
    BY <1>0, <2>1, <2>4 DEF ExecInv, Handled
  <2> QED BY Zenon, <2>3, <2>5
<1>11. CASE SyncReturn(validator, "lock") \/ SyncReturn(owner, "unregistered")
  <2>1. /\ UNCHANGED <<delivered, inserted, iterator, m_map, taskVars>>
        /\ step'[main] = step[main]
    BY Zenon, <1>0, <1>11 DEF SyncReturn, Step, StepsInv, list
  <2>2. callback' = callback /\ UNCHANGED Calls
    BY Zenon, <2>1 DEF taskVars, runner, Calls
  <2> QED BY Zenon, <1>1, <1>2, <2>1, <2>2
<1>12. CASE DirectSignal
  <2>1. /\ IterateBegin(validator) \/ IterateNext(validator)
        /\ UNCHANGED <<delivered, inserted, taskVars>> /\ step'[main] = step[main]
    BY Zenon, <1>0, <1>12 DEF DirectSignal, Step, StepsInv
  <2>2. iterator' = [iterator EXCEPT ![validator] = iterator'[validator]] /\ m_map' = m_map
    BY Zenon, <1>0, <2>1, IterateFacts
  <2>3. callback' = callback /\ UNCHANGED Calls
    BY Zenon, <2>1 DEF taskVars, runner, Calls
  <2>4. \A a \in Actors : callback[a] # NoEvent => iterator'[a] = iterator[a]
    BY Zenon, <1>0, <2>2, CallbackFacts DEF ListInv, ListTypeOK
  <2> QED BY Zenon, <1>1, <1>2, <2>1, <2>2, <2>3, <2>4
<1>13. CASE RegisterTemporary \/ UnregisterTemporary
  <2>1. /\ UNCHANGED <<delivered, inserted, iterator, taskVars>> /\ step'[main] = step[main]
    BY Zenon, <1>0, <1>13 DEF RegisterTemporary, UnregisterTemporary, Step, StepsInv
  <2>2. m_map'[Permanent] = m_map[Permanent]
    <3>1. m_map \in [Subscribers -> Entries \cup {NoEntry}]
      BY Zenon, <1>0 DEF ListInv, ListTypeOK
    <3>2. CASE RegisterTemporary
      BY Zenon, <3>1, <3>2, EntryNumbers DEF RegisterTemporary, Register, list
    <3>3. CASE UnregisterTemporary
      BY Zenon, <3>1, <3>3, EntryNumbers DEF UnregisterTemporary, UnregisterAll
    <3> QED BY Zenon, <1>13, <3>2, <3>3
  <2>3. callback' = callback /\ UNCHANGED Calls /\ Handled' = Handled
    BY Zenon, <2>1 DEF taskVars, runner, Calls, Handled
  <2>4. ExecInv'
    BY Zenon, <2>1, <2>2, <2>3 DEF ExecInv
  <2> QED BY Zenon, <1>1, <2>1, <2>3, <2>4
<1>14. CASE RegisterPermanent
  <2>1. /\ UNCHANGED <<delivered, inserted, iterator, taskVars>> /\ step[main] = "starting"
        /\ step'[main] = "running"
    BY Zenon, <1>0, <1>14 DEF RegisterPermanent, At, Step, StepsInv
  <2>2. callback' = callback /\ UNCHANGED Calls
    BY Zenon, <2>1 DEF taskVars, runner, Calls
  <2>3. ~BlockRuns
    BY Zenon, <2>1 DEF BlockRuns, ExecInv
  <2> QED BY Zenon, <1>1, <1>2, <2>1, <2>2, <2>3
<1>15. CASE FlushAgain
  <2>1. /\ InsertCallback(main, Block(inserted + 1)) /\ inserted' = inserted + 1
        /\ UNCHANGED <<delivered, iterator>> /\ callback' = callback
        /\ step[main] = "drained" /\ pc[main] = "client" /\ m_callbacks_pending = <<>>
        /\ step'[main] = "again"
    BY Zenon, <1>0, <1>15 DEF FlushAgain, InsertCallback, At, Step, StepsInv
  <2>2. inserted + 1 \in BlockNumbers /\ Handled' = Handled
    BY <1>0, <1>15, <2>1, SignalsAssumption DEF FlushAgain, BlockNumbers, Handled
  <2>3. \A a \in Actors : callback[a] = NoEvent
    BY Zenon, <1>0, <2>1, CallbackFacts DEF PlacesInv, Joined, Actors
  <2>4. Handled = inserted
    <3>1. \A n \in 1..inserted : ~Runs(Block(n)) /\ ~Queued(Block(n))
      BY <1>0, <2>1, <2>3 DEF Runs, Queued, Index
    <3>2. Handled <= inserted /\ \A n \in 1..inserted : n <= Handled
      BY Zenon, <3>1 DEF QueueOrder
    <3> QED BY <1>0, <3>2
  <2>5. Handled' = inserted' - 1
    BY <1>0, <2>1, <2>2, <2>4
  <2>6. ExecInv'
    BY Zenon, <2>1, <2>2, <2>3, <2>5 DEF ExecInv
  <2> QED BY Zenon, <1>8, <2>1, <2>2, <2>6
<1>16. CASE UnregisterAllValidationInterfaces
  <2>1. /\ UNCHANGED <<delivered, inserted, iterator, taskVars>> /\ step[main] = "again"
        /\ step'[main] = "done"
    BY Zenon, <1>0, <1>16 DEF UnregisterAllValidationInterfaces, At, Step, StepsInv
  <2>2. callback' = callback /\ UNCHANGED Calls
    BY Zenon, <2>1 DEF taskVars, runner, Calls
  <2>3. ~BlockRuns
    BY Zenon, <2>1 DEF BlockRuns, ExecInv
  <2> QED BY Zenon, <1>1, <1>2, <2>1, <2>2, <2>3
<1> QED
  BY Zenon, <1>0, <1>3, <1>4, <1>5, <1>6, <1>7, <1>9, <1>10, <1>11, <1>12, <1>13, <1>14, <1>15, <1>16, QuietSteps

\* The callback of a may still come to an entry of the temporary subscriber.
MayReach(a) ==
    \/ Synced \/ iterator[a] = NoEntry
    \/ \E e \in m_list : subscriber[e] = Temporary /\ e >= iterator[a]

\* The temporary subscriber has handled events in order, none after the one being
\* executed, and not that one as long as the callback may still come to it.
TemporaryInv ==
    /\ \A i, j \in 1..Len(delivered[Temporary]) : i < j => delivered[Temporary][i] < delivered[Temporary][j]
    /\ \A i \in 1..Len(delivered[Temporary]) :
         \/ delivered[Temporary][i] <= Handled
         \/ \E a \in Actors, n \in BlockNumbers : callback[a] = Block(n) /\ delivered[Temporary][i] <= n
    /\ \A a \in Actors, n \in BlockNumbers : callback[a] = Block(n) /\ MayReach(a) =>
         \A i \in 1..Len(delivered[Temporary]) : delivered[Temporary][i] < n
    /\ \A e, f \in m_list : subscriber[e] = Temporary /\ subscriber[f] = Temporary => e = f

\* A subscriber that is unregistered and registered again does not handle an event
\* twice: it is registered again after the wait, when no callback that has passed its
\* old entry is left.
LEMMA TemporaryKept ==
    ASSUME Inv1, Inv1', SyncInv, QuietInv, QueueOrder, ExecInv, QueueOrder', TemporaryInv, [Next]_vars
    PROVE  TemporaryInv'
<1> USE ThreeClients, EventKinds
<1>0. /\ TaskInv /\ PlacesInv /\ StepsInv /\ ListInv /\ SubscribersInv
      /\ Handled \in Nat /\ delivered \in [Subscribers -> Seq(Nat)]
      /\ delivered[Temporary] \in Seq(Nat)
      /\ Len(delivered[Temporary]) \in Nat
      /\ \A i \in 1..Len(delivered[Temporary]) : delivered[Temporary][i] \in Nat
  <2>1. /\ TaskInv /\ PlacesInv /\ StepsInv /\ ListInv /\ SubscribersInv
        /\ delivered \in [Subscribers -> Seq(Nat)]
    BY Zenon DEF Inv1, QueueOrder
  <2>2. delivered[Temporary] \in Seq(Nat) /\ delivered[Permanent] \in Seq(Nat)
    BY Zenon, <2>1, EntryNumbers
  <2> QED BY <2>1, <2>2 DEF Handled
<1>1. ASSUME UNCHANGED <<callback, delivered>>,
             \A a \in Actors : callback[a] # NoEvent /\ MayReach(a)' => MayReach(a),
             \A f \in m_list' : subscriber'[f] = Temporary => f \in m_list /\ subscriber[f] = Temporary
      PROVE  TemporaryInv'
  <2>1. Handled' = Handled
    BY Zenon, <1>1 DEF Handled
  <2> QED BY Zenon, <1>1, <2>1 DEF TemporaryInv
<1>2. ASSUME UNCHANGED <<callback, delivered, iterator, list>>, Synced' => Synced
      PROVE  TemporaryInv'
  BY Zenon, <1>1, <1>2 DEF MayReach, list
<1>3. CASE Quiet
  <2>1. Synced' <=> Synced
    BY Zenon, <1>3 DEF Quiet, Calls, Synced, Runs
  <2> QED BY Zenon, <1>2, <1>3, <2>1 DEF Quiet, Calls
<1>4. ASSUME NEW a \in Actors, Begins(a), UNCHANGED signals
      PROVE  TemporaryInv'
  <2>1. /\ UNCHANGED <<delivered, list, iterator>> /\ m_list' = m_list /\ subscriber' = subscriber
        /\ Handled' = Handled /\ \A b \in Actors : callback[b] = NoEvent
    BY Zenon, <1>4 DEF signals, list, Handled, Begins
  <2>2. /\ 1 \in Index /\ callback'[a] = m_callbacks_pending[1]
        /\ \A b \in Actors : b # a => callback'[b] = NoEvent
    BY Zenon, <1>0, <1>4, BeginFacts
  <2>3. \A i \in 1..Len(delivered[Temporary]) : delivered[Temporary][i] <= Handled
    BY <2>1 DEF TemporaryInv
  <2>4. \A b \in Actors, n \in BlockNumbers : callback'[b] = Block(n) => Handled < n
    BY Zenon, <2>2 DEF QueueOrder
  <2>5. \A b \in Actors, n \in BlockNumbers : callback'[b] = Block(n) =>
          \A i \in 1..Len(delivered[Temporary]) : delivered[Temporary][i] < n
    <3>1. Handled \in Nat /\ \A i \in 1..Len(delivered[Temporary]) : delivered[Temporary][i] \in Nat
      BY Zenon, <1>0
    <3>2. \A n \in BlockNumbers : n \in Nat
      BY DEF BlockNumbers
    <3>3. \A i \in 1..Len(delivered[Temporary]), n \in BlockNumbers :
            Handled < n => delivered[Temporary][i] < n
      BY <2>3, <3>1, <3>2
    <3> QED BY Zenon, <2>4, <3>3
  <2> QED BY Zenon, <2>1, <2>3, <2>5 DEF TemporaryInv
<1>5. ASSUME NEW a \in Actors, SyncCallback(a)
      PROVE  TemporaryInv'
  <2>1. /\ CallbackReturns(a) /\ callback[a].type = "sync"
        /\ m_list' = m_list /\ subscriber' = subscriber /\ delivered' = delivered
    BY Zenon, <1>5 DEF SyncCallback, list
  <2>2. /\ callback[a] \in Events /\ \A b \in Actors : callback'[b] = NoEvent
        /\ \A e : e # NoEvent => (Runs(e) <=> e = callback[a])
    BY Zenon, <1>0, <2>1, ReturnFacts
  <2>3. \A b \in Actors, n \in BlockNumbers : callback[b] # Block(n)
    <3>1. \A n \in BlockNumbers : ~Runs(Block(n))
      BY Zenon, <2>1, <2>2
    <3> QED BY Zenon, <3>1 DEF Runs
  <2>4. Handled' = Handled /\ \A i \in 1..Len(delivered[Temporary]) : delivered[Temporary][i] <= Handled
    BY Zenon, <2>1, <2>3 DEF TemporaryInv, Handled
  <2> QED BY Zenon, <2>1, <2>2, <2>4 DEF TemporaryInv
<1>6. ASSUME NEW a \in Actors, BlockBegin(a)
      PROVE  TemporaryInv'
  <2>1. PICK n \in BlockNumbers : callback[a] = Block(n)
    BY Zenon, <1>0, <1>6, BlockOf
  <2>2. /\ UNCHANGED <<taskVars, delivered>> /\ m_list' = m_list /\ subscriber' = subscriber
        /\ iterator[a] = NoEntry
    BY Zenon, <1>6, <2>1, BeginStays
  <2>3. \A b \in Actors : callback[b] # NoEvent => b = a
    BY Zenon, <1>0, <2>1, CallbackFacts
  <2>4. MayReach(a)
    BY Zenon, <2>2 DEF MayReach
  <2>5. callback' = callback
    BY Zenon, <2>2 DEF taskVars, runner
  <2> QED BY Zenon, <1>1, <2>2, <2>3, <2>4, <2>5
<1>7. ASSUME NEW a \in Actors, BlockHandled(a)
      PROVE  TemporaryInv'
  <2>1. PICK n \in BlockNumbers : callback[a] = Block(n)
    BY Zenon, <1>0, <1>7, BlockOf
  <2> DEFINE e == iterator[a]
             p == m_map[Permanent]
             seen == delivered[Temporary]
  <2>2. /\ e \in m_list /\ e \in Nat /\ p \in Nat /\ e # NoEntry
        /\ subscriber[e] = IF e = p THEN Permanent ELSE Temporary
        /\ iterator'[a] = NoEntry => p <= e /\ CallbackReturns(a)
        /\ iterator'[a] # NoEntry => /\ UNCHANGED taskVars /\ iterator'[a] > e
                                     /\ iterator'[a] \in Nat
        /\ subscriber' = subscriber /\ m_list' \subseteq m_list
        /\ UNCHANGED <<step, promise>>
    BY Zenon, <1>7, <2>1, HandleFacts
  <2>3. /\ n \in Nat
        /\ IF e = p THEN Handled' = Handled + 1 /\ delivered'[Temporary] = seen
           ELSE Handled' = Handled /\ delivered'[Temporary] = Append(seen, n)
    BY Zenon, <1>7, <2>1, HandleAppends
  <2>4. n = IF e <= p THEN Handled + 1 ELSE Handled
    BY Zenon, <2>1 DEF ExecInv
  <2>5. \A b \in Actors : callback[b] # NoEvent => b = a
    BY Zenon, <1>0, <2>1, CallbackFacts
  <2>6. IF iterator'[a] = NoEntry THEN \A b \in Actors : callback'[b] = NoEvent
        ELSE callback' = callback
    BY Zenon, <1>0, <2>2, ReturnFacts DEF taskVars, runner
  <2>7. Synced' => Synced
    <3>1. ~Runs(Sync(owner))'
      BY <2>1, <2>5, <2>6 DEF Runs
    <3> QED BY Zenon, <2>2, <3>1 DEF Synced
  <2>8. \A f \in m_list : f \in Nat
    BY Zenon, <1>0, EntryNumbers DEF ListInv, ListTypeOK
  <2>9. \A i \in 1..Len(seen) : seen[i] <= Handled \/ seen[i] <= n
    <3>1. \A b \in Actors, k \in BlockNumbers : callback[b] = Block(k) => k = n
      BY Zenon, <2>1, <2>5
    <3> QED BY Zenon, <3>1 DEF TemporaryInv
  <2>10. Handled <= Handled' /\ Handled' \in Nat /\ (iterator'[a] = NoEntry => n = Handled')
    <3>1. /\ Handled \in Nat /\ e \in Nat /\ p \in Nat /\ (iterator'[a] = NoEntry => p <= e)
          /\ Handled' = IF e = p THEN Handled + 1 ELSE Handled
      BY Zenon, <1>0, <2>2, <2>3
    <3> HIDE DEF e, p
    <3> QED BY <2>4, <3>1
  <2>11. \A x, y \in m_list' : subscriber'[x] = Temporary /\ subscriber'[y] = Temporary => x = y
    BY Zenon, <2>2 DEF TemporaryInv
  <2>12. CASE e = p
    <3>1. delivered'[Temporary] = seen
      BY Zenon, <2>3, <2>12
    <3>2. iterator'[a] # NoEntry /\ MayReach(a)' => MayReach(a)
      <4>1. ASSUME iterator'[a] # NoEntry, NEW f \in m_list', f >= iterator'[a]
            PROVE  f \in m_list /\ f >= e
        <5>1. f \in m_list /\ f \in Nat /\ e \in Nat /\ iterator'[a] \in Nat /\ iterator'[a] > e
          BY Zenon, <2>2, <2>8, <4>1
        <5> HIDE DEF e
        <5> QED BY <4>1, <5>1
      <4> QED BY Zenon, <2>2, <2>7, <4>1 DEF MayReach
    <3>3. \A i \in 1..Len(seen) :
            \/ seen[i] <= Handled'
            \/ \E b \in Actors, m \in BlockNumbers : callback'[b] = Block(m) /\ seen[i] <= m
      <4>1. CASE iterator'[a] = NoEntry
        BY <1>0, <2>3, <2>9, <2>10, <4>1
      <4>2. CASE iterator'[a] # NoEntry
        <5>1. callback'[a] = Block(n)
          BY Zenon, <2>1, <2>6, <4>2
        <5> QED BY <1>0, <2>9, <2>10, <5>1
      <4> QED BY Zenon, <4>1, <4>2
    <3>4. \A b \in Actors, m \in BlockNumbers : callback'[b] = Block(m) /\ MayReach(b)' =>
            \A i \in 1..Len(seen) : seen[i] < m
      <4>1. SUFFICES ASSUME NEW b \in Actors, NEW m \in BlockNumbers, callback'[b] = Block(m), MayReach(b)'
                     PROVE  \A i \in 1..Len(seen) : seen[i] < m
        BY Zenon
      <4>2. b = a /\ iterator'[a] # NoEntry /\ m = n
        BY Zenon, <2>1, <2>5, <2>6, <4>1
      <4> QED BY Zenon, <2>1, <3>2, <4>1, <4>2 DEF TemporaryInv
    <3>5. \A i, j \in 1..Len(seen) : i < j => seen[i] < seen[j]
      BY Zenon DEF TemporaryInv
    <3> QED BY Zenon, <2>11, <3>1, <3>3, <3>4, <3>5 DEF TemporaryInv
  <2>13. CASE e # p
    <3>1. delivered'[Temporary] = Append(seen, n) /\ subscriber[e] = Temporary
      BY Zenon, <2>2, <2>3, <2>13
    <3>2. MayReach(a) /\ ~Synced
      BY <2>2, <3>1 DEF MayReach, QuietInv
    <3>3. \A i \in 1..Len(seen) : seen[i] < n
      BY Zenon, <2>1, <3>2 DEF TemporaryInv
    <3>4. /\ Len(Append(seen, n)) = Len(seen) + 1 /\ Append(seen, n)[Len(seen) + 1] = n
          /\ \A i \in 1..Len(seen) : Append(seen, n)[i] = seen[i]
      BY <1>0
    <3>5. \A i \in 1..(Len(seen) + 1) : i \in 1..Len(seen) \/ i = Len(seen) + 1
      BY <1>0
    <3> DEFINE now == Append(seen, n)
    <3>6. \A i \in 1..(Len(seen) + 1) : now[i] <= n
      BY <1>0, <2>3, <3>3, <3>4, <3>5
    <3>7. \A i, j \in 1..(Len(seen) + 1) : i < j => now[i] < now[j]
      <4>1. SUFFICES ASSUME NEW i \in 1..(Len(seen) + 1), NEW j \in 1..(Len(seen) + 1), i < j
                     PROVE  now[i] < now[j]
        BY Zenon
      <4>2. i \in 1..Len(seen)
        BY <1>0, <4>1
      <4>3. CASE j \in 1..Len(seen)
        BY Zenon, <3>4, <4>1, <4>2, <4>3 DEF TemporaryInv
      <4>4. CASE j = Len(seen) + 1
        BY Zenon, <3>3, <3>4, <4>2, <4>4
      <4> QED BY Zenon, <3>5, <4>3, <4>4
    <3>8. iterator'[a] # NoEntry => ~MayReach(a)'
      <4>1. SUFFICES ASSUME iterator'[a] # NoEntry, NEW f \in m_list', subscriber'[f] = Temporary,
                            f >= iterator'[a]
                     PROVE  FALSE
        BY Zenon, <2>7, <3>2 DEF MayReach
      <4>2. f = e
        BY Zenon, <2>2, <3>1, <4>1 DEF TemporaryInv
      <4> QED BY <2>2, <4>1, <4>2
    <3>9. \A b \in Actors, m \in BlockNumbers : callback'[b] = Block(m) => ~MayReach(b)'
      <4>1. SUFFICES ASSUME NEW b \in Actors, NEW m \in BlockNumbers, callback'[b] = Block(m)
                     PROVE  ~MayReach(b)'
        BY Zenon
      <4>2. b = a /\ iterator'[a] # NoEntry
        BY Zenon, <2>1, <2>5, <2>6, <4>1
      <4> QED BY Zenon, <3>8, <4>2
    <3>10. \A i \in 1..(Len(seen) + 1) :
            \/ now[i] <= Handled'
            \/ \E b \in Actors, m \in BlockNumbers : callback'[b] = Block(m) /\ now[i] <= m
      <4>1. CASE iterator'[a] = NoEntry
        BY Zenon, <2>10, <3>6, <4>1
      <4>2. CASE iterator'[a] # NoEntry
        <5>1. callback'[a] = Block(n)
          BY Zenon, <2>1, <2>6, <4>2
        <5> QED BY Zenon, <3>6, <5>1
      <4> QED BY Zenon, <4>1, <4>2
    <3>11. Len(now) = Len(seen) + 1 /\ delivered'[Temporary] = now
      BY Zenon, <3>1, <3>4
    <3> HIDE DEF now, seen, e, p
    <3> QED BY Zenon, <2>11, <3>7, <3>9, <3>10, <3>11 DEF TemporaryInv
  <2> QED BY Zenon, <2>12, <2>13
<1>8. ASSUME UNCHANGED <<promise, delivered, iterator, list, callback>>,
             step'[owner] = "unregistered" => Synced
      PROVE  TemporaryInv'
  <2>1. Synced' => Synced
    BY Zenon, <1>8 DEF Synced, Runs
  <2> QED BY Zenon, <1>2, <1>8, <2>1
<1>9. CASE SyncInsert(validator) \/ SyncInsert(owner)
  <2>1. /\ UNCHANGED <<promise, delivered, iterator, list>> /\ callback' = callback
        /\ step'[owner] = "unregistered" => step[owner] = "unregistered"
    BY Zenon, <1>0, <1>9 DEF SyncInsert, InsertCallback, Step, StepsInv
  <2> QED BY Zenon, <1>8, <2>1 DEF Synced
<1>10. CASE InsertBlock(validator, "direct") \/ InsertBlock(main, "flushed") \/ FlushAgain
  <2>1. /\ UNCHANGED <<promise, delivered, iterator, list>> /\ callback' = callback
        /\ step'[owner] = step[owner]
    BY Zenon, <1>0, <1>10 DEF InsertBlock, FlushAgain, InsertCallback, Step, StepsInv
  <2> QED BY Zenon, <1>8, <2>1 DEF Synced
<1>11. CASE SyncReturn(validator, "lock")
  <2>1. /\ UNCHANGED <<taskVars, delivered, iterator, list>> /\ promise'[owner] = promise[owner]
        /\ step'[owner] = step[owner]
    BY Zenon, <1>0, <1>11 DEF SyncReturn, Step, StepsInv
  <2>2. Synced' <=> Synced
    BY Zenon, <2>1 DEF Synced, Runs, taskVars, runner
  <2> QED BY Zenon, <1>2, <2>1, <2>2 DEF taskVars, runner
<1>12. CASE SyncReturn(owner, "unregistered")
  <2>1. UNCHANGED <<taskVars, delivered, iterator, list>> /\ promise[owner]
    BY Zenon, <1>12 DEF SyncReturn
  <2>2. Synced
    BY Zenon, <2>1 DEF Synced
  <2> QED BY Zenon, <1>2, <2>1, <2>2 DEF taskVars, runner
<1>13. ASSUME UNCHANGED <<callback, delivered>>, Synced' => Synced,
              \A a \in Actors : callback[a] # NoEvent => iterator'[a] = iterator[a],
              \A f \in m_list' : subscriber'[f] = Temporary => f \in m_list /\ subscriber[f] = Temporary
       PROVE  TemporaryInv'
  BY Zenon, <1>1, <1>13 DEF MayReach
<1>14. CASE DirectSignal
  <2>1. /\ IterateBegin(validator) \/ IterateNext(validator)
        /\ UNCHANGED <<delivered, promise, taskVars>> /\ step'[owner] = step[owner]
    BY Zenon, <1>0, <1>14 DEF DirectSignal, Step, StepsInv
  <2>2. /\ iterator' = [iterator EXCEPT ![validator] = iterator'[validator]]
        /\ m_list' \subseteq m_list /\ subscriber' = subscriber
    BY Zenon, <1>0, <2>1, IterateFacts
  <2>3. callback' = callback /\ (Synced' => Synced)
    BY Zenon, <2>1 DEF taskVars, runner, Synced, Runs
  <2>4. \A a \in Actors : callback[a] # NoEvent => iterator'[a] = iterator[a]
    BY Zenon, <1>0, <2>2, CallbackFacts DEF ListInv, ListTypeOK
  <2> QED BY Zenon, <1>13, <2>1, <2>2, <2>3, <2>4
<1>15. CASE UnregisterTemporary \/ UnregisterAllValidationInterfaces
  <2>1. /\ UNCHANGED <<delivered, promise, iterator, taskVars>> /\ subscriber' = subscriber
        /\ m_list' \subseteq m_list
        /\ step'[owner] = "unregistered" => step[owner] = "unregistered"
    BY Zenon, <1>0, <1>15
       DEF UnregisterTemporary, UnregisterAllValidationInterfaces, UnregisterAll, Step, StepsInv
  <2>2. callback' = callback /\ (Synced' => Synced)
    BY Zenon, <2>1 DEF taskVars, runner, Synced, Runs
  <2> QED BY Zenon, <1>13, <2>1, <2>2
<1>16. CASE RegisterPermanent
  <2>1. /\ UNCHANGED <<delivered, promise, iterator, taskVars>> /\ step[main] = "starting"
        /\ step'[owner] = step[owner] /\ Register(Permanent)
    BY Zenon, <1>0, <1>16 DEF RegisterPermanent, At, Step, StepsInv
  <2>2. PICK e \in Entries : /\ m_list' = m_list \cup {e}
                             /\ subscriber' = [subscriber EXCEPT ![e] = Permanent]
    BY Zenon, <1>0, <2>1 DEF Register, SubscribersInv
  <2>3. \A f \in m_list' : subscriber'[f] = Temporary => f \in m_list /\ subscriber[f] = Temporary
    BY <1>0, <2>2, EntryNumbers DEF ListInv, ListTypeOK
  <2>4. callback' = callback /\ (Synced' => Synced)
    BY Zenon, <2>1 DEF taskVars, runner, Synced, Runs
  <2> QED BY Zenon, <1>13, <2>1, <2>3, <2>4
<1>17. CASE RegisterTemporary
  <2>1. /\ UNCHANGED <<delivered, promise, iterator, taskVars>> /\ step[owner] = "unregistered"
        /\ Register(Temporary)
    BY Zenon, <1>17 DEF RegisterTemporary, At
  <2>2. PICK e \in Entries : /\ m_list' = m_list \cup {e}
                             /\ subscriber' = [subscriber EXCEPT ![e] = Temporary]
    BY Zenon, <1>0, <2>1 DEF Register, SubscribersInv
  <2>3. Synced /\ \A f \in m_list : subscriber[f] # Temporary
    BY Zenon, <2>1 DEF QuietInv, Synced
  <2>4. \A f \in m_list' : subscriber'[f] = Temporary => f = e
    BY Zenon, <1>0, <2>2, <2>3 DEF ListInv, ListTypeOK
  <2>5. callback' = callback /\ delivered' = delivered /\ Handled' = Handled
    BY Zenon, <2>1 DEF taskVars, runner, Handled
  <2>6. \A a \in Actors : MayReach(a)
    BY Zenon, <2>3 DEF MayReach
  <2> QED BY Zenon, <2>4, <2>5, <2>6 DEF TemporaryInv
<1> QED
  BY Zenon, <1>0, <1>3, <1>4, <1>5, <1>6, <1>7, <1>9, <1>10, <1>11, <1>12, <1>14, <1>15, <1>16, <1>17, QuietSteps

INSTANCE FiniteSetTheorems

\* The entries are numbered, and the numbers are well-founded.
LEMMA NumbersOrdered == EntriesOrdered
<1> SUFFICES ASSUME NEW T \in SUBSET Entries, T # {}
             PROVE  \E e \in T : \A f \in T : e <= f
  BY Zenon DEF EntriesOrdered
<1>0. T \in SUBSET Nat
  BY SignalsAssumption DEF Entries
<1>1. PICK m \in T : \A n \in T : ~(<<n, m>> \in OpToRel(<, Nat))
  BY <1>0, NatLessThanWellFounded, WFMin, Zenon
<1>2. ASSUME NEW n \in T PROVE m <= n
  <2>1. ~(<<n, m>> \in {x \in Nat \X Nat : x[1] < x[2]})
    BY <1>1, Zenon DEF OpToRel
  <2> QED BY <1>0, <2>1
<1> QED BY Zenon, <1>2

\* Moving an actor from one entry to another changes who executes these two.
LEMMA ExecutorsMoved ==
    ASSUME ListTypeOK, NEW a \in Actors, NEW x \in Entries \cup {NoEntry},
           x # iterator[a], iterator' = [iterator EXCEPT ![a] = x],
           NEW e \in Entries, IsFiniteSet(Executors(e))
    PROVE  /\ IsFiniteSet(Executors(e)') /\ Cardinality(Executors(e)) \in Nat
           /\ Cardinality(Executors(e)') =
                IF e = x THEN Cardinality(Executors(e)) + 1
                ELSE IF e = iterator[a] THEN Cardinality(Executors(e)) - 1
                ELSE Cardinality(Executors(e))
<1>1. Cardinality(Executors(e)) \in Nat
  BY Zenon, FS_CardinalityType
<1>2. CASE e = x
  <2>1. Executors(e)' = Executors(e) \cup {a} /\ a \notin Executors(e)
    BY Zenon, <1>2 DEF Executors, ListTypeOK
  <2>2. /\ IsFiniteSet(Executors(e) \cup {a})
        /\ Cardinality(Executors(e) \cup {a}) = Cardinality(Executors(e)) + 1
    BY <2>1, FS_AddElement, Zenon
  <2> QED BY Zenon, <1>1, <1>2, <2>1, <2>2
<1>3. CASE e # x /\ e = iterator[a]
  <2>1. Executors(e)' = Executors(e) \ {a} /\ a \in Executors(e)
    BY Zenon, <1>3 DEF Executors, ListTypeOK
  <2> QED BY <1>1, <1>3, <2>1, FS_RemoveElement
<1>4. CASE e # x /\ e # iterator[a]
  <2>1. Executors(e)' = Executors(e)
    BY Zenon, <1>4 DEF Executors, ListTypeOK
  <2> QED BY Zenon, <1>1, <1>4, <2>1
<1> QED BY Zenon, <1>2, <1>3, <1>4

\* Nobody executes an entry when the number of its executors is zero.
LEMMA NoExecutors ==
    ASSUME NEW e, IsFiniteSet(Executors(e))
    PROVE  Cardinality(Executors(e)) \in Nat
           /\ (Cardinality(Executors(e)) > 0 <=> Executors(e) # {})
BY FS_CardinalityType, FS_EmptySet

\* The invariant is about the list and the iterators only.
LEMMA ListSame ==
    ASSUME ListInv, UNCHANGED <<list, iterator>>
    PROVE  ListInv'
<1>1. \A e : Executors(e)' = Executors(e) /\ (IsRegistered(e)' <=> IsRegistered(e))
  BY Zenon DEF Executors, IsRegistered, list
<1>2. ListTypeOK'
  BY Zenon DEF ListInv, ListTypeOK, list
<1> QED BY Zenon, <1>1, <1>2 DEF ListInv, EntriesInv, list

\* A new entry is counted once, for its registration.
LEMMA RegisterList ==
    ASSUME ListInv, NEW s \in Subscribers, Register(s), UNCHANGED iterator
    PROVE  ListInv'
<1>1. CASE m_map[s] # NoEntry
  BY Zenon, <1>1, ListSame DEF Register
<1>2. CASE m_map[s] = NoEntry
  <2>1. PICK e \in Entries :
          /\ subscriber[e] = Nobody
          /\ m_list' = m_list \cup {e}
          /\ m_map' = [m_map EXCEPT ![s] = e]
          /\ count' = [count EXCEPT ![e] = 1]
          /\ subscriber' = [subscriber EXCEPT ![e] = s]
    BY Zenon, <1>2 DEF Register
  <2>2. ListTypeOK' /\ e # NoEntry
    BY <2>1, SignalsAssumption DEF ListInv, ListTypeOK, Entries, NoEntry
  <2>3. Executors(e) = {} /\ ~IsRegistered(e) /\ e \notin m_list
    BY Zenon, <2>1 DEF ListInv, EntriesInv
  <2>4. \A u \in Subscribers : m_map'[u] # NoEntry => subscriber'[m_map'[u]] = u
    BY <2>1, <2>3 DEF ListInv, ListTypeOK, EntriesInv, IsRegistered
  <2>5. Executors(e)' = {} /\ IsRegistered(e)'
    BY Zenon, <2>1, <2>3 DEF Executors, IsRegistered, ListInv, ListTypeOK
  <2>6. ASSUME NEW f \in Entries, f # e
        PROVE  /\ Executors(f)' = Executors(f) /\ count'[f] = count[f]
               /\ f \in m_list' <=> f \in m_list
               /\ subscriber'[f] = subscriber[f]
               /\ IsRegistered(f)' <=> IsRegistered(f)
    <3>1. IsRegistered(f)' <=> IsRegistered(f)
      BY <1>2, <2>1, <2>6, SignalsAssumption
         DEF IsRegistered, ListInv, ListTypeOK, NoEntry, Entries
    <3> QED BY Zenon, <2>1, <2>6, <3>1 DEF Executors, ListInv, ListTypeOK
  <2>7. IsFiniteSet({}) /\ Cardinality({}) = 0
    BY Zenon, FS_EmptySet
  <2>8. count'[e] = 1 /\ subscriber'[e] = s /\ s # Nobody /\ e \in m_list'
    BY Zenon, <2>1, SignalsAssumption DEF ListInv, ListTypeOK
  <2>9. ASSUME NEW f \in Entries
        PROVE  /\ IsFiniteSet(Executors(f)')
               /\ count'[f] = Cardinality(Executors(f)') + (IF IsRegistered(f)' THEN 1 ELSE 0)
               /\ f \in m_list' <=> count'[f] > 0
               /\ f \in m_list' <=> Executors(f)' # {} \/ IsRegistered(f)'
               /\ subscriber'[f] = Nobody => f \notin m_list'
    <3>1. CASE f = e
      BY <3>1, <2>5, <2>7, <2>8
    <3>2. CASE f # e
      BY Zenon, <3>2, <2>6 DEF ListInv, EntriesInv
    <3> QED BY Zenon, <3>1, <3>2
  <2> QED BY Zenon, <2>2, <2>4, <2>9 DEF ListInv, EntriesInv
<1> QED BY Zenon, <1>1, <1>2

\* Losing a registration, an entry is erased unless somebody is executing it.
LEMMA UnregisterList ==
    ASSUME ListInv, NEW S \in SUBSET Subscribers, UnregisterAll(S), UNCHANGED iterator
    PROVE  ListInv'
<1> DEFINE gone == {s \in S : m_map[s] # NoEntry}
           Gone(e) == \E s \in gone : m_map[s] = e
<1>1. /\ count' = [e \in Entries |-> IF Gone(e) THEN count[e] - 1 ELSE count[e]]
      /\ m_list' = m_list \ {m_map[s] : s \in {u \in gone : count[m_map[u]] = 1}}
      /\ m_map' = [s \in Subscribers |-> IF s \in S THEN NoEntry ELSE m_map[s]]
      /\ subscriber' = subscriber
  <2>1. \A u \in gone : EraseUnused(gone)[u] <=> count[m_map[u]] = 1
    BY Zenon DEF EraseUnused
  <2> QED BY Zenon, <2>1 DEF UnregisterAll
<1>2. ASSUME NEW e \in Entries
      PROVE  /\ Executors(e)' = Executors(e)
             /\ count'[e] = IF Gone(e) THEN count[e] - 1 ELSE count[e]
             /\ e \in m_list' <=> e \in m_list /\ ~(Gone(e) /\ count[e] = 1)
             /\ Gone(e) => IsRegistered(e) /\ ~IsRegistered(e)'
             /\ ~Gone(e) => (IsRegistered(e)' <=> IsRegistered(e))
  <2>1. e # NoEntry
    BY SignalsAssumption DEF Entries, NoEntry
  <2>2. Gone(e) => IsRegistered(e) /\ ~IsRegistered(e)'
    BY <1>1, <2>1 DEF IsRegistered, ListInv, ListTypeOK, EntriesInv
  <2>3. ~Gone(e) => (IsRegistered(e)' <=> IsRegistered(e))
    BY Zenon, <1>1, <2>1 DEF IsRegistered, ListInv, ListTypeOK
  <2> QED BY Zenon, <1>1, <2>2, <2>3 DEF Executors
<1>3. ASSUME NEW e \in Entries
      PROVE  /\ IsFiniteSet(Executors(e)) /\ Cardinality(Executors(e)) \in Nat
             /\ (Cardinality(Executors(e)) > 0 <=> Executors(e) # {})
             /\ count[e] = Cardinality(Executors(e)) + (IF IsRegistered(e) THEN 1 ELSE 0)
             /\ e \in m_list <=> count[e] > 0
             /\ subscriber[e] = Nobody => e \notin m_list
  BY Zenon, NoExecutors DEF ListInv, EntriesInv
<1>4. ASSUME NEW e \in Entries
      PROVE  /\ IsFiniteSet(Executors(e)') /\ count'[e] \in Nat
             /\ count'[e] = Cardinality(Executors(e)') + (IF IsRegistered(e)' THEN 1 ELSE 0)
             /\ e \in m_list' <=> count'[e] > 0
             /\ e \in m_list' <=> Executors(e)' # {} \/ IsRegistered(e)'
             /\ subscriber'[e] = Nobody => e \notin m_list'
  BY <1>1, <1>2, <1>3
<1>5. \A s \in Subscribers : m_map'[s] # NoEntry => subscriber'[m_map'[s]] = s
  BY Zenon, <1>1 DEF ListInv, EntriesInv
<1>6. ListTypeOK'
  <2>1. count' \in [Entries -> Nat]
    BY Zenon, <1>1, <1>4
  <2> QED BY Zenon, <1>1, <2>1 DEF ListInv, ListTypeOK
<1> QED BY Zenon, <1>4, <1>5, <1>6 DEF ListInv, EntriesInv

\* An actor that begins to execute the first entry is counted.
LEMMA IterateBeginList ==
    ASSUME ListInv, NEW a \in Actors, IterateBegin(a)
    PROVE  ListInv'
<1> DEFINE x == First(m_list)
<1>0. /\ iterator[a] = NoEntry /\ iterator' = [iterator EXCEPT ![a] = x]
      /\ count' = [f \in Entries |-> IF f = x THEN count[f] + 1 ELSE count[f]]
      /\ m_list' = m_list /\ m_map' = m_map /\ subscriber' = subscriber
  BY Zenon DEF IterateBegin
<1>1. m_list \in SUBSET Entries /\ NoEntry \notin Entries
  BY SignalsAssumption DEF ListInv, ListTypeOK, NoEntry, Entries
<1>2. x = NoEntry \/ x \in m_list
  BY Zenon, <1>1, FirstOf DEF ListInv
<1>3. CASE x = NoEntry
  <2>1. iterator' = iterator /\ count' = count
    BY <1>0, <1>1, <1>3 DEF ListInv, ListTypeOK
  <2> QED BY Zenon, <1>0, <2>1, ListSame DEF list
<1>4. CASE x # NoEntry
  <2>1. x \in m_list /\ x \in Entries
    BY Zenon, <1>1, <1>2, <1>4
  <2>2. ASSUME NEW e \in Entries
        PROVE  /\ IsFiniteSet(Executors(e)') /\ count'[e] \in Nat
               /\ count'[e] = Cardinality(Executors(e)') + (IF IsRegistered(e)' THEN 1 ELSE 0)
               /\ e \in m_list' <=> count'[e] > 0
               /\ e \in m_list' <=> Executors(e)' # {} \/ IsRegistered(e)'
               /\ subscriber'[e] = Nobody => e \notin m_list'
    <3>1. /\ IsFiniteSet(Executors(e))
          /\ count[e] = Cardinality(Executors(e)) + (IF IsRegistered(e) THEN 1 ELSE 0)
          /\ e \in m_list <=> count[e] > 0
          /\ subscriber[e] = Nobody => e \notin m_list
      BY Zenon DEF ListInv, EntriesInv
    <3>2. /\ IsFiniteSet(Executors(e)') /\ Cardinality(Executors(e)) \in Nat
          /\ Cardinality(Executors(e)') = IF e = x THEN Cardinality(Executors(e)) + 1
                                          ELSE Cardinality(Executors(e))
      <4>1. ListTypeOK /\ x \in Entries \cup {NoEntry} /\ x # iterator[a]
        BY Zenon, <1>0, <2>1, <1>4 DEF ListInv
      <4>2. iterator' = [iterator EXCEPT ![a] = x] /\ e # iterator[a]
        BY Zenon, <1>0, <1>1
      <4> HIDE DEF x
      <4> QED BY ZenonT(20), <3>1, <4>1, <4>2, ExecutorsMoved
    <3>3. Cardinality(Executors(e)') > 0 <=> Executors(e)' # {}
      BY <3>2, FS_EmptySet
    <3>4. IsRegistered(e)' <=> IsRegistered(e)
      BY Zenon, <1>0 DEF IsRegistered
    <3>5. count'[e] = IF e = x THEN count[e] + 1 ELSE count[e]
      BY Zenon, <1>0
    <3>6. e \in m_list' <=> e \in m_list
      BY Zenon, <1>0
    <3>7. count'[e] = Cardinality(Executors(e)') + (IF IsRegistered(e)' THEN 1 ELSE 0)
      BY <3>1, <3>2, <3>4, <3>5
    <3>8. subscriber'[e] = subscriber[e] /\ (e = x => e \in m_list)
      BY Zenon, <1>0, <2>1
    <3> HIDE DEF x
    <3> QED BY <3>1, <3>2, <3>3, <3>5, <3>6, <3>7, <3>8
  <2>3. ListTypeOK'
    <3>1. count' \in [Entries -> Nat]
      BY Zenon, <1>0, <2>2
    <3> QED BY Zenon, <1>0, <2>1, <3>1 DEF ListInv, ListTypeOK
  <2>4. \A s \in Subscribers : m_map'[s] # NoEntry => subscriber'[m_map'[s]] = s
    BY Zenon, <1>0 DEF ListInv, EntriesInv
  <2> QED BY Zenon, <2>2, <2>3, <2>4 DEF ListInv, EntriesInv
<1> QED BY Zenon, <1>3, <1>4

\* An actor that goes on to the next entry is counted there, and takes the last one
\* out of the list when nobody else needs it.
LEMMA IterateNextList ==
    ASSUME ListInv, NEW a \in Actors, IterateNext(a)
    PROVE  ListInv'
<1> DEFINE old == iterator[a]
           x == Following(old)
<1>0. /\ old # NoEntry /\ iterator' = [iterator EXCEPT ![a] = x]
      /\ count' = [f \in Entries |-> IF f = old THEN count[f] - 1
                                     ELSE IF f = x THEN count[f] + 1 ELSE count[f]]
      /\ m_list' = IF count[old] = 1 THEN m_list \ {old} ELSE m_list
      /\ m_map' = m_map /\ subscriber' = subscriber
  BY Zenon DEF IterateNext, NextEntry
<1>1. old \in Entries /\ m_list \subseteq Entries /\ NoEntry \notin Entries /\ Entries \subseteq Int
  BY <1>0, SignalsAssumption DEF ListInv, ListTypeOK, NoEntry, Entries
<1>2. x = NoEntry \/ (x \in m_list /\ x > old)
  BY Zenon, <1>1, FollowingOf DEF ListInv
<1>3. x # old /\ x \in Entries \cup {NoEntry} /\ (x \in Entries => x \in m_list)
  <2>1. old \in Int /\ (x \in m_list => x \in Int /\ x \in Entries)
    BY Zenon, <1>1
  <2> HIDE DEF x, old
  <2> QED BY <1>0, <1>1, <1>2, <2>1
<1>4. ASSUME NEW e \in Entries
      PROVE  /\ IsFiniteSet(Executors(e)') /\ count'[e] \in Nat
             /\ count'[e] = Cardinality(Executors(e)') + (IF IsRegistered(e)' THEN 1 ELSE 0)
             /\ e \in m_list' <=> count'[e] > 0
             /\ e \in m_list' <=> Executors(e)' # {} \/ IsRegistered(e)'
             /\ subscriber'[e] = Nobody => e \notin m_list'
  <2>1. /\ IsFiniteSet(Executors(e))
        /\ count[e] = Cardinality(Executors(e)) + (IF IsRegistered(e) THEN 1 ELSE 0)
        /\ e \in m_list <=> count[e] > 0
        /\ subscriber[e] = Nobody => e \notin m_list
    BY Zenon DEF ListInv, EntriesInv
  <2>2. /\ IsFiniteSet(Executors(e)') /\ Cardinality(Executors(e)) \in Nat
        /\ Cardinality(Executors(e)') = IF e = x THEN Cardinality(Executors(e)) + 1
                                        ELSE IF e = old THEN Cardinality(Executors(e)) - 1
                                        ELSE Cardinality(Executors(e))
    <3>1. ListTypeOK /\ iterator' = [iterator EXCEPT ![a] = x]
      BY Zenon, <1>0 DEF ListInv
    <3> HIDE DEF x
    <3> QED BY ZenonT(20), <1>3, <2>1, <3>1, ExecutorsMoved
  <2>7. Cardinality(Executors(e)') \in Nat
    BY Zenon, <2>2, FS_CardinalityType
  <2>3. Cardinality(Executors(e)') > 0 <=> Executors(e)' # {}
    <3> HIDE DEF x
    <3> QED BY <2>2, <2>7, FS_EmptySet
  <2>4. e = old => Cardinality(Executors(e)) > 0
    <3>1. e = old => a \in Executors(e)
      BY Zenon DEF Executors
    <3> QED BY Zenon, <2>1, <3>1, NoExecutors
  <2>5. IsRegistered(e)' <=> IsRegistered(e)
    BY Zenon, <1>0 DEF IsRegistered
  <2>6. /\ count'[e] = IF e = old THEN count[e] - 1 ELSE IF e = x THEN count[e] + 1 ELSE count[e]
        /\ e \in m_list' <=> e \in m_list /\ ~(e = old /\ count[e] = 1)
    BY Zenon, <1>0
  <2>8. x # old /\ (e = x => e \in m_list) /\ subscriber'[e] = subscriber[e]
    BY Zenon, <1>0, <1>3
  <2> HIDE DEF x, old
  <2>9. /\ count'[e] \in Nat
        /\ count'[e] = Cardinality(Executors(e)') + (IF IsRegistered(e)' THEN 1 ELSE 0)
    <3>1. CASE e = old
      <4>1. /\ count'[e] = count[e] - 1 /\ Cardinality(Executors(e)') = Cardinality(Executors(e)) - 1
            /\ Cardinality(Executors(e)) \in Nat /\ Cardinality(Executors(e)) > 0
            /\ count[e] = Cardinality(Executors(e)) + (IF IsRegistered(e)' THEN 1 ELSE 0)
        BY Zenon, <2>1, <2>2, <2>4, <2>5, <2>6, <2>8, <3>1
      <4> QED BY <4>1
    <3>2. CASE e = x
      <4>1. /\ count'[e] = count[e] + 1 /\ Cardinality(Executors(e)') = Cardinality(Executors(e)) + 1
            /\ Cardinality(Executors(e)) \in Nat
            /\ count[e] = Cardinality(Executors(e)) + (IF IsRegistered(e)' THEN 1 ELSE 0)
        BY Zenon, <2>1, <2>2, <2>5, <2>6, <2>8, <3>2
      <4> QED BY <4>1
    <3>3. CASE e # old /\ e # x
      <4>1. /\ count'[e] = count[e] /\ Cardinality(Executors(e)') = Cardinality(Executors(e))
            /\ Cardinality(Executors(e)) \in Nat
            /\ count[e] = Cardinality(Executors(e)) + (IF IsRegistered(e)' THEN 1 ELSE 0)
        BY Zenon, <2>1, <2>2, <2>5, <2>6, <3>3
      <4> QED BY <4>1
    <3> QED BY Zenon, <3>1, <3>2, <3>3
  <2>10. e \in m_list' <=> count'[e] > 0
    <3>1. count[e] \in Nat
      BY Zenon DEF ListInv, ListTypeOK
    <3>2. CASE e = old
      <4>1. count'[e] = count[e] - 1 /\ (e \in m_list' <=> count[e] > 0 /\ count[e] # 1)
        BY Zenon, <2>1, <2>6, <3>2
      <4>2. count[e] > 0
        <5>1. /\ count[e] = Cardinality(Executors(e)) + (IF IsRegistered(e) THEN 1 ELSE 0)
              /\ Cardinality(Executors(e)) \in Nat /\ Cardinality(Executors(e)) > 0
          BY Zenon, <2>1, <2>2, <2>4, <3>2
        <5> QED BY <5>1
      <4> QED BY <3>1, <4>1, <4>2
    <3>3. CASE e # old /\ e = x
      <4>1. count'[e] = count[e] + 1 /\ e \in m_list'
        BY Zenon, <2>6, <2>8, <3>3
      <4> QED BY <3>1, <4>1
    <3>4. CASE e # old /\ e # x
      BY Zenon, <2>1, <2>6, <3>4
    <3> QED BY Zenon, <3>2, <3>3, <3>4
  <2>11. count'[e] > 0 <=> Cardinality(Executors(e)') > 0 \/ IsRegistered(e)'
    <3>1. CASE IsRegistered(e)'
      <4>1. count'[e] = Cardinality(Executors(e)') + 1
        BY Zenon, <2>9, <3>1
      <4> QED BY <2>7, <3>1, <4>1
    <3>2. CASE ~IsRegistered(e)'
      <4>1. count'[e] = Cardinality(Executors(e)') + 0
        BY Zenon, <2>9, <3>2
      <4> QED BY <2>7, <3>2, <4>1
    <3> QED BY Zenon, <3>1, <3>2
  <2> QED BY Zenon, <2>1, <2>2, <2>3, <2>6, <2>8, <2>9, <2>10, <2>11
<1>5. ListTypeOK'
  <2>1. count' \in [Entries -> Nat]
    BY Zenon, <1>0, <1>4
  <2> QED BY Zenon, <1>0, <1>3, <2>1 DEF ListInv, ListTypeOK
<1>6. \A s \in Subscribers : m_map'[s] # NoEntry => subscriber'[m_map'[s]] = s
  BY Zenon, <1>0 DEF ListInv, EntriesInv
<1> QED BY Zenon, <1>4, <1>5, <1>6 DEF ListInv, EntriesInv

\* Every step keeps the counts of the list.
LEMMA ListKept ==
    ASSUME Inv1, [Next]_vars
    PROVE  ListInv'
<1> USE ThreeClients
<1>0. TaskInv /\ PlacesInv /\ StepsInv /\ ListInv
  BY Zenon DEF Inv1
<1>1. CASE Quiet
  BY Zenon, <1>0, <1>1, ListSame DEF Quiet
<1>2. CASE UNCHANGED signals
  BY Zenon, <1>0, <1>2, ListSame DEF signals
<1>3. ASSUME NEW a \in Actors, SyncCallback(a) \/ BlockBegin(a) \/ BlockHandled(a)
      PROVE  ListInv'
  <2>1. CASE SyncCallback(a)
    BY Zenon, <1>0, <2>1, ListSame DEF SyncCallback
  <2>2. CASE BlockBegin(a)
    BY Zenon, <1>0, <2>2, IterateBeginList DEF BlockBegin
  <2>3. CASE BlockHandled(a)
    BY Zenon, <1>0, <2>3, IterateNextList DEF BlockHandled
  <2> QED BY Zenon, <1>3, <2>1, <2>2, <2>3
<1>4. ASSUME NEW c, NEW place,
             SyncInsert(c) \/ SyncReturn(c, place) \/ InsertBlock(c, place) \/ FlushAgain
      PROVE  ListInv'
  BY Zenon, <1>0, <1>4, ListSame DEF SyncInsert, SyncReturn, InsertBlock, FlushAgain
<1>5. CASE DirectSignal
  BY Zenon, <1>0, <1>5, IterateBeginList, IterateNextList DEF DirectSignal
<1>6. Permanent \in Subscribers /\ Temporary \in Subscribers /\ {Temporary} \in SUBSET Subscribers
      /\ Subscribers \in SUBSET Subscribers
  BY Zenon DEF Subscribers
<1>7. CASE RegisterTemporary \/ RegisterPermanent
  BY Zenon, <1>0, <1>6, <1>7, RegisterList DEF RegisterTemporary, RegisterPermanent
<1>8. CASE UnregisterTemporary \/ UnregisterAllValidationInterfaces
  BY Zenon, <1>0, <1>6, <1>8, UnregisterList DEF UnregisterTemporary, UnregisterAllValidationInterfaces
<1> QED BY Zenon, <1>0, <1>1, <1>2, <1>3, <1>4, <1>5, <1>7, <1>8, QuietSteps

SignalsInv == Inv1 /\ SyncInv /\ QuietInv /\ QueueOrder /\ ExecInv /\ TemporaryInv

\* The invariant holds before anything has been registered or queued.
LEMMA SignalsInit == Init => SignalsInv
<1> SUFFICES ASSUME Init PROVE SignalsInv
  BY Zenon
<1> USE ThreeClients
<1>1. TaskInv
  BY Zenon, InitKeeps DEF Init
<1>2. pc = [a \in Actors |-> IF a \in Threads THEN "woken" ELSE "client"]
      /\ callback = [a \in Actors |-> NoEvent] /\ m_callbacks_pending = <<>>
  BY Zenon DEF Init, InitTasks
<1>3. /\ step[validator] = "limit" /\ step[owner] = "unregistered" /\ step[main] = "starting"
      /\ step \in [Clients -> Steps] /\ promise = [c \in Clients |-> FALSE]
  BY Zenon DEF Init, Steps, Early
<1>4. PlacesInv
  BY Zenon, <1>2, <1>3, TaskRunnerAssumption DEF PlacesInv, Outside, Joined, Actors
<1>5. StepsInv
  BY <1>3, SignalsAssumption DEF Init, StepsInv, Early, Late, Joined
<1>6. /\ m_list = {} /\ m_map = [s \in Subscribers |-> NoEntry] /\ count = [e \in Entries |-> 0]
      /\ subscriber = [e \in Entries |-> Nobody] /\ iterator = [a \in Actors |-> NoEntry]
      /\ inserted = 0 /\ delivered = [s \in Subscribers |-> <<>>]
  BY Zenon DEF Init
<1>7. NoEntry \notin Entries
  BY SignalsAssumption DEF NoEntry, Entries
<1>8. ListInv
  <2>1. \A e \in Entries : Executors(e) = {} /\ ~IsRegistered(e)
    BY Zenon, <1>6, <1>7 DEF Executors, IsRegistered
  <2>2. IsFiniteSet({}) /\ Cardinality({}) = 0
    BY Zenon, FS_EmptySet
  <2>3. ListTypeOK
    BY Zenon, <1>6 DEF ListTypeOK
  <2>4. \A s \in Subscribers : m_map[s] # NoEntry => subscriber[m_map[s]] = s
    BY Zenon, <1>6
  <2>5. ASSUME NEW e \in Entries
        PROVE  /\ IsFiniteSet(Executors(e))
               /\ count[e] = Cardinality(Executors(e)) + (IF IsRegistered(e) THEN 1 ELSE 0)
               /\ e \in m_list <=> count[e] > 0
               /\ e \in m_list <=> Executors(e) # {} \/ IsRegistered(e)
               /\ subscriber[e] = Nobody => e \notin m_list
    <3>1. count[e] = 0 /\ e \notin m_list
      BY Zenon, <1>6
    <3>2. Executors(e) = {} /\ ~IsRegistered(e)
      BY Zenon, <2>1
    <3>3. IsFiniteSet(Executors(e)) /\ Cardinality(Executors(e)) = 0
      BY Zenon, <2>2, <3>2
    <3> HIDE <2>1, <2>2
    <3> QED BY <3>1, <3>2, <3>3
  <2> QED BY Zenon, <2>3, <2>4, <2>5, NumbersOrdered DEF ListInv, EntriesInv
<1>9. SubscribersInv
  BY Zenon, <1>3, <1>6, <1>7, SignalsAssumption DEF SubscribersInv, Subscribers
<1>10. Inv1
  BY Zenon, <1>1, <1>4, <1>5, <1>8, <1>9 DEF Inv1
<1>11. Index = {} /\ \A e : e # NoEvent => ~Runs(e) /\ ~Queued(e)
  BY <1>2 DEF Index, Runs, Queued
<1>12. SyncInv
  BY Zenon, <1>3, <1>11, EventKinds DEF SyncInv
<1>13. QuietInv
  BY Zenon, <1>3, <1>6 DEF QuietInv
<1>14. /\ delivered \in [Subscribers -> Seq(Nat)] /\ Handled = 0
       /\ Len(delivered[Temporary]) = 0
  BY <1>6, EntryNumbers, <1>10 DEF Handled
<1>15. QueueOrder
  BY <1>6, <1>11, <1>14 DEF QueueOrder
<1>16. \A a \in Actors, n \in BlockNumbers : callback[a] # Block(n)
  BY Zenon, <1>2, EventKinds
<1>17. ExecInv /\ TemporaryInv
  BY <1>3, <1>6, <1>14, <1>16 DEF ExecInv, TemporaryInv
<1> QED BY Zenon, <1>10, <1>12, <1>13, <1>15, <1>17 DEF SignalsInv

\* Every step keeps the invariant.
LEMMA SignalsStep == SignalsInv /\ [Next]_vars => SignalsInv'
<1> SUFFICES ASSUME SignalsInv, [Next]_vars PROVE SignalsInv'
  BY Zenon
<1>1. Inv1 /\ SyncInv /\ QuietInv /\ QueueOrder /\ ExecInv /\ TemporaryInv
  BY Zenon DEF SignalsInv
<1>2. inserted \in Nat
  BY <1>1 DEF Inv1, StepsInv
<1>3. TaskInv'
  BY Zenon, <1>1, <1>2, TaskStep, NextKeeps DEF Inv1
<1>4. StepsInv' /\ PlacesInv'
  BY Zenon, <1>1, StepsKept, PlacesKept DEF Inv1
<1>5. ListInv' /\ SubscribersInv'
  BY Zenon, <1>1, ListKept, SubscribersKept
<1>6. Inv1'
  BY Zenon, <1>3, <1>4, <1>5 DEF Inv1
<1>7. SyncInv' /\ QuietInv'
  BY Zenon, <1>1, <1>6, SyncKept, QuietKept
<1>8. QueueOrder' /\ ExecInv'
  BY Zenon, <1>1, <1>6, OrderKept
<1>9. TemporaryInv'
  BY Zenon, <1>1, <1>6, <1>8, TemporaryKept
<1> QED BY Zenon, <1>6, <1>7, <1>8, <1>9 DEF SignalsInv

\* The inductive invariant of the signals with their callers.
THEOREM SignalsInvariant == Spec => []SignalsInv
BY SignalsInit, SignalsStep, PTL DEF Spec

\* The counts of the entries are exact and no entry is executed after it has been
\* erased (ListEntry, validationinterface.cpp:38), with any number of threads.
THEOREM CountsAreExact == Spec => []CountsExact
<1>1. SignalsInv => CountsExact
  <2> SUFFICES ASSUME ListInv PROVE CountsExact
    BY Zenon DEF SignalsInv, Inv1
  <2>1. ASSUME NEW e \in m_list
        PROVE  /\ count[e] > 0
               /\ count[e] = Cardinality({a \in Actors : iterator[a] = e})
                               + Cardinality({s \in Subscribers : m_map[s] = e})
    <3> DEFINE R == {s \in Subscribers : m_map[s] = e}
    <3>1. e \in Entries /\ e # NoEntry
      BY SignalsAssumption DEF ListInv, ListTypeOK, Entries, NoEntry
    <3>2. CASE IsRegistered(e)
      <4>1. PICK s \in Subscribers : m_map[s] = e
        BY Zenon, <3>2 DEF IsRegistered
      <4>2. R = {s}
        BY Zenon, <3>1, <4>1 DEF ListInv, EntriesInv
      <4>3. Cardinality(R) = 1
        BY Zenon, <4>2, FS_Singleton
      <4> QED BY Zenon, <3>1, <3>2, <4>3 DEF ListInv, EntriesInv, Executors
    <3>3. CASE ~IsRegistered(e)
      <4>1. R = {}
        BY Zenon, <3>3 DEF IsRegistered
      <4>2. Cardinality(R) = 0
        BY Zenon, <4>1, FS_EmptySet
      <4> QED BY Zenon, <3>1, <3>3, <4>2 DEF ListInv, EntriesInv, Executors
    <3> QED BY Zenon, <3>2, <3>3
  <2>2. \A a \in Actors : iterator[a] # NoEntry => iterator[a] \in m_list
    BY Zenon, InList
  <2> QED BY Zenon, <2>1, <2>2 DEF CountsExact
<1> QED BY <1>1, SignalsInvariant, PTL

\* A subscriber that stays registered handles every event once and in order, and by
\* the end of Shutdown all of them but the one its second flush of the chain state
\* queues (init.cpp:373-387); one that comes and goes handles none twice.
THEOREM EventsDelivered == Spec => []DeliveredInOrder
<1>1. SignalsInv => DeliveredInOrder
  <2> SUFFICES ASSUME SignalsInv PROVE DeliveredInOrder
    BY Zenon
  <2>1. Inv1 /\ QueueOrder /\ ExecInv /\ TemporaryInv
    BY Zenon DEF SignalsInv
  <2>2. Handled \in Nat /\ inserted \in Nat
    BY <2>1, EntryNumbers DEF Inv1, StepsInv, QueueOrder, Handled
  <2>3. ASSUME m_callbacks_pending = <<>>, Executing = {} PROVE Handled = inserted
    <3>1. \A a \in Actors : callback[a] = NoEvent
      BY Zenon, <2>1, <2>3 DEF Executing, Inv1, PlacesInv
    <3>2. \A n \in 1..inserted : Block(n) # NoEvent
      BY <2>1, EventKinds, SignalsAssumption DEF Inv1, StepsInv, BlockNumbers
    <3>3. \A n \in 1..inserted : ~Runs(Block(n)) /\ ~Queued(Block(n))
      BY <2>3, <3>1, <3>2 DEF Runs, Queued, Index
    <3>4. Handled <= inserted /\ \A n \in 1..inserted : n <= Handled
      BY Zenon, <2>1, <3>3 DEF QueueOrder
    <3> QED BY <2>2, <3>4
  <2>4. ASSUME step[main] = "done" PROVE Executing = {}
    <3>1. \A a \in Actors : pc[a] # "callback"
      BY Zenon, <2>1, <2>4, ThreeClients DEF Inv1, PlacesInv, Joined, Outside, Actors
    <3> QED BY Zenon, <3>1 DEF Executing
  <2> QED BY Zenon, <2>1, <2>3, <2>4 DEF DeliveredInOrder, ExecInv, TemporaryInv, Handled
<1> QED BY <1>1, SignalsInvariant, PTL

\* After UnregisterValidationInterface and SyncWithValidationInterfaceQueue no queued
\* callback is executed on the subscriber: its owner may destroy it.
THEOREM QuietOnceSynced == Spec => []QuietAfterSync
<1>1. SignalsInv => QuietAfterSync
  BY Zenon, InList, ThreeClients DEF SignalsInv, Inv1, QuietInv, Synced, QuietAfterSync
<1> QED BY <1>1, SignalsInvariant, PTL
=============================================================================
