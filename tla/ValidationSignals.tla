--------------------------- MODULE ValidationSignals ---------------------------
(***************************************************************************)
(* ValidationSignals (validationinterface.cpp) on the task runner of       *)
(* TaskRunner, with the callers whose interleavings matter:                *)
(*   validator   ActivateBestChain: limits the queue, then with cs_main    *)
(*               held queues an event and sends a direct signal;           *)
(*   owner       a subscriber's owner: registers it, unregisters it and    *)
(*               waits for the queue, and may register it again;           *)
(*   main        AppInitMain and Shutdown (init.cpp).                      *)
(* A subscriber's handling of a queued event takes and releases cs_main.   *)
(***************************************************************************)
EXTENDS TaskRunner, FiniteSets

CONSTANTS
    validator, owner, main,
    Permanent,       \* a subscriber that stays registered until the end
    Temporary,       \* the owner's subscriber
    Nobody,
    QueueLimit,      \* LimitValidationInterfaceQueue's 10
    MaxBlocks,       \* bound: rounds of ActivateBestChain
    MaxEntries       \* bound: entries ever made in m_list

Subscribers == {Permanent, Temporary}
NoEntry     == 0
Entries     == 1..MaxEntries

\* The n-th validation event, and the function SyncWithValidationInterfaceQueue queues.
Block(n) == [type |-> "block", n |-> n]
Sync(c)  == [type |-> "sync", caller |-> c]

ASSUME SignalsAssumption ==
    /\ {validator, owner, main} \subseteq Clients
    /\ validator # owner /\ owner # main /\ main # validator
    /\ Permanent # Temporary /\ Nobody \notin Subscribers \cup Actors
    /\ MaxBlocks \in Nat /\ MaxEntries \in Nat
    /\ Events = {Block(n) : n \in 1 .. MaxBlocks + 2} \cup {Sync(c) : c \in Clients}

VARIABLES
    m_list,              \* its entries, which are numbered in the order of the list
    m_map,               \* the entry of each registered subscriber
    count, subscriber,   \* of each entry
    iterator,            \* the entry each actor is executing
    step,                \* where each client is in its own code
    promise,             \* whether the client's promise has been set
    cs_main,             \* its owner
    inserted,            \* number of validation events queued so far
    delivered            \* history: queued events each subscriber has handled

list      == <<m_list, m_map, count, subscriber>>
signals   == <<list, iterator, step, promise, cs_main, inserted, delivered>>
vars      == <<taskVars, signals>>

At(c, place) == pc[c] = "client" /\ step[c] = place
Step(c, place) == step' = [step EXCEPT ![c] = place]
-----------------------------------------------------------------------------
(* ValidationSignalsImpl, each with m_mutex held. *)

\* A new entry at the end, unless the subscriber is registered.
Register(s) ==
    IF m_map[s] # NoEntry THEN UNCHANGED list
    ELSE \E e \in Entries :
           /\ subscriber[e] = Nobody /\ \A f \in Entries : subscriber[f] = Nobody => e <= f
           /\ m_list' = m_list \cup {e}
           /\ m_map' = [m_map EXCEPT ![s] = e]
           /\ count' = [count EXCEPT ![e] = 1]
           /\ subscriber' = [subscriber EXCEPT ![e] = s]

\* Unregister and Clear: those in S lose their registration, and their entry when
\* nobody is executing it.
EraseUnusedMutant(S) == [s \in S |-> TRUE]
EraseUnused(S) == [s \in S |-> count[m_map[s]] = 1]

UnregisterAll(S) ==
    LET registered == {s \in S : m_map[s] # NoEntry}
        erased     == EraseUnused(registered)
    IN /\ count' = [e \in Entries |-> IF \E s \in registered : m_map[s] = e
                                      THEN count[e] - 1 ELSE count[e]]
       /\ m_list' = m_list \ {m_map[s] : s \in {u \in registered : erased[u]}}
       /\ m_map' = [s \in Subscribers |-> IF s \in S THEN NoEntry ELSE m_map[s]]
       /\ UNCHANGED subscriber

\* The first of some entries, and the entry after e: std::next, and what erase returns.
First(S) == IF S = {} THEN NoEntry ELSE CHOOSE e \in S : \A f \in S : e <= f
Following(e) == First({f \in m_list : f > e})

NextEntryMutant(e) == IF count[e] = 1 /\ Following(e) # NoEntry THEN Following(Following(e))
                      ELSE Following(e)
NextEntry(e) == Following(e)

\* Iterate: from no entry to the first one ...
IterateBegin(a) ==
    /\ iterator[a] = NoEntry
    /\ LET e == First(m_list)
       IN /\ iterator' = [iterator EXCEPT ![a] = e]
          /\ count' = [f \in Entries |-> IF f = e THEN count[f] + 1 ELSE count[f]]
    /\ UNCHANGED <<m_list, m_map, subscriber>>

\* ... and from one whose handler has returned to the next.
IterateNext(a) ==
    /\ iterator[a] # NoEntry
    /\ LET e    == iterator[a]
           next == NextEntry(e)
       IN /\ iterator' = [iterator EXCEPT ![a] = next]
          /\ count' = [f \in Entries |-> IF f = e THEN count[f] - 1
                                         ELSE IF f = next THEN count[f] + 1 ELSE count[f]]
          /\ m_list' = IF count[e] = 1 THEN m_list \ {e} ELSE m_list
    /\ UNCHANGED <<m_map, subscriber>>
-----------------------------------------------------------------------------
(* Queued callbacks, on a service thread or in flush. *)

\* promise.set_value()
SyncCallback(a) ==
    /\ CallbackReturns(a) /\ callback[a].type = "sync"
    /\ promise' = [promise EXCEPT ![callback[a].caller] = TRUE]
    /\ UNCHANGED <<list, iterator, step, cs_main, inserted, delivered>>

\* Iterate; the handler needs cs_main.
BlockBegin(a) ==
    /\ pc[a] = "callback" /\ callback[a].type = "block"
    /\ IterateBegin(a)
    /\ IF iterator'[a] = NoEntry THEN CallbackReturns(a) ELSE UNCHANGED taskVars
    /\ UNCHANGED <<step, promise, cs_main, inserted, delivered>>

BlockHandled(a) ==
    /\ pc[a] = "callback" /\ callback[a].type = "block"
    /\ cs_main \in {Nobody, a}
    /\ IterateNext(a)
    /\ delivered' = [delivered EXCEPT ![subscriber[iterator[a]]] = Append(@, callback[a].n)]
    /\ IF iterator'[a] = NoEntry THEN CallbackReturns(a) ELSE UNCHANGED taskVars
    /\ UNCHANGED <<step, promise, cs_main, inserted>>

ExecuteCallback(a) == SyncCallback(a) \/ BlockBegin(a) \/ BlockHandled(a)
-----------------------------------------------------------------------------
(* SyncWithValidationInterfaceQueue. *)

SyncInsert(c) ==
    /\ At(c, "sync") /\ InsertCallback(c, Sync(c))
    /\ Step(c, "wait")
    /\ UNCHANGED <<list, iterator, promise, cs_main, inserted, delivered>>

SyncReturnMutant(c, place) ==
    /\ At(c, "wait")
    /\ Step(c, place)
    /\ UNCHANGED <<taskVars, list, iterator, promise, cs_main, inserted, delivered>>

SyncReturn(c, place) ==
    /\ At(c, "wait") /\ promise[c]
    /\ promise' = [promise EXCEPT ![c] = FALSE]
    /\ Step(c, place)
    /\ UNCHANGED <<taskVars, list, iterator, cs_main, inserted, delivered>>
-----------------------------------------------------------------------------
(* ActivateBestChain. *)

LimitQueueMutant ==
    /\ At(validator, "limit")
    /\ step[main] = "running" /\ inserted < MaxBlocks
    /\ cs_main = Nobody /\ cs_main' = validator
    /\ Step(validator, IF Len(m_callbacks_pending) > QueueLimit THEN "sync" ELSE "lock")
    /\ UNCHANGED <<taskVars, list, iterator, promise, inserted, delivered>>

\* LimitValidationInterfaceQueue
LimitQueue ==
    /\ At(validator, "limit")
    /\ step[main] = "running" /\ inserted < MaxBlocks
    /\ Step(validator, IF Len(m_callbacks_pending) > QueueLimit THEN "sync" ELSE "lock")
    /\ UNCHANGED <<taskVars, list, iterator, promise, cs_main, inserted, delivered>>

LockMain ==
    /\ At(validator, "lock") /\ cs_main \in {Nobody, validator}
    /\ cs_main' = validator
    /\ Step(validator, "insert")
    /\ UNCHANGED <<taskVars, list, iterator, promise, inserted, delivered>>

\* BlockConnected, UpdatedBlockTip, ...: queued with cs_main held.
InsertBlock(c, place) ==
    /\ At(c, "insert") /\ inserted <= MaxBlocks
    /\ InsertCallback(c, Block(inserted + 1))
    /\ inserted' = inserted + 1
    /\ Step(c, place)
    /\ UNCHANGED <<list, iterator, promise, cs_main, delivered>>

\* BlockChecked, NewPoWValidBlock, ActiveTipChange: on the caller's thread;
\* then cs_main is released.
DirectSignal ==
    /\ At(validator, "direct")
    /\ IterateBegin(validator) \/ IterateNext(validator)
    /\ IF iterator'[validator] = NoEntry
       THEN Step(validator, "limit") /\ cs_main' = Nobody
       ELSE UNCHANGED <<step, cs_main>>
    /\ UNCHANGED <<taskVars, promise, inserted, delivered>>

Validate ==
    \/ LimitQueue \/ SyncInsert(validator) \/ SyncReturn(validator, "lock") \/ LockMain
    \/ InsertBlock(validator, "direct") \/ DirectSignal
-----------------------------------------------------------------------------
(* The owner of the temporary subscriber. *)

RegisterTemporary ==
    /\ At(owner, "unregistered") /\ step[main] \in {"starting", "running"}
    /\ Register(Temporary)
    /\ Step(owner, "registered")
    /\ UNCHANGED <<taskVars, iterator, promise, cs_main, inserted, delivered>>

\* UnregisterValidationInterface, and then wait for the queue.
UnregisterTemporary ==
    /\ At(owner, "registered") /\ step[main] = "running"
    /\ UnregisterAll({Temporary})
    /\ Step(owner, "sync")
    /\ UNCHANGED <<taskVars, iterator, promise, cs_main, inserted, delivered>>

Unload == UnregisterTemporary \/ SyncInsert(owner) \/ SyncReturn(owner, "unregistered")
-----------------------------------------------------------------------------
(* The main thread. *)

\* AppInitMain, with the permanent subscriber registered behind the other one.
RegisterPermanent ==
    /\ At(main, "starting") /\ m_map[Temporary] # NoEntry
    /\ Register(Permanent)
    /\ Step(main, "running")
    /\ UNCHANGED <<taskVars, iterator, promise, cs_main, inserted, delivered>>

\* The peers, the RPC server and the wallets have stopped: nobody syncs any more.
StopScheduler ==
    /\ At(main, "running") /\ At(validator, "limit") /\ At(owner, "unregistered")
    /\ StopRequest(main)
    /\ Step(main, "notify")
    /\ UNCHANGED <<list, iterator, promise, cs_main, inserted, delivered>>

StopSchedulerNotify ==
    /\ At(main, "notify")
    /\ StopNotify(main)
    /\ Step(main, "join")
    /\ UNCHANGED <<list, iterator, promise, cs_main, inserted, delivered>>

\* The threads are joined; ForceFlushStateToDisk takes cs_main.
JoinScheduler ==
    /\ At(main, "join") /\ \A t \in Threads : pc[t] = "exited"
    /\ cs_main = Nobody
    /\ cs_main' = main
    /\ Step(main, "insert")
    /\ UNCHANGED <<taskVars, list, iterator, promise, inserted, delivered>>

UnlockFlushed ==
    /\ At(main, "flushed")
    /\ cs_main' = Nobody
    /\ Step(main, "drain")
    /\ UNCHANGED <<taskVars, list, iterator, promise, inserted, delivered>>

\* FlushBackgroundCallbacks: rounds of ProcessQueue until nothing is pending.
FlushRound ==
    /\ At(main, "drain") \/ (At(main, "drained") /\ m_callbacks_pending # <<>>)
    /\ Flush(main)
    /\ Step(main, "drained")
    /\ UNCHANGED <<list, iterator, promise, cs_main, inserted, delivered>>

\* The indexes have been stopped and the chain state is flushed once more, with
\* cs_main, which nobody else wants by now: "Any future callbacks will be dropped".
FlushAgain ==
    /\ At(main, "drained") /\ m_callbacks_pending = <<>>
    /\ cs_main = Nobody /\ inserted <= MaxBlocks + 1
    /\ InsertCallback(main, Block(inserted + 1))
    /\ inserted' = inserted + 1
    /\ Step(main, "again")
    /\ UNCHANGED <<list, iterator, promise, cs_main, delivered>>

\* UnregisterAllValidationInterfaces
UnregisterAllValidationInterfaces ==
    /\ At(main, "again")
    /\ UnregisterAll(Subscribers)
    /\ Step(main, "done")
    /\ UNCHANGED <<taskVars, iterator, promise, cs_main, inserted, delivered>>

Shutdown ==
    \/ StopScheduler \/ StopSchedulerNotify \/ JoinScheduler \/ InsertBlock(main, "flushed")
    \/ UnlockFlushed \/ FlushRound \/ FlushAgain \/ UnregisterAllValidationInterfaces
-----------------------------------------------------------------------------
Init ==
    /\ InitTasks
    /\ m_list = {}
    /\ m_map = [s \in Subscribers |-> NoEntry]
    /\ count = [e \in Entries |-> 0]
    /\ subscriber = [e \in Entries |-> Nobody]
    /\ iterator = [a \in Actors |-> NoEntry]
    /\ step = [c \in Clients |-> IF c = validator THEN "limit"
                                 ELSE IF c = owner THEN "unregistered" ELSE "starting"]
    /\ promise = [c \in Clients |-> FALSE]
    /\ cs_main = Nobody /\ inserted = 0
    /\ delivered = [s \in Subscribers |-> <<>>]

Inside(a) == RunnerStep(a) /\ UNCHANGED signals

Call(c) == Inside(c) \/ ExecuteCallback(c)

Service(t) == (ServiceStep(t) /\ UNCHANGED signals) \/ Call(t)

Next ==
    \/ \E t \in Threads : Service(t) \/ (SpuriousWakeup(t) /\ UNCHANGED signals)
    \/ \E c \in Clients : Call(c)
    \/ TimePasses /\ UNCHANGED signals
    \/ Validate \/ RegisterTemporary \/ Unload
    \/ RegisterPermanent \/ Shutdown

\* Threads keep running, and a call that has begun goes on when it can; the node is
\* asked to stop at some time.  Nobody has to register again.
Fairness ==
    /\ \A t \in Threads : WF_vars(Service(t))
    /\ WF_vars(Call(validator) \/ Validate)
    /\ WF_vars(Call(owner) \/ Unload)
    /\ WF_vars(Call(main) \/ Shutdown)

Spec == Init /\ [][Next]_vars /\ Fairness
-----------------------------------------------------------------------------
\* An entry's count is the number of actors executing it, plus 1 if it is
\* registered, and nobody executes an entry that has been erased (the comment on
\* ListEntry, validationinterface.cpp:38).
CountsExact ==
    /\ \A e \in m_list :
         /\ count[e] > 0
         /\ count[e] = Cardinality({a \in Actors : iterator[a] = e})
                         + Cardinality({s \in Subscribers : m_map[s] = e})
    /\ \A a \in Actors : iterator[a] # NoEntry => iterator[a] \in m_list

\* A subscriber that stays registered handles the queued events once and in order.
\* It has handled all of them whenever the queue is empty and nothing runs, and when
\* Shutdown is done all but the one of the last flush, which is dropped
\* (init.cpp:373).  One that comes and goes handles some, in order (Iterate with
\* entries erased under it).
DeliveredInOrder ==
    /\ \A i \in 1..Len(delivered[Permanent]) : delivered[Permanent][i] = i
    /\ \A i, j \in 1..Len(delivered[Temporary]) :
         i < j => delivered[Temporary][i] < delivered[Temporary][j]
    /\ m_callbacks_pending = <<>> /\ Executing = {} => Len(delivered[Permanent]) = inserted
    /\ step[main] = "done" => Len(delivered[Permanent]) = inserted - 1 /\ Executing = {}

\* Once its owner has unregistered it and waited for the queue, no queued callback
\* is being executed on the subscriber (SyncWithValidationInterfaceQueue blocks
\* "until the validation queue drains", validationinterface.cpp:149).
QuietAfterSync ==
    step[owner] = "unregistered" =>
        \A t \in Threads : iterator[t] # NoEntry => subscriber[iterator[t]] # Temporary

\* The node can be shut down: every wait for the queue ends, the validator's that
\* limits it ("this may lead to a deadlock!", validation.cpp:3385) and the owner's,
\* the service threads are joined and the flush comes to an end.
ShutdownCompletes == step[main] = "running" ~> step[main] = "done"
=============================================================================
