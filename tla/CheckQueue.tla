------------------------------ MODULE CheckQueue ------------------------------
(***************************************************************************)
(* CCheckQueue and CCheckQueueControl (checkqueue.h): the pool of script   *)
(* verification threads that ConnectBlock hands the checks of a block to.  *)
(*                                                                         *)
(* Every critical section of m_mutex is one step.  The checks of a batch   *)
(* run without the lock; they touch only the thread's own state, so one    *)
(* step runs them all.  A condition variable is the set of threads whose   *)
(* program counter is "wait"; being notified moves a thread to "woken",    *)
(* where it competes for m_mutex again.                                    *)
(*                                                                         *)
(* A check is the number of its place in the order of addition in its      *)
(* round; the checks in `bad' return an error, and one error is like       *)
(* another.  There is no bound on the number of rounds.                    *)
(***************************************************************************)
EXTENDS Integers, Sequences, FiniteSets, FiniteSetsExt, Functions

CONSTANTS
    Workers,     \* the threads of m_worker_threads
    Masters,     \* threads that create a CCheckQueueControl
    NoThread,    \* nobody holds m_control_mutex
    nBatchSize,  \* constructor argument batch_size
    MaxChecks,   \* bound: checks added in one round
    MaxAdd       \* bound: checks passed to one Add

ASSUME CheckQueueAssumption ==
    /\ Workers # {} /\ Masters # {} /\ Workers \cap Masters = {}
    /\ IsFiniteSet(Workers) /\ IsFiniteSet(Masters)
    /\ NoThread \notin Workers \cup Masters
    /\ nBatchSize \in Nat \ {0}
    /\ MaxChecks \in Nat /\ MaxAdd \in Nat

Threads  == Workers \cup Masters
Checks   == 1..MaxChecks
NoResult == "none"                  \* std::nullopt
Failure  == "error"
Results  == {NoResult, Failure}
NoVerdict == [res |-> NoResult, checks |-> 0]

VARIABLES
    queue, nIdle, nTotal, nTodo, m_result, m_request_stop,  \* under m_mutex
    control,        \* holder of m_control_mutex, or NoThread
    pc,             \* where each thread is
    vChecks,        \* the batch each thread holds
    nNow,           \* size of the batch each thread has to account for
    local_result,
    do_work,        \* set with a batch, read while it runs
    bad,            \* the checks of the round that return an error
    added,          \* checks added in the round
    executed,       \* checks of the round that have been evaluated
    verdict         \* what Complete returned in the last round, and its checks

shared  == <<queue, nIdle, nTotal, nTodo, m_result, m_request_stop>>
locals  == <<vChecks, nNow, local_result, do_work>>
history == <<bad, added, executed, verdict>>
vars    == <<shared, control, pc, locals, history>>

Init ==
    /\ queue = <<>> /\ nIdle = 0 /\ nTotal = 0 /\ nTodo = 0
    /\ m_result = NoResult /\ m_request_stop = FALSE
    /\ control = NoThread
    /\ pc = [t \in Threads |-> IF t \in Workers THEN "lock" ELSE "out"]
    /\ vChecks = [t \in Threads |-> <<>>]
    /\ nNow = [t \in Threads |-> 0]
    /\ local_result = [t \in Threads |-> NoResult]
    /\ do_work = [t \in Threads |-> FALSE]
    /\ bad = {} /\ added = 0 /\ executed = {}
    /\ verdict = NoVerdict
-----------------------------------------------------------------------------
(* Condition variables. *)

Waiting(S) == {t \in S : pc[t] = "wait"}

\* notify_one on the condition variable of S: the possible program counters.
NotifyOne(S) ==
    IF Waiting(S) = {} THEN {pc}
    ELSE {[pc EXCEPT ![w] = "woken"] : w \in Waiting(S)}

NotifyAll(S) == [t \in Threads |-> IF t \in Waiting(S) THEN "woken" ELSE pc[t]]
-----------------------------------------------------------------------------
(* CCheckQueueControl, as ConnectBlock uses it. *)

\* The constructor takes m_control_mutex.
CreateControl(m) ==
    /\ pc[m] = "out" /\ control = NoThread /\ ~m_request_stop
    /\ control' = m
    /\ pc' = [pc EXCEPT ![m] = "add"]
    /\ UNCHANGED <<shared, locals, history>>

\* Add, the critical section.  (An empty vector returns at once.)
Add(m) ==
    /\ pc[m] = "add"
    /\ \E k \in 1..MaxAdd :
        /\ added + k <= MaxChecks
        /\ queue' = queue \o [i \in 1..k |-> added + i]
        /\ nTodo' = nTodo + k
        /\ added' = added + k
        /\ \E fail \in SUBSET (added + 1..added + k) : bad' = bad \cup fail
        /\ pc' = [pc EXCEPT ![m] = IF k = 1 THEN "notify_one" ELSE "notify_all"]
    /\ UNCHANGED <<nIdle, nTotal, m_result, m_request_stop, control, locals,
                   executed, verdict>>

\* Add, after the lock is released.
AddNotify(m) ==
    /\ \/ /\ pc[m] = "notify_one"
          /\ \E woken \in NotifyOne(Workers) : pc' = [woken EXCEPT ![m] = "add"]
       \/ /\ pc[m] = "notify_all"
          /\ pc' = [NotifyAll(Workers) EXCEPT ![m] = "add"]
    /\ UNCHANGED <<shared, control, locals, history>>

\* Complete, called by the user or by the destructor of the control: the
\* master enters Loop.  Its locals are fresh: they were when the last round ended.
Complete(m) ==
    /\ pc[m] = "add"
    /\ pc' = [pc EXCEPT ![m] = "lock"]
    /\ UNCHANGED <<shared, control, locals, history>>

\* The destructor, once fDone: m_control_mutex is released, and the locals of
\* Loop and the history of the round are gone.
DestroyControl(m) ==
    /\ pc[m] = "ret"
    /\ control' = NoThread
    /\ pc' = [pc EXCEPT ![m] = "out"]
    /\ local_result' = [local_result EXCEPT ![m] = NoResult]
    /\ bad' = {} /\ added' = 0 /\ executed' = {} /\ verdict' = NoVerdict
    /\ UNCHANGED <<shared, vChecks, nNow, do_work>>
-----------------------------------------------------------------------------
(* Loop(fMaster).  A critical section first cleans up after the last batch *)
(* and then runs the while loop; the values of the shared variables        *)
(* between the two are passed in the record c.                             *)

\* notify_one on m_master_cv by the worker that finished the last check.
NotifyMaster(t, todo) ==
    IF todo = 0 /\ t \in Workers THEN NotifyOne(Masters) ELSE {pc}

\* The clean-up: the set of possible outcomes (notify_one chooses).
Cleanup(t) ==
    IF nNow[t] > 0
    THEN LET keep == local_result[t] # NoResult /\ m_result = NoResult
             todo == nTodo - nNow[t]
         IN {[res   |-> IF keep THEN local_result[t] ELSE m_result,
              local |-> IF keep THEN NoResult ELSE local_result[t],
              todo  |-> todo, total |-> nTotal, idle |-> nIdle, pc |-> p] :
                 p \in NotifyMaster(t, todo)}
    ELSE {[res |-> m_result, local |-> local_result[t], todo |-> nTodo,
           total |-> nTotal + 1, idle |-> nIdle, pc |-> pc]}

\* `fMaster && nTodo == 0', tested when the queue is empty.
MayReturnMutant(t, todo) == t \in Masters
MayReturn(t, todo) == t \in Masters /\ todo = 0

\* The result handed to the master and the m_result left behind.
LeftResultMutant(res) == res
LeftResult(res) == NoResult

\* nTotal once the master has left.
LeftTotal(total) == total - 1

Return(t, c) ==
    /\ queue = <<>> /\ ~m_request_stop /\ MayReturn(t, c.todo)
    /\ nTotal' = LeftTotal(c.total)
    /\ m_result' = LeftResult(c.res)
    /\ verdict' = [res |-> c.res, checks |-> added]
    /\ pc' = [c.pc EXCEPT ![t] = "ret"]
    /\ nIdle' = c.idle
    /\ nNow' = [nNow EXCEPT ![t] = 0]
    /\ UNCHANGED <<queue, vChecks, do_work>>

\* nNow is dead while a thread waits: the next batch sets it before it is read.
Wait(t, c) ==
    /\ queue = <<>> /\ ~m_request_stop /\ ~MayReturn(t, c.todo)
    /\ nIdle' = c.idle + 1
    /\ pc' = [c.pc EXCEPT ![t] = "wait"]
    /\ nTotal' = c.total /\ m_result' = c.res
    /\ nNow' = [nNow EXCEPT ![t] = 0]
    /\ UNCHANGED <<queue, vChecks, do_work, verdict>>

\* How many checks a thread takes.
BatchSize(c) ==
    Max({1, Min({nBatchSize, Len(queue) \div (c.total + c.idle + 1)})})

\* What is left in the queue when n checks are taken off its end.
RemainingMutant(n) == SubSeq(queue, 1, Len(queue) - n + 1)
Remaining(n) == SubSeq(queue, 1, Len(queue) - n)

TakeBatch(t, c) ==
    /\ queue # <<>> /\ ~m_request_stop
    /\ LET n == BatchSize(c)
       IN /\ nNow' = [nNow EXCEPT ![t] = n]
          /\ vChecks' = [vChecks EXCEPT
                           ![t] = SubSeq(queue, Len(queue) - n + 1, Len(queue))]
          /\ queue' = Remaining(n)
    /\ do_work' = [do_work EXCEPT ![t] = c.res = NoResult]
    /\ pc' = [c.pc EXCEPT ![t] = "work"]
    /\ nTotal' = c.total /\ m_result' = c.res /\ nIdle' = c.idle
    /\ UNCHANGED verdict

StopLoop(t, c) ==
    /\ m_request_stop
    /\ pc' = [c.pc EXCEPT ![t] = "done"]
    /\ nTotal' = c.total /\ m_result' = c.res /\ nIdle' = c.idle
    /\ UNCHANGED <<queue, vChecks, nNow, do_work, verdict>>

While(t, c) ==
    /\ \/ Return(t, c)
       \/ Wait(t, c)
       \/ TakeBatch(t, c)
       \/ StopLoop(t, c)
    /\ nTodo' = c.todo
    /\ local_result' = [local_result EXCEPT ![t] = c.local]
    /\ UNCHANGED <<m_request_stop, control, bad, added, executed>>

\* The thread takes m_mutex at the top of the do loop.
EnterLoop(t) ==
    /\ pc[t] = "lock"
    /\ \E c \in Cleanup(t) : While(t, c)

\* The thread takes m_mutex again inside cond.wait.
ResumeWait(t) ==
    /\ pc[t] = "woken"
    /\ While(t, [res |-> m_result, local |-> local_result[t], todo |-> nTodo,
                 total |-> nTotal, idle |-> nIdle - 1, pc |-> pc])

\* A condition variable may wake a thread nobody notified.
SpuriousWakeup(t) ==
    /\ pc[t] = "wait"
    /\ pc' = [pc EXCEPT ![t] = "woken"]
    /\ UNCHANGED <<shared, control, locals, history>>

\* The checks evaluated: up to the first that fails.
Run(batch) ==
    LET fail == {i \in DOMAIN batch : batch[i] \in bad}
    IN IF fail = {} THEN batch ELSE SubSeq(batch, 1, Min(fail))

Work(t) ==
    /\ pc[t] = "work"
    /\ IF do_work[t]
       THEN LET ran == Run(vChecks[t]) IN
            /\ executed' = executed \cup Range(ran)
            /\ local_result' = [local_result EXCEPT ![t] =
                   IF ran[Len(ran)] \in bad THEN Failure ELSE NoResult]
       ELSE UNCHANGED <<executed, local_result>>
    /\ vChecks' = [vChecks EXCEPT ![t] = <<>>]
    /\ do_work' = [do_work EXCEPT ![t] = FALSE]
    /\ pc' = [pc EXCEPT ![t] = "lock"]
    /\ UNCHANGED <<shared, control, nNow, bad, added, verdict>>
-----------------------------------------------------------------------------
(* ~CCheckQueue.  The owner destroys the queue when no control exists. *)

RequestStop ==
    /\ control = NoThread /\ ~m_request_stop
    /\ m_request_stop' = TRUE
    /\ UNCHANGED <<queue, nIdle, nTotal, nTodo, m_result, control, pc, locals,
                   history>>

\* notify_all, after the lock is released.
StopNotifyMutant == UNCHANGED pc
StopNotify == pc' = NotifyAll(Workers)

\* The notification needs no lock and repeats nothing: once every waiting
\* worker is woken no worker can wait again, so it is enabled at most once.
NotifyStop ==
    /\ m_request_stop /\ Waiting(Workers) # {}
    /\ StopNotify
    /\ UNCHANGED <<shared, control, locals, history>>

\* Every worker has been joined and the queue is gone.
Destroyed ==
    /\ m_request_stop /\ \A w \in Workers : pc[w] = "done"
    /\ UNCHANGED vars
-----------------------------------------------------------------------------
MasterStep(m) ==
    CreateControl(m) \/ Add(m) \/ AddNotify(m) \/ Complete(m) \/ DestroyControl(m)

LoopStep(t) == EnterLoop(t) \/ ResumeWait(t) \/ Work(t)

Next ==
    \/ \E m \in Masters : MasterStep(m)
    \/ \E t \in Threads : LoopStep(t) \/ SpuriousWakeup(t)
    \/ RequestStop \/ NotifyStop \/ Destroyed

\* Threads that can run keep running and m_mutex is handed to every thread
\* that asks often enough.  Nobody is obliged to start a round, to add checks
\* or to destroy the queue.
Fairness ==
    /\ \A t \in Threads : WF_vars(LoopStep(t))
    /\ \A m \in Masters : WF_vars(AddNotify(m)) /\ WF_vars(DestroyControl(m))
    /\ WF_vars(NotifyStop)

Spec == Init /\ [][Next]_vars /\ Fairness
-----------------------------------------------------------------------------
TypeOK ==
    /\ queue \in Seq(Checks)
    /\ nIdle \in Nat /\ nTotal \in Nat /\ nTodo \in 0..MaxChecks
    /\ m_result \in Results /\ m_request_stop \in BOOLEAN
    /\ control \in Masters \cup {NoThread}
    /\ pc \in [Threads -> {"out", "add", "notify_one", "notify_all", "lock",
                           "wait", "woken", "work", "ret", "done"}]
    /\ vChecks \in [Threads -> Seq(Checks)]
    /\ nNow \in [Threads -> 0..nBatchSize]
    /\ local_result \in [Threads -> Results]
    /\ do_work \in [Threads -> BOOLEAN]
    /\ bad \subseteq Checks /\ executed \subseteq Checks
    /\ added \in 0..MaxChecks

\* The checks of a thread's batch that have not been subtracted from nTodo, and
\* their places in the batches of all threads.
Unfinished == [t \in Threads |-> IF pc[t] \in {"work", "lock"} THEN nNow[t] ELSE 0]
PlacesIn(S, size) == {p \in S \X (1..nBatchSize) : p[2] <= size[p[1]]}

\* Complete returns std::nullopt exactly when no check of this round fails, and
\* otherwise an error: no error is lost and none is left over from an earlier round
\* (the comment of the class, checkqueue.h:23).  After a success every check of the
\* round has been evaluated.
VerdictCorrect ==
    /\ verdict.res = NoResult <=> bad \cap 1..verdict.checks = {}
    /\ verdict.res = NoResult => 1..verdict.checks \subseteq executed

\* The state has its type; nTodo counts the queued checks and those in batches that
\* were not yet subtracted, nIdle the threads inside cond.wait and nTotal the
\* threads inside Loop; and a check is in at most one place (the queue or one
\* thread's batch) and is not evaluated while it waits there, so none runs twice.
CountersExact ==
    /\ TypeOK
    /\ nTodo = Len(queue) + Cardinality(PlacesIn(Threads, Unfinished))
    /\ nIdle = Cardinality({t \in Threads : pc[t] \in {"wait", "woken"}})
    /\ nTotal = Cardinality({t \in Threads :
                   \/ pc[t] \in {"wait", "woken", "work", "done"}
                   \/ pc[t] = "lock" /\ nNow[t] > 0})
    /\ IsInjective(queue)
    /\ \A t \in Threads :
        /\ IsInjective(vChecks[t])
        /\ Range(vChecks[t]) \cap (Range(queue) \cup executed) = {}
        /\ \A u \in Threads \ {t} : Range(vChecks[t]) \cap Range(vChecks[u]) = {}
    /\ Range(queue) \cap executed = {}

\* When no CCheckQueueControl exists no check is queued or held by a thread and
\* m_result is clear: the checks point into the block being connected, which
\* may be freed now ("guarantees the passed queue is finished before
\* continuing", checkqueue.h:204).
FinishedWhenReleased ==
    control = NoThread =>
        /\ queue = <<>> /\ nTodo = 0 /\ m_result = NoResult
        /\ \A t \in Threads : vChecks[t] = <<>>

\* A master that called Complete returns, and once the destructor has asked the
\* workers to stop all of them return: no notification is lost.
ThreadsReturn ==
    /\ \A m \in Masters : (pc[m] \in {"lock", "wait", "woken", "work"}) ~> (pc[m] = "ret")
    /\ m_request_stop ~> \A w \in Workers : pc[w] = "done"
=============================================================================
