------------------------------ MODULE ThreadPool ------------------------------
(***************************************************************************)
(* ThreadPool (util/threadpool.h): a fixed set of worker threads that take *)
(* tasks off one queue, a controller that starts, interrupts and stops     *)
(* them, and any other thread that submits.                                *)
(*                                                                         *)
(* Every critical section of m_mutex is one step, a notification that      *)
(* follows the unlock is a step of its own, and the threads inside         *)
(* m_cv.wait are those whose program counter is "wait".  What a task does  *)
(* is given by the module that uses the pool (HttpServer).                 *)
(***************************************************************************)
EXTENDS Integers, Sequences, FiniteSets

CONSTANTS
    Workers,     \* the threads Start creates
    Controller,  \* the thread that calls Start, Interrupt and Stop
    Submitter,   \* the thread that calls Submit
    NoTask       \* a moved-from std::packaged_task

ASSUME ThreadPoolAssumption ==
    /\ Workers # {} /\ IsFiniteSet(Workers)
    /\ Controller # Submitter /\ {Controller, Submitter} \cap Workers = {}

Threads == Workers \cup {Controller, Submitter}

VARIABLES
    m_work_queue, m_interrupt, m_workers,   \* under m_mutex
    pc,                \* where each thread is
    task,              \* the task each thread has taken
    threads_to_join,   \* local of Stop
    executed           \* history: the tasks that have run, in the order they ended

pool == <<m_work_queue, m_interrupt, m_workers, task, threads_to_join, executed>>

InitPool ==
    /\ m_work_queue = <<>> /\ m_interrupt = FALSE /\ m_workers = {}
    /\ pc = [t \in Threads |-> CASE t \in Workers   -> "none"
                                 [] t = Controller  -> "start"
                                 [] OTHER           -> "idle"]
    /\ task = [t \in Threads |-> NoTask]
    /\ threads_to_join = {} /\ executed = <<>>

Goto(t, label) == pc' = [pc EXCEPT ![t] = label]
-----------------------------------------------------------------------------
Waiting == {w \in Workers : pc[w] = "wait"}

\* m_cv.notify_one() and notify_all() by thread t, which goes on at label.
NotifyOne(t, label) ==
    IF Waiting = {} THEN Goto(t, label)
    ELSE \E w \in Waiting : pc' = [pc EXCEPT ![t] = label, ![w] = "lock"]

NotifyAll(t, label) ==
    pc' = [u \in Threads |-> IF u \in Waiting THEN "lock"
                             ELSE IF u = t THEN label ELSE pc[u]]

\* Thread t moves the front of the queue into its own task.
Take(t) ==
    /\ m_work_queue # <<>>
    /\ task' = [task EXCEPT ![t] = Head(m_work_queue)]
    /\ m_work_queue' = Tail(m_work_queue)

\* The task of t has run, outside the lock.
Finish(t) ==
    /\ executed' = Append(executed, task[t])
    /\ task' = [task EXCEPT ![t] = NoTask]
-----------------------------------------------------------------------------
(* WorkerThread, with m_mutex held. *)

WorkerWait(w) ==
    /\ pc[w] = "lock" /\ ~m_interrupt /\ m_work_queue = <<>>
    /\ Goto(w, "wait")
    /\ UNCHANGED pool

\* `If stopped and no work left, exit worker.'
MayExit == m_interrupt /\ m_work_queue = <<>>

WorkerExit(w) ==
    /\ pc[w] = "lock" /\ MayExit
    /\ Goto(w, "exited")
    /\ UNCHANGED pool

WorkerTake(w) ==
    /\ pc[w] = "lock" /\ Take(w)
    /\ Goto(w, "run")
    /\ UNCHANGED <<m_interrupt, m_workers, threads_to_join, executed>>

\* m_cv.wait may return without a notification.
SpuriousWakeup(w) ==
    /\ pc[w] = "wait"
    /\ Goto(w, "lock")
    /\ UNCHANGED pool

WorkerThread(w) == WorkerWait(w) \/ WorkerExit(w) \/ WorkerTake(w)
-----------------------------------------------------------------------------
\* Start: refused (std::runtime_error) while interrupted or started.
Start(label) ==
    /\ pc[Controller] = "start" /\ ~m_interrupt /\ m_workers = {}
    /\ m_workers' = Workers
    /\ pc' = [t \in Threads |-> IF t \in Workers THEN "lock"
                                ELSE IF t = Controller THEN label ELSE pc[t]]
    /\ UNCHANGED <<m_work_queue, m_interrupt, task, threads_to_join, executed>>

\* Interrupt, the critical section and the notification.
Interrupt ==
    /\ pc[Controller] = "interrupt"
    /\ m_interrupt' = TRUE
    /\ Goto(Controller, "notifyInterrupt")
    /\ UNCHANGED <<m_work_queue, m_workers, task, threads_to_join, executed>>

InterruptNotify(label) ==
    /\ pc[Controller] = "notifyInterrupt"
    /\ NotifyAll(Controller, label)
    /\ UNCHANGED pool

\* Submit's critical section: the verdict, and the queue after it.
Accepts == m_workers # {} /\ ~m_interrupt

Enqueue(x) ==
    /\ Accepts
    /\ m_work_queue' = Append(m_work_queue, x)

\* Stop, the first critical section.
Stop ==
    /\ pc[Controller] = "stop"
    /\ m_interrupt' = TRUE
    /\ threads_to_join' = m_workers
    /\ m_workers' = {}
    /\ Goto(Controller, "notifyStop")
    /\ UNCHANGED <<m_work_queue, task, executed>>

StopNotify == NotifyAll(Controller, "drain")

NotifyStop ==
    /\ pc[Controller] = "notifyStop"
    /\ StopNotify
    /\ UNCHANGED pool

\* Stop helps to drain the queue: ProcessTask until it returns false.
ProcessTask ==
    /\ pc[Controller] = "drain" /\ Take(Controller)
    /\ Goto(Controller, "run")
    /\ UNCHANGED <<m_interrupt, m_workers, threads_to_join, executed>>

Drained ==
    /\ pc[Controller] = "drain" /\ m_work_queue = <<>>
    /\ Goto(Controller, "join")
    /\ UNCHANGED pool

\* Every worker that was registered has returned.
JoinedMutant == TRUE
Joined == \A w \in threads_to_join : pc[w] = "exited"

Join ==
    /\ pc[Controller] = "join" /\ Joined
    /\ threads_to_join' = {}
    /\ Goto(Controller, "reset")
    /\ UNCHANGED <<m_work_queue, m_interrupt, m_workers, task, executed>>

\* The last critical section: Start may be called again.
Reset(label) ==
    /\ pc[Controller] = "reset"
    /\ m_interrupt' = FALSE
    /\ Goto(Controller, label)
    /\ UNCHANGED <<m_work_queue, m_workers, task, threads_to_join, executed>>
=============================================================================
