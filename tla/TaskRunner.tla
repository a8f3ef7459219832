------------------------------ MODULE TaskRunner ------------------------------
(***************************************************************************)
(* CScheduler and SerialTaskRunner (scheduler.h, scheduler.cpp).           *)
(*                                                                         *)
(* Service threads run serviceQueue; clients call insert and flush.  An    *)
(* actor's pc is the place it has reached: a step runs from where one of   *)
(* newTaskMutex and m_callbacks_mutex is taken to where it is released.    *)
(*                                                                         *)
(* taskQueue holds the tasks in the order of their times, of which only    *)
(* this matters: the first "due" of them are at or before now.  A task is  *)
(* "process" (ProcessQueue, scheduled for now) or "repeat" (a task of      *)
(* scheduleEvery).  What a callback does is left to the module that        *)
(* extends this one.  The service threads are in serviceQueue from the     *)
(* start.                                                                  *)
(***************************************************************************)
EXTENDS Integers, Sequences

CONSTANTS
    Threads,     \* threads that run serviceQueue
    Clients,     \* other threads
    Events,      \* callbacks
    NoEvent

ASSUME TaskRunnerAssumption ==
    /\ Threads \cap Clients = {}
    /\ NoEvent \notin Events

Actors == Threads \cup Clients

VARIABLES
    taskQueue, due,
    stopRequested,
    m_callbacks_pending, m_are_callbacks_running,
    pc, callback   \* where each actor is, and the callback it is executing

scheduler == <<taskQueue, due, stopRequested>>
runner    == <<m_callbacks_pending, m_are_callbacks_running, callback>>
taskVars  == <<scheduler, runner, pc>>

Task == {"process", "repeat"}
ThreadPC == {"woken", "wait", "timed", "late", "repeat", "exited"}
ActorPC  == {"client", "process", "callback", "finish", "maybe", "schedule"}

Goto(a, place) == pc' = [pc EXCEPT ![a] = place]

\* Where an actor goes on when it is done with the runner.
Return(a) == IF a \in Threads THEN "woken" ELSE "client"

\* Waiting for a task; for a time; for a time that has come.
Waiting == {"wait", "timed", "late"}

\* newTaskScheduled.notify_one, once the actors are at p.
NotifyOne(p) ==
    LET waiting == {t \in Threads : p[t] \in Waiting}
    IN IF waiting = {} THEN pc' = p
       ELSE \E t \in waiting : pc' = [p EXCEPT ![t] = "woken"]
-----------------------------------------------------------------------------
(* CScheduler. *)

shouldStop == stopRequested

\* The thread leaves serviceQueue and passes the wakeup on.
ServiceExit(t) ==
    /\ pc[t] = "woken" /\ shouldStop
    /\ NotifyOne([pc EXCEPT ![t] = "exited"])
    /\ UNCHANGED <<scheduler, runner>>

\* It waits for a task, or for the time of the first one.
ServiceWait(t) ==
    /\ pc[t] = "woken" /\ ~shouldStop
    /\ Goto(t, IF taskQueue = <<>> THEN "wait" ELSE IF due > 0 THEN "late" ELSE "timed")
    /\ UNCHANGED <<scheduler, runner>>

\* The time has come: it takes the first task, which need not be the one whose
\* time it was waiting for.
ServiceTimeout(t) ==
    /\ pc[t] = "late"
    /\ IF shouldStop \/ taskQueue = <<>>
       THEN Goto(t, "woken") /\ UNCHANGED <<taskQueue, due>>
       ELSE /\ Goto(t, Head(taskQueue))
            /\ taskQueue' = Tail(taskQueue)
            /\ due' = IF due > 0 THEN due - 1 ELSE 0
    /\ UNCHANGED <<stopRequested, runner>>

\* Before its time has come; after that wait_until reports the timeout.
SpuriousWakeup(t) ==
    /\ pc[t] \in {"wait", "timed"}
    /\ Goto(t, "woken")
    /\ UNCHANGED <<scheduler, runner>>

\* Repeat: the function runs, and is scheduled again for later.  The notification
\* of schedule() comes right after the unlock: a thread looks at the queue with
\* the mutex before it waits, so that no other step can tell them apart.
Repeat(t) ==
    /\ pc[t] = "repeat"
    /\ taskQueue' = Append(taskQueue, "repeat")
    /\ NotifyOne([pc EXCEPT ![t] = "woken"])
    /\ UNCHANGED <<due, stopRequested, runner>>

TimePasses ==
    /\ due' = Len(taskQueue)
    /\ pc' = [a \in Actors |-> IF pc[a] = "timed" THEN "late" ELSE pc[a]]
    /\ UNCHANGED <<taskQueue, stopRequested, runner>>

\* schedule(f, now): behind what is already due, before what is not.
ScheduleNow ==
    /\ taskQueue' = [i \in 1 .. Len(taskQueue) + 1 |->
                       IF i <= due THEN taskQueue[i]
                       ELSE IF i = due + 1 THEN "process" ELSE taskQueue[i - 1]]
    /\ due' = due + 1
    /\ UNCHANGED stopRequested

\* stop(): the flag, then notify_all; joining is up to the caller.
StopRequest(c) ==
    /\ pc[c] = "client"
    /\ stopRequested' = TRUE
    /\ UNCHANGED <<taskQueue, due, runner, pc>>

StopNotify(c) ==
    /\ pc[c] = "client"
    /\ pc' = [a \in Actors |-> IF pc[a] \in Waiting THEN "woken" ELSE pc[a]]
    /\ UNCHANGED <<scheduler, runner>>

AreThreadsServicingQueue == \E t \in Threads : pc[t] # "exited"
-----------------------------------------------------------------------------
(* SerialTaskRunner. *)

\* MaybeScheduleProcessQueue: the test, then schedule.
MaybeScheduleProcessQueue(a) ==
    /\ pc[a] = "maybe"
    /\ Goto(a, IF m_are_callbacks_running \/ m_callbacks_pending = <<>> THEN Return(a)
               ELSE "schedule")
    /\ UNCHANGED <<scheduler, runner>>

Schedule(a) ==
    /\ pc[a] = "schedule"
    /\ ScheduleNow
    /\ NotifyOne([pc EXCEPT ![a] = Return(a)])
    /\ UNCHANGED runner

\* ProcessQueue, as far as the call of the callback.
MayProcessMutant == m_callbacks_pending # <<>>
MayProcess == ~m_are_callbacks_running /\ m_callbacks_pending # <<>>

ProcessQueue(a) ==
    /\ pc[a] = "process"
    /\ IF MayProcess
       THEN /\ m_are_callbacks_running' = TRUE
            /\ callback' = [callback EXCEPT ![a] = Head(m_callbacks_pending)]
            /\ m_callbacks_pending' = Tail(m_callbacks_pending)
            /\ Goto(a, "callback")
       ELSE Goto(a, Return(a)) /\ UNCHANGED runner
    /\ UNCHANGED scheduler

CallbackReturns(a) ==
    /\ pc[a] = "callback"
    /\ callback' = [callback EXCEPT ![a] = NoEvent]
    /\ Goto(a, "finish")
    /\ UNCHANGED <<scheduler, m_callbacks_pending, m_are_callbacks_running>>

\* ~RAIICallbacksRunning
AfterCallbackMutant(a) == Return(a)
AfterCallback(a) == "maybe"

CallbacksNotRunning(a) ==
    /\ pc[a] = "finish"
    /\ m_are_callbacks_running' = FALSE
    /\ Goto(a, AfterCallback(a))
    /\ UNCHANGED <<scheduler, m_callbacks_pending, callback>>

InsertCallback(c, e) ==
    /\ pc[c] = "client"
    /\ m_callbacks_pending' = Append(m_callbacks_pending, e)
    /\ Goto(c, "maybe")
    /\ UNCHANGED <<scheduler, m_are_callbacks_running, callback>>

\* One round of flush, which asserts that no thread is servicing the queue.
Flush(c) ==
    /\ pc[c] = "client" /\ ~AreThreadsServicingQueue
    /\ Goto(c, "process")
    /\ UNCHANGED <<scheduler, runner>>
-----------------------------------------------------------------------------
RunnerStep(a) ==
    \/ MaybeScheduleProcessQueue(a) \/ Schedule(a)
    \/ ProcessQueue(a) \/ CallbacksNotRunning(a)

ServiceStep(t) ==
    ServiceExit(t) \/ ServiceWait(t) \/ ServiceTimeout(t) \/ Repeat(t)

CallerStep(c) ==
    StopRequest(c) \/ StopNotify(c) \/ Flush(c) \/ \E e \in Events : InsertCallback(c, e)

InitTasks ==
    /\ taskQueue = <<"repeat">> /\ due = 0
    /\ stopRequested = FALSE
    /\ m_callbacks_pending = <<>> /\ m_are_callbacks_running = FALSE
    /\ pc = [a \in Actors |-> IF a \in Threads THEN "woken" ELSE "client"]
    /\ callback = [a \in Actors |-> NoEvent]

NextTask ==
    \/ \E a \in Actors : RunnerStep(a) \/ CallbackReturns(a)
    \/ \E t \in Threads : ServiceStep(t) \/ SpuriousWakeup(t)
    \/ \E c \in Clients : CallerStep(c)
    \/ TimePasses

TaskSpec == InitTasks /\ [][NextTask]_taskVars
-----------------------------------------------------------------------------
\* The callbacks being executed.
Executing == {callback[a] : a \in {b \in Actors : pc[b] = "callback"}}

Queue == INSTANCE CallbackQueue WITH pending <- m_callbacks_pending, current <- Executing

\* Callbacks run one at a time, in the order of insertion and once each, whichever
\* thread runs them and however many copies of ProcessQueue are scheduled
\* ("no two jobs will be executed at the same time", scheduler.h:117).
ImplementsQueue == Queue!Spec

\* A callback that is pending is never forgotten: somebody is executing one, is
\* about to look, or has scheduled ProcessQueue (SerialTaskRunner reschedules
\* itself only after m_are_callbacks_running has been reset).
NotStranded ==
    m_callbacks_pending # <<>> =>
        \/ m_are_callbacks_running
        \/ \E a \in Actors : pc[a] \in {"process", "maybe", "schedule"}
        \/ \E i \in 1..Len(taskQueue) : taskQueue[i] = "process"
=============================================================================
