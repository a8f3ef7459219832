------------------------ MODULE ValidationSignalsProofs ------------------------
(***************************************************************************)
(* Proofs about TaskRunner and about ValidationSignals, which uses the     *)
(* runner only through its operations.  First the runner by itself, for    *)
(* any number of service threads and clients: callbacks run one at a time  *)
(* and in order (ImplementsQueue), and a pending callback is never         *)
(* stranded (NotStranded).  Then the same of the whole.                    *)
(***************************************************************************)
EXTENDS ValidationSignals, TLAPS


PlaceSet == ThreadPC \cup ActorPC

\* The type of the state.
TaskTypeOK ==
    /\ taskQueue \in Seq(Task)
    /\ due \in 0..Len(taskQueue)
    /\ stopRequested \in BOOLEAN
    /\ m_callbacks_pending \in Seq(Events)
    /\ m_are_callbacks_running \in BOOLEAN
    /\ pc \in [Actors -> PlaceSet]
    /\ callback \in [Actors -> Events \cup {NoEvent}]

Busy == {"callback", "finish"}

\* At most one actor is between the two places where m_are_callbacks_running is
\* set and reset, and it is set then.
OneAtATime ==
    /\ \A a, b \in Actors : pc[a] \in Busy /\ pc[b] \in Busy => a = b
    /\ \A a \in Actors : pc[a] \in Busy => m_are_callbacks_running
    /\ \A a \in Actors : pc[a] = "callback" => callback[a] \in Events

TaskInv == TaskTypeOK /\ OneAtATime /\ NotStranded

\* The positions of m_callbacks_pending, when it grows at its end and when it loses
\* its head.
LEMMA Positions ==
    \A n \in Nat :
        /\ n + 1 \in 1..(n + 1)
        /\ \A i \in 1..n : i \in 1..(n + 1)
        /\ \A i \in 1..(n + 1) : i \in 1..n \/ i = n + 1
        /\ n > 0 => /\ 1 \in 1..n
                    /\ \A i \in 1..(n - 1) : i + 1 \in 1..n /\ i \in Nat /\ i >= 1
                    /\ \A i \in 1..n : i # 1 => i - 1 \in 1..(n - 1) /\ i \in Nat /\ i > 1
OBVIOUS
-----------------------------------------------------------------------------
(* What the two operators that wake threads do to the places. *)

\* notify_one wakes at most one waiting thread and moves nobody else.
LEMMA NotifyOneWakes ==
    ASSUME NEW p \in [Actors -> PlaceSet], NotifyOne(p)
    PROVE  /\ pc' \in [Actors -> PlaceSet]
           /\ \A a \in Actors : pc'[a] = p[a] \/ (p[a] \in Waiting /\ pc'[a] = "woken")
<1>1. CASE {t \in Threads : p[t] \in Waiting} = {}
  BY <1>1 DEF NotifyOne
<1>2. CASE {t \in Threads : p[t] \in Waiting} # {}
  <2>1. PICK t \in {u \in Threads : p[u] \in Waiting} : pc' = [p EXCEPT ![t] = "woken"]
    BY <1>2 DEF NotifyOne
  <2> QED BY <2>1 DEF Actors, PlaceSet, ThreadPC, Waiting
<1> QED BY <1>1, <1>2

\* schedule(f, now) keeps the queue in order and adds a run of ProcessQueue.
LEMMA ScheduleNowAdds ==
    ASSUME TaskTypeOK, ScheduleNow
    PROVE  /\ taskQueue' \in Seq(Task)
           /\ due' \in 0..Len(taskQueue')
           /\ \E i \in 1..Len(taskQueue') : taskQueue'[i] = "process"
<1> DEFINE n == Len(taskQueue) + 1
<1>1. /\ due \in Nat /\ n \in Nat /\ due + 1 <= n
      /\ \A i \in 1..n - 1 : taskQueue[i] \in Task
  BY DEF TaskTypeOK
<1>2. taskQueue' \in [1..n -> Task] /\ taskQueue'[due + 1] = "process"
  BY <1>1 DEF ScheduleNow, Task
<1>3. taskQueue' \in Seq(Task) /\ Len(taskQueue') = n
  BY <1>1, <1>2
<1> QED BY <1>1, <1>2, <1>3 DEF ScheduleNow
-----------------------------------------------------------------------------
(* The inductive invariant. *)

\* Steps that only move actors, none of them into or out of the runner's places
\* that matter, keep the invariant.
LEMMA MovesKeep ==
    ASSUME TaskInv, UNCHANGED <<scheduler, runner>>,
           pc' \in [Actors -> PlaceSet],
           \A a \in Actors : pc'[a] = pc[a] \/ (/\ pc[a] \in {"woken", "client"} \cup Waiting
                                               /\ pc'[a] \notin Busy)
    PROVE  TaskInv'
<1>1. TaskTypeOK'
  BY DEF TaskInv, TaskTypeOK, scheduler, runner
<1>2. \A a \in Actors : pc'[a] \in Busy => pc[a] \in Busy /\ pc'[a] = pc[a]
  OBVIOUS
<1>3. OneAtATime'
  BY <1>2 DEF TaskInv, OneAtATime, runner, Busy
<1>4. \A a \in Actors : pc[a] \in {"process", "maybe", "schedule"} => pc'[a] = pc[a]
  BY DEF Waiting
<1>5. NotStranded'
  BY <1>4 DEF TaskInv, NotStranded, scheduler, runner
<1> QED BY <1>1, <1>3, <1>5 DEF TaskInv

\* Every step of a service thread keeps the invariant.
LEMMA ServiceStepKeeps ==
    ASSUME TaskInv, NEW t \in Threads, ServiceStep(t) \/ SpuriousWakeup(t)
    PROVE  TaskInv'
<1> USE DEF Actors
<1>1. CASE ServiceExit(t)
  <2>1. [pc EXCEPT ![t] = "exited"] \in [Actors -> PlaceSet]
    BY DEF TaskInv, TaskTypeOK, PlaceSet, ThreadPC
  <2>2. /\ pc' \in [Actors -> PlaceSet]
        /\ \A a \in Actors : \/ pc'[a] = [pc EXCEPT ![t] = "exited"][a]
                           \/ /\ [pc EXCEPT ![t] = "exited"][a] \in Waiting
                              /\ pc'[a] = "woken"
    BY Zenon, <1>1, <2>1, NotifyOneWakes DEF ServiceExit
  <2>3. \A a \in Actors : pc'[a] = pc[a] \/ (/\ pc[a] \in {"woken", "client"} \cup Waiting
                                            /\ pc'[a] \notin Busy)
    BY <1>1, <2>2 DEF ServiceExit, TaskInv, TaskTypeOK, Waiting, Busy
  <2> QED BY <1>1, <2>2, <2>3, MovesKeep DEF ServiceExit
<1>2. CASE ServiceWait(t)
  <2>1. pc' \in [Actors -> PlaceSet]
    BY <1>2 DEF ServiceWait, Goto, TaskInv, TaskTypeOK, PlaceSet, ThreadPC
  <2>2. \A a \in Actors : pc'[a] = pc[a] \/ (/\ pc[a] \in {"woken", "client"} \cup Waiting
                                            /\ pc'[a] \notin Busy)
    BY <1>2 DEF ServiceWait, Goto, TaskInv, TaskTypeOK, Busy
  <2> QED BY <1>2, <2>1, <2>2, MovesKeep DEF ServiceWait
<1>3. CASE SpuriousWakeup(t)
  <2>1. pc' \in [Actors -> PlaceSet]
    BY <1>3 DEF SpuriousWakeup, Goto, TaskInv, TaskTypeOK, PlaceSet, ThreadPC
  <2>2. \A a \in Actors : pc'[a] = pc[a] \/ (/\ pc[a] \in {"woken", "client"} \cup Waiting
                                            /\ pc'[a] \notin Busy)
    BY <1>3 DEF SpuriousWakeup, Goto, TaskInv, TaskTypeOK, Busy, Waiting
  <2> QED BY <1>3, <2>1, <2>2, MovesKeep DEF SpuriousWakeup
<1>4. CASE ServiceTimeout(t) /\ (shouldStop \/ taskQueue = <<>>)
  <2>1. pc' \in [Actors -> PlaceSet] /\ UNCHANGED <<scheduler, runner>>
    BY <1>4 DEF ServiceTimeout, Goto, TaskInv, TaskTypeOK, PlaceSet, ThreadPC, scheduler
  <2>2. \A a \in Actors : pc'[a] = pc[a] \/ (/\ pc[a] \in {"woken", "client"} \cup Waiting
                                            /\ pc'[a] \notin Busy)
    BY <1>4 DEF ServiceTimeout, Goto, TaskInv, TaskTypeOK, Busy, Waiting
  <2> QED BY <2>1, <2>2, MovesKeep
<1>5. CASE ServiceTimeout(t) /\ ~(shouldStop \/ taskQueue = <<>>)
  <2>1. /\ pc[t] = "late" /\ pc' = [pc EXCEPT ![t] = Head(taskQueue)]
        /\ taskQueue # <<>> /\ taskQueue' = Tail(taskQueue)
        /\ due' = IF due > 0 THEN due - 1 ELSE 0
        /\ UNCHANGED <<stopRequested, m_callbacks_pending, m_are_callbacks_running, callback>>
    BY <1>5 DEF ServiceTimeout, Goto, runner
  <2>2. /\ Head(taskQueue) = taskQueue[1] /\ Head(taskQueue) \in Task
        /\ Tail(taskQueue) \in Seq(Task) /\ Len(Tail(taskQueue)) = Len(taskQueue) - 1
        /\ \A i \in 1 .. Len(taskQueue) - 1 : Tail(taskQueue)[i] = taskQueue[i + 1]
        /\ Len(taskQueue) \in Nat /\ Len(taskQueue) > 0
    BY <2>1 DEF TaskInv, TaskTypeOK
  <2>3. TaskTypeOK'
    BY <2>1, <2>2 DEF TaskInv, TaskTypeOK, Task, PlaceSet, ThreadPC, ActorPC
  <2>4. \A a \in Actors : a # t => pc'[a] = pc[a]
    BY <2>1 DEF TaskInv, TaskTypeOK
  <2>5. pc'[t] = Head(taskQueue) /\ pc'[t] \notin Busy
    BY <2>1, <2>2 DEF TaskInv, TaskTypeOK, Task, Busy
  <2>6. OneAtATime'
    BY <2>1, <2>4, <2>5 DEF TaskInv, OneAtATime, Busy
  <2>7. NotStranded'
    <3>1. CASE Head(taskQueue) = "process"
      BY <3>1, <2>5 DEF NotStranded
    <3>2. CASE Head(taskQueue) # "process"
      <4>1. ASSUME NEW i \in 1..Len(taskQueue), taskQueue[i] = "process"
            PROVE  \E j \in 1..Len(taskQueue') : taskQueue'[j] = "process"
        <5>1. i - 1 \in 1 .. Len(taskQueue) - 1
          BY <3>2, <4>1, <2>2
        <5>2. taskQueue'[i - 1] = taskQueue[(i - 1) + 1] /\ (i - 1) + 1 = i
          BY <5>1, <2>1, <2>2
        <5>3. i - 1 \in 1..Len(taskQueue')
          BY <5>1, <2>1, <2>2
        <5> QED BY <4>1, <5>2, <5>3
      <4>2. \A a \in Actors : pc[a] \in {"process", "maybe", "schedule"} => pc'[a] = pc[a]
        BY <2>1, <2>4
      <4> QED BY <2>1, <4>1, <4>2 DEF TaskInv, NotStranded
    <3> QED BY <3>1, <3>2
  <2> QED BY <2>3, <2>6, <2>7 DEF TaskInv
<1>6. CASE Repeat(t)
  <2>1. [pc EXCEPT ![t] = "woken"] \in [Actors -> PlaceSet]
    BY DEF TaskInv, TaskTypeOK, PlaceSet, ThreadPC
  <2>2. /\ pc' \in [Actors -> PlaceSet]
        /\ \A a \in Actors : \/ pc'[a] = [pc EXCEPT ![t] = "woken"][a]
                           \/ /\ [pc EXCEPT ![t] = "woken"][a] \in Waiting
                              /\ pc'[a] = "woken"
    BY Zenon, <1>6, <2>1, NotifyOneWakes DEF Repeat
  <2>3. /\ taskQueue' \in Seq(Task) /\ Len(taskQueue') = Len(taskQueue) + 1
        /\ Len(taskQueue) \in Nat
        /\ \A i \in 1..Len(taskQueue) : taskQueue'[i] = taskQueue[i]
    BY <1>6 DEF Repeat, TaskInv, TaskTypeOK, Task
  <2>4. /\ UNCHANGED <<due, stopRequested, m_callbacks_pending, m_are_callbacks_running, callback>>
        /\ pc[t] = "repeat"
    BY <1>6 DEF Repeat, runner
  <2>5. TaskTypeOK'
    BY <2>2, <2>3, <2>4 DEF TaskInv, TaskTypeOK
  <2>6. \A a \in Actors : pc'[a] = pc[a] \/ pc'[a] = "woken"
    BY <2>2, <2>4 DEF TaskInv, TaskTypeOK
  <2>7. \A a \in Actors : pc[a] \in {"process", "maybe", "schedule"} => pc'[a] = pc[a]
    BY <2>2, <2>4 DEF TaskInv, TaskTypeOK, Waiting
  <2>8. OneAtATime'
    BY <2>4, <2>6 DEF TaskInv, OneAtATime, Busy
  <2>9. NotStranded'
    BY <2>3, <2>4, <2>7 DEF TaskInv, NotStranded
  <2> QED BY <2>5, <2>8, <2>9 DEF TaskInv
<1> QED BY <1>1, <1>2, <1>3, <1>4, <1>5, <1>6 DEF ServiceStep

\* So does every step of ProcessQueue and MaybeScheduleProcessQueue.
LEMMA RunnerStepKeeps ==
    ASSUME TaskInv, NEW a \in Actors, RunnerStep(a) \/ CallbackReturns(a)
    PROVE  TaskInv'
<1>0. Return(a) \in {"woken", "client"} /\ Return(a) \in PlaceSet
  BY DEF Return, PlaceSet, ThreadPC, ActorPC
<1>1. CASE MaybeScheduleProcessQueue(a)
  <2>1. /\ pc[a] = "maybe" /\ UNCHANGED <<scheduler, runner>>
        /\ pc' = [pc EXCEPT ![a] = IF m_are_callbacks_running \/ m_callbacks_pending = <<>>
                                  THEN Return(a) ELSE "schedule"]
    BY <1>1 DEF MaybeScheduleProcessQueue, Goto
  <2>2. TaskTypeOK'
    BY <1>0, <2>1 DEF TaskInv, TaskTypeOK, PlaceSet, ActorPC, scheduler, runner
  <2>3. \A b \in Actors : b # a => pc'[b] = pc[b]
    BY <2>1 DEF TaskInv, TaskTypeOK
  <2>4. pc'[a] = IF m_are_callbacks_running \/ m_callbacks_pending = <<>>
                 THEN Return(a) ELSE "schedule"
    BY <2>1 DEF TaskInv, TaskTypeOK
  <2>5. OneAtATime'
    BY <1>0, <2>1, <2>3, <2>4 DEF TaskInv, OneAtATime, Busy, runner
  <2>6. NotStranded'
    BY <2>1, <2>4 DEF NotStranded, runner
  <2> QED BY <2>2, <2>5, <2>6 DEF TaskInv
<1>2. CASE Schedule(a)
  <2>1. /\ pc[a] = "schedule" /\ ScheduleNow /\ UNCHANGED runner
        /\ NotifyOne([pc EXCEPT ![a] = Return(a)])
    BY <1>2 DEF Schedule
  <2>2. [pc EXCEPT ![a] = Return(a)] \in [Actors -> PlaceSet]
    BY <1>0 DEF TaskInv, TaskTypeOK
  <2>3. /\ pc' \in [Actors -> PlaceSet]
        /\ \A b \in Actors : \/ pc'[b] = [pc EXCEPT ![a] = Return(a)][b]
                           \/ /\ [pc EXCEPT ![a] = Return(a)][b] \in Waiting
                              /\ pc'[b] = "woken"
    BY Zenon, <2>1, <2>2, NotifyOneWakes
  <2>4. /\ taskQueue' \in Seq(Task) /\ due' \in 0..Len(taskQueue')
        /\ \E i \in 1..Len(taskQueue') : taskQueue'[i] = "process"
    BY <2>1, ScheduleNowAdds DEF TaskInv
  <2>5. TaskTypeOK'
    BY <2>1, <2>3, <2>4 DEF TaskInv, TaskTypeOK, ScheduleNow, runner
  <2>6. \A b \in Actors : pc'[b] = pc[b] \/ pc'[b] \in {"woken", "client"}
    BY <1>0, <2>3 DEF TaskInv, TaskTypeOK
  <2>7. OneAtATime'
    BY <2>1, <2>6 DEF TaskInv, OneAtATime, Busy, runner
  <2>8. NotStranded'
    BY <2>4 DEF NotStranded
  <2> QED BY <2>5, <2>7, <2>8 DEF TaskInv
<1>3. CASE ProcessQueue(a) /\ MayProcess
  <2>1. /\ pc[a] = "process" /\ UNCHANGED scheduler
        /\ ~m_are_callbacks_running /\ m_callbacks_pending # <<>>
        /\ m_are_callbacks_running' = TRUE
        /\ callback' = [callback EXCEPT ![a] = Head(m_callbacks_pending)]
        /\ m_callbacks_pending' = Tail(m_callbacks_pending)
        /\ pc' = [pc EXCEPT ![a] = "callback"]
    BY <1>3 DEF ProcessQueue, MayProcess, Goto
  <2>2. /\ Head(m_callbacks_pending) \in Events
        /\ Tail(m_callbacks_pending) \in Seq(Events)
    BY <2>1 DEF TaskInv, TaskTypeOK
  <2>3. TaskTypeOK'
    BY <2>1, <2>2 DEF TaskInv, TaskTypeOK, PlaceSet, ActorPC, scheduler
  <2>4. \A b \in Actors : pc[b] \notin Busy
    BY <2>1 DEF TaskInv, OneAtATime
  <2>5. \A b \in Actors : b # a => pc'[b] = pc[b] /\ callback'[b] = callback[b]
    BY <2>1 DEF TaskInv, TaskTypeOK
  <2>6. callback'[a] \in Events
    BY <2>1, <2>2 DEF TaskInv, TaskTypeOK
  <2>7. OneAtATime'
    BY <2>1, <2>4, <2>5, <2>6 DEF OneAtATime, Busy
  <2>8. NotStranded'
    BY <2>1 DEF NotStranded
  <2> QED BY <2>3, <2>7, <2>8 DEF TaskInv
<1>4. CASE ProcessQueue(a) /\ ~MayProcess
  <2>1. /\ pc[a] = "process" /\ UNCHANGED <<scheduler, runner>>
        /\ m_are_callbacks_running \/ m_callbacks_pending = <<>>
        /\ pc' = [pc EXCEPT ![a] = Return(a)]
    BY <1>4 DEF ProcessQueue, MayProcess, Goto, TaskInv, TaskTypeOK
  <2>2. TaskTypeOK'
    BY <1>0, <2>1 DEF TaskInv, TaskTypeOK, scheduler, runner
  <2>3. \A b \in Actors : pc'[b] = pc[b] \/ pc'[b] \in {"woken", "client"}
    BY <1>0, <2>1 DEF TaskInv, TaskTypeOK
  <2>4. OneAtATime'
    BY <2>1, <2>3 DEF TaskInv, OneAtATime, Busy, runner
  <2>5. NotStranded'
    BY <2>1 DEF NotStranded, runner
  <2> QED BY <2>2, <2>4, <2>5 DEF TaskInv
<1>5. CASE CallbackReturns(a)
  <2>1. /\ pc[a] = "callback"
        /\ callback' = [callback EXCEPT ![a] = NoEvent]
        /\ pc' = [pc EXCEPT ![a] = "finish"]
        /\ UNCHANGED <<scheduler, m_callbacks_pending, m_are_callbacks_running>>
    BY <1>5 DEF CallbackReturns, Goto
  <2>2. TaskTypeOK'
    BY <2>1 DEF TaskInv, TaskTypeOK, PlaceSet, ActorPC, scheduler
  <2>3. \A b \in Actors : b # a => pc'[b] = pc[b] /\ callback'[b] = callback[b]
    BY <2>1 DEF TaskInv, TaskTypeOK
  <2>4. pc'[a] = "finish"
    BY <2>1 DEF TaskInv, TaskTypeOK
  <2>5. m_are_callbacks_running
    BY <2>1 DEF TaskInv, OneAtATime, Busy
  <2>6. OneAtATime'
    BY <2>1, <2>3, <2>4 DEF TaskInv, OneAtATime, Busy
  <2>7. NotStranded'
    BY <2>1, <2>5 DEF NotStranded
  <2> QED BY <2>2, <2>6, <2>7 DEF TaskInv
<1>6. CASE CallbacksNotRunning(a)
  <2>1. /\ pc[a] = "finish" /\ m_are_callbacks_running' = FALSE
        /\ pc' = [pc EXCEPT ![a] = "maybe"]
        /\ UNCHANGED <<scheduler, m_callbacks_pending, callback>>
    BY <1>6 DEF CallbacksNotRunning, AfterCallback, Goto
  <2>2. TaskTypeOK'
    BY Zenon, <2>1 DEF TaskInv, TaskTypeOK, PlaceSet, ActorPC, scheduler
  <2>3. \A b \in Actors : b # a => pc'[b] = pc[b] /\ pc[b] \notin Busy
    BY <2>1 DEF TaskInv, TaskTypeOK, OneAtATime, Busy
  <2>4. pc'[a] = "maybe"
    BY <2>1 DEF TaskInv, TaskTypeOK
  <2>5. OneAtATime'
    BY <2>3, <2>4 DEF OneAtATime, Busy
  <2>6. NotStranded'
    BY <2>4 DEF NotStranded
  <2> QED BY <2>2, <2>5, <2>6 DEF TaskInv
<1> QED BY <1>1, <1>2, <1>3, <1>4, <1>5, <1>6 DEF RunnerStep

\* So does every step of a client, and the passing of time.
LEMMA CallerStepKeeps ==
    ASSUME TaskInv, NEW c \in Clients, CallerStep(c)
    PROVE  TaskInv'
<1> USE DEF Actors
<1>1. CASE StopRequest(c)
  BY <1>1 DEF StopRequest, TaskInv, TaskTypeOK, OneAtATime, NotStranded, runner
<1>2. CASE StopNotify(c)
  <2>1. pc' \in [Actors -> PlaceSet]
    BY <1>2 DEF StopNotify, TaskInv, TaskTypeOK, PlaceSet, ThreadPC
  <2>2. \A a \in Actors : pc'[a] = pc[a] \/ (/\ pc[a] \in {"woken", "client"} \cup Waiting
                                            /\ pc'[a] \notin Busy)
    BY <1>2 DEF StopNotify, Busy
  <2> QED BY <1>2, <2>1, <2>2, MovesKeep DEF StopNotify
<1>3. CASE Flush(c)
  <2>1. pc' \in [Actors -> PlaceSet]
    BY <1>3 DEF Flush, Goto, TaskInv, TaskTypeOK, PlaceSet, ActorPC
  <2>2. \A a \in Actors : pc'[a] = pc[a] \/ (/\ pc[a] \in {"woken", "client"} \cup Waiting
                                            /\ pc'[a] \notin Busy)
    BY <1>3 DEF Flush, Goto, TaskInv, TaskTypeOK, Busy
  <2> QED BY <1>3, <2>1, <2>2, MovesKeep DEF Flush
<1>4. ASSUME NEW e \in Events, InsertCallback(c, e) PROVE TaskInv'
  <2>1. /\ pc[c] = "client" /\ pc' = [pc EXCEPT ![c] = "maybe"]
        /\ m_callbacks_pending' = Append(m_callbacks_pending, e)
        /\ UNCHANGED <<scheduler, m_are_callbacks_running, callback>>
    BY <1>4 DEF InsertCallback, Goto
  <2>2. TaskTypeOK'
    BY <2>1 DEF TaskInv, TaskTypeOK, PlaceSet, ActorPC, scheduler
  <2>3. pc'[c] = "maybe" /\ \A a \in Actors : a # c => pc'[a] = pc[a]
    BY <2>1 DEF TaskInv, TaskTypeOK
  <2>4. OneAtATime'
    BY <2>1, <2>3 DEF TaskInv, OneAtATime, Busy
  <2>5. NotStranded'
    BY <2>3 DEF NotStranded
  <2> QED BY <2>2, <2>4, <2>5 DEF TaskInv
<1> QED BY <1>1, <1>2, <1>3, <1>4 DEF CallerStep

\* A time that comes (the clock passes the time of a scheduled task) keeps the
\* invariant: it only lets a waiting thread of serviceQueue time out.
LEMMA TimePassesKeeps ==
    ASSUME TaskInv, TimePasses
    PROVE  TaskInv'
<1>1. /\ due' = Len(taskQueue)
      /\ pc' = [a \in Actors |-> IF pc[a] = "timed" THEN "late" ELSE pc[a]]
      /\ UNCHANGED <<taskQueue, stopRequested, m_callbacks_pending,
                     m_are_callbacks_running, callback>>
  BY DEF TimePasses, runner
<1>2. TaskTypeOK'
  BY <1>1 DEF TaskInv, TaskTypeOK, PlaceSet, ThreadPC
<1>3. \A a \in Actors : pc'[a] = pc[a] \/ (pc[a] = "timed" /\ pc'[a] = "late")
  BY <1>1
<1>4. OneAtATime'
  BY <1>1, <1>3 DEF TaskInv, OneAtATime, Busy
<1>5. NotStranded'
  BY <1>1, <1>3 DEF TaskInv, NotStranded
<1> QED BY <1>2, <1>4, <1>5 DEF TaskInv

\* The invariant holds from the start.
LEMMA InitKeeps == InitTasks => TaskInv
<1> SUFFICES ASSUME InitTasks PROVE TaskInv
  OBVIOUS
<1>1. TaskTypeOK
  <2>1. taskQueue \in Seq(Task) /\ Len(taskQueue) = 1 /\ due = 0
    BY DEF InitTasks, Task
  <2>2. pc \in [Actors -> PlaceSet] /\ callback \in [Actors -> Events \cup {NoEvent}]
    BY DEF InitTasks, PlaceSet, ThreadPC, ActorPC
  <2>3. stopRequested \in BOOLEAN /\ m_are_callbacks_running \in BOOLEAN
    BY Zenon DEF InitTasks
  <2>4. m_callbacks_pending \in Seq(Events)
    <3>1. m_callbacks_pending = <<>>
      BY DEF InitTasks
    <3> QED BY <3>1
  <2>5. due \in 0..Len(taskQueue)
    BY <2>1
  <2> QED BY <2>1, <2>2, <2>3, <2>4, <2>5 DEF TaskTypeOK
<1>2. OneAtATime
  BY DEF InitTasks, OneAtATime, Busy
<1>3. NotStranded
  BY DEF InitTasks, NotStranded
<1> QED BY <1>1, <1>2, <1>3 DEF TaskInv

\* And every step keeps it.
LEMMA NextKeeps == TaskInv /\ [NextTask]_taskVars => TaskInv'
<1> SUFFICES ASSUME TaskInv, [NextTask]_taskVars PROVE TaskInv'
  OBVIOUS
<1>1. CASE UNCHANGED taskVars
  BY <1>1 DEF taskVars, scheduler, runner, TaskInv, TaskTypeOK, OneAtATime, NotStranded
<1>2. CASE NextTask
  BY <1>2, RunnerStepKeeps, ServiceStepKeeps, CallerStepKeeps, TimePassesKeeps DEF NextTask
<1> QED BY <1>1, <1>2

\* The inductive invariant of SerialTaskRunner on CScheduler, for any number of
\* service threads and callers.
THEOREM TaskInvariant == TaskSpec => []TaskInv
<1>1. TaskInv /\ [NextTask]_taskVars => TaskInv'
  BY NextKeeps
<1> QED BY <1>1, InitKeeps, PTL DEF TaskSpec

\* A pending callback is never stranded: MaybeScheduleProcessQueue may skip the
\* scheduling only because somebody else will look again (scheduler.cpp:132-174).
THEOREM CallbacksNotStranded == TaskSpec => []NotStranded
<1>1. TaskInv => NotStranded
  BY DEF TaskInv
<1> QED BY <1>1, TaskInvariant, PTL
-----------------------------------------------------------------------------
(* The refinement of CallbackQueue. *)

\* What is being executed depends on the places and the callbacks alone.
LEMMA ExecutingUnchanged ==
    ASSUME TaskTypeOK, UNCHANGED callback,
           \A a \in Actors : pc'[a] = "callback" <=> pc[a] = "callback"
    PROVE  Executing' = Executing
BY DEF Executing

\* A new SerialTaskRunner, with nothing pending and nothing running, is an empty
\* callback queue.
LEMMA QueueInit == InitTasks => Queue!Init
BY Zenon DEF InitTasks, Queue!Init, Executing

\* Every step is a step of the queue or leaves it alone.
LEMMA QueueStep ==
    TaskInv /\ [NextTask]_taskVars => [Queue!Next]_<<m_callbacks_pending, Executing>>
<1> SUFFICES ASSUME TaskInv, [NextTask]_taskVars
             PROVE  Queue!Next \/ UNCHANGED <<m_callbacks_pending, Executing>>
  OBVIOUS
<1> USE DEF Actors
<1>0. TaskTypeOK /\ pc \in [Actors -> PlaceSet]
  BY DEF TaskInv, TaskTypeOK
<1>1. CASE UNCHANGED taskVars
  BY <1>1 DEF taskVars, runner, Executing
<1>2. ASSUME NEW a \in Actors, MaybeScheduleProcessQueue(a)
      PROVE  UNCHANGED <<m_callbacks_pending, Executing>>
  BY <1>0, <1>2, ExecutingUnchanged DEF MaybeScheduleProcessQueue, Goto, Return, runner
<1>3. ASSUME NEW a \in Actors, Schedule(a)
      PROVE  UNCHANGED <<m_callbacks_pending, Executing>>
  <2>1. [pc EXCEPT ![a] = Return(a)] \in [Actors -> PlaceSet]
    BY <1>0 DEF Return, PlaceSet, ThreadPC, ActorPC
  <2>2. \A b \in Actors : \/ pc'[b] = [pc EXCEPT ![a] = Return(a)][b]
                         \/ /\ [pc EXCEPT ![a] = Return(a)][b] \in Waiting
                            /\ pc'[b] = "woken"
    BY Zenon, <1>3, <2>1, NotifyOneWakes DEF Schedule
  <2>3. \A b \in Actors : pc'[b] = "callback" <=> pc[b] = "callback"
    BY <1>0, <1>3, <2>2 DEF Schedule, Return, Waiting
  <2> QED BY <1>0, <1>3, <2>3, ExecutingUnchanged DEF Schedule, runner
<1>4. ASSUME NEW a \in Actors, ProcessQueue(a) PROVE Queue!Next \/ UNCHANGED <<m_callbacks_pending, Executing>>
  <2>1. CASE MayProcess
    <3>1. /\ m_callbacks_pending # <<>> /\ ~m_are_callbacks_running
          /\ callback' = [callback EXCEPT ![a] = Head(m_callbacks_pending)]
          /\ m_callbacks_pending' = Tail(m_callbacks_pending)
          /\ pc' = [pc EXCEPT ![a] = "callback"]
      BY <1>4, <2>1 DEF ProcessQueue, MayProcess, Goto
    <3>2. \A b \in Actors : pc[b] # "callback"
      BY <3>1 DEF TaskInv, OneAtATime, Busy
    <3>3. \A b \in Actors : pc'[b] = "callback" <=> b = a
      BY <1>0, <3>1, <3>2
    <3>4. callback'[a] = Head(m_callbacks_pending)
      BY <3>1 DEF TaskInv, TaskTypeOK
    <3>5. Executing = {} /\ Executing' = {Head(m_callbacks_pending)}
      BY <3>2, <3>3, <3>4 DEF Executing
    <3> QED BY <3>1, <3>5 DEF Queue!Next, Queue!Begin
  <2>2. CASE ~MayProcess
    BY <1>0, <1>4, <2>2, ExecutingUnchanged DEF ProcessQueue, Goto, Return, runner
  <2> QED BY <2>1, <2>2
<1>5. ASSUME NEW a \in Actors, CallbacksNotRunning(a)
      PROVE  UNCHANGED <<m_callbacks_pending, Executing>>
  BY <1>0, <1>5, ExecutingUnchanged DEF CallbacksNotRunning, AfterCallback, Goto
<1>6. ASSUME NEW a \in Actors, CallbackReturns(a) PROVE Queue!Next
  <2>1. /\ pc[a] = "callback" /\ pc' = [pc EXCEPT ![a] = "finish"]
        /\ UNCHANGED m_callbacks_pending
    BY <1>6 DEF CallbackReturns, Goto
  <2>2. \A b \in Actors : pc'[b] # "callback"
    BY <1>0, <2>1 DEF TaskInv, OneAtATime, Busy
  <2>3. Executing # {} /\ Executing' = {}
    BY <2>1, <2>2 DEF Executing
  <2> QED BY <2>1, <2>3 DEF Queue!Next, Queue!End
<1>7. ASSUME NEW t \in Threads, ServiceStep(t) \/ SpuriousWakeup(t)
      PROVE  UNCHANGED <<m_callbacks_pending, Executing>>
  <2>1. CASE ServiceExit(t)
    <3>1. [pc EXCEPT ![t] = "exited"] \in [Actors -> PlaceSet]
      BY <1>0 DEF PlaceSet, ThreadPC
    <3>2. \A b \in Actors : \/ pc'[b] = [pc EXCEPT ![t] = "exited"][b]
                           \/ /\ [pc EXCEPT ![t] = "exited"][b] \in Waiting
                              /\ pc'[b] = "woken"
      BY Zenon, <2>1, <3>1, NotifyOneWakes DEF ServiceExit
    <3>3. \A b \in Actors : pc'[b] = "callback" <=> pc[b] = "callback"
      BY <1>0, <2>1, <3>2 DEF ServiceExit, Waiting
    <3> QED BY <1>0, <2>1, <3>3, ExecutingUnchanged DEF ServiceExit, runner
  <2>2. CASE ServiceWait(t)
    BY <1>0, <2>2, ExecutingUnchanged DEF ServiceWait, Goto, runner
  <2>3. CASE ServiceTimeout(t)
    <3>1. \A b \in Actors : pc'[b] = "callback" <=> pc[b] = "callback"
      <4>1. CASE shouldStop \/ taskQueue = <<>>
        BY <1>0, <2>3, <4>1 DEF ServiceTimeout, Goto
      <4>2. CASE ~(shouldStop \/ taskQueue = <<>>)
        <5>1. Head(taskQueue) \in Task
          BY <4>2 DEF TaskInv, TaskTypeOK
        <5> QED BY <1>0, <2>3, <4>2, <5>1 DEF ServiceTimeout, Goto, Task
      <4> QED BY <4>1, <4>2
    <3> QED BY <1>0, <2>3, <3>1, ExecutingUnchanged DEF ServiceTimeout, runner
  <2>4. CASE Repeat(t)
    <3>1. [pc EXCEPT ![t] = "woken"] \in [Actors -> PlaceSet]
      BY <1>0 DEF PlaceSet, ThreadPC
    <3>2. \A b \in Actors : \/ pc'[b] = [pc EXCEPT ![t] = "woken"][b]
                           \/ /\ [pc EXCEPT ![t] = "woken"][b] \in Waiting
                              /\ pc'[b] = "woken"
      BY Zenon, <2>4, <3>1, NotifyOneWakes DEF Repeat
    <3>3. \A b \in Actors : pc'[b] = "callback" <=> pc[b] = "callback"
      BY <1>0, <2>4, <3>2 DEF Repeat, Waiting
    <3> QED BY <1>0, <2>4, <3>3, ExecutingUnchanged DEF Repeat, runner
  <2>5. CASE SpuriousWakeup(t)
    BY <1>0, <2>5, ExecutingUnchanged DEF SpuriousWakeup, Goto, runner
  <2> QED BY <1>7, <2>1, <2>2, <2>3, <2>4, <2>5 DEF ServiceStep
<1>8. ASSUME NEW c \in Clients, CallerStep(c)
      PROVE  Queue!Next \/ UNCHANGED <<m_callbacks_pending, Executing>>
  <2>1. CASE StopRequest(c)
    BY <2>1 DEF StopRequest, runner, Executing
  <2>2. CASE StopNotify(c)
    <3>1. \A b \in Actors : pc'[b] = "callback" <=> pc[b] = "callback"
      BY <2>2 DEF StopNotify, Waiting
    <3> QED BY <1>0, <2>2, <3>1, ExecutingUnchanged DEF StopNotify, runner
  <2>3. CASE Flush(c)
    BY <1>0, <2>3, ExecutingUnchanged DEF Flush, Goto, runner
  <2>4. ASSUME NEW e \in Events, InsertCallback(c, e) PROVE Queue!Next
    <3>1. Executing' = Executing
      BY <1>0, <2>4, ExecutingUnchanged DEF InsertCallback, Goto
    <3> QED BY <2>4, <3>1 DEF InsertCallback, Queue!Next, Queue!Insert
  <2> QED BY <1>8, <2>1, <2>2, <2>3, <2>4 DEF CallerStep
<1>9. ASSUME TimePasses PROVE UNCHANGED <<m_callbacks_pending, Executing>>
  <2>1. \A b \in Actors : pc'[b] = "callback" <=> pc[b] = "callback"
    BY <1>9 DEF TimePasses
  <2> QED BY <1>0, <1>9, <2>1, ExecutingUnchanged DEF TimePasses, runner
<1> QED BY <1>1, <1>2, <1>3, <1>4, <1>5, <1>6, <1>7, <1>8, <1>9 DEF NextTask, RunnerStep

\* SerialTaskRunner implements the serial queue, however many threads service the
\* scheduler and however often ProcessQueue is scheduled (scheduler.h:114-121).
THEOREM RunnerImplementsQueue == TaskSpec => ImplementsQueue
<1>1. InitTasks => Queue!Init
  BY QueueInit
<1>2. TaskInv /\ [NextTask]_taskVars => [Queue!Next]_<<m_callbacks_pending, Executing>>
  BY QueueStep
<1> QED BY <1>1, <1>2, TaskInvariant, PTL DEF TaskSpec, ImplementsQueue, Queue!Spec
-----------------------------------------------------------------------------
(* The validation interface takes the steps of the task runner.            *)


\* Only InsertBlock and FlushAgain change the number of events queued.
LEMMA InsertedNat ==
    ASSUME inserted \in Nat, [Next]_vars
    PROVE  inserted' \in Nat
<1>1. ASSUME NEW c, NEW place, InsertBlock(c, place) PROVE inserted' \in Nat
  BY <1>1 DEF InsertBlock
<1>2. ASSUME NEW a, Call(a) PROVE inserted' = inserted
  BY Zenon, <1>2 DEF Call, Inside, signals, ExecuteCallback, SyncCallback, BlockBegin, BlockHandled
<1>3. ASSUME NEW c, NEW place, SyncInsert(c) \/ SyncReturn(c, place) PROVE inserted' = inserted
  BY Zenon, <1>3 DEF SyncInsert, SyncReturn
<1>4. CASE LimitQueue \/ LockMain \/ DirectSignal
  BY Zenon, <1>4 DEF LimitQueue, LockMain, DirectSignal
<1>5. CASE Validate
  BY Zenon, <1>1, <1>3, <1>4, <1>5 DEF Validate
<1>6. CASE RegisterTemporary \/ Unload \/ RegisterPermanent
  BY Zenon, <1>3, <1>6 DEF RegisterTemporary, Unload, UnregisterTemporary, RegisterPermanent
<1>7. CASE Shutdown
  <2>1. CASE StopScheduler \/ StopSchedulerNotify \/ JoinScheduler \/ UnlockFlushed
    BY Zenon, <2>1 DEF StopScheduler, StopSchedulerNotify, JoinScheduler, UnlockFlushed
  <2>2. CASE FlushRound \/ UnregisterAllValidationInterfaces
    BY Zenon, <2>2 DEF FlushRound, UnregisterAllValidationInterfaces
  <2>3. CASE FlushAgain
    BY <2>3 DEF FlushAgain
  <2> QED BY Zenon, <1>1, <1>7, <2>1, <2>2, <2>3 DEF Shutdown
<1>8. ASSUME UNCHANGED signals \/ UNCHANGED vars PROVE inserted' = inserted
  BY Zenon, <1>8 DEF signals, vars
<1>9. ASSUME NEW t, Service(t) PROVE inserted' = inserted
  BY Zenon, <1>2, <1>8, <1>9 DEF Service
<1> QED BY Zenon, <1>2, <1>5, <1>6, <1>7, <1>8, <1>9 DEF Next

\* What is inserted is an event.
LEMMA InsertIsCall ==
    ASSUME NEW c \in Clients, NEW e \in Events, InsertCallback(c, e)
    PROVE  NextTask
BY Zenon DEF NextTask, CallerStep

\* The return of a callback of the signals is the return of a task of the runner.
LEMMA ReturnIsStep ==
    ASSUME NEW a \in Actors, CallbackReturns(a)
    PROVE  NextTask
BY Zenon DEF NextTask

\* Every step is a step of the task runner or leaves it alone.
LEMMA TaskStep ==
    ASSUME inserted \in Nat, [Next]_vars
    PROVE  [NextTask]_taskVars
<1>0. validator \in Clients /\ owner \in Clients /\ main \in Clients /\ Clients \subseteq Actors
  BY Zenon, SignalsAssumption DEF Actors
<1>1. CASE UNCHANGED vars
  BY Zenon, <1>1 DEF vars
<1>2. ASSUME NEW a \in Actors, Call(a) PROVE [NextTask]_taskVars
  <2>1. CASE Inside(a)
    BY Zenon, <2>1 DEF Inside, NextTask
  <2>2. CASE SyncCallback(a)
    BY Zenon, <2>2, ReturnIsStep DEF SyncCallback
  <2>3. CASE BlockBegin(a)
    BY Zenon, <2>3, ReturnIsStep DEF BlockBegin
  <2>4. CASE BlockHandled(a)
    BY Zenon, <2>4, ReturnIsStep DEF BlockHandled
  <2> QED BY Zenon, <1>2, <2>1, <2>2, <2>3, <2>4 DEF Call, ExecuteCallback
<1>3. ASSUME NEW t \in Threads, Service(t) \/ (SpuriousWakeup(t) /\ UNCHANGED signals)
      PROVE  [NextTask]_taskVars
  BY Zenon, <1>2, <1>3 DEF Service, NextTask, Actors
<1>4. ASSUME NEW c \in Clients, SyncInsert(c) PROVE NextTask
  <2>1. Sync(c) \in Events
    BY Zenon, SignalsAssumption
  <2> QED BY Zenon, <1>4, <2>1, InsertIsCall DEF SyncInsert
<1>5. ASSUME NEW c \in Clients, NEW place, InsertBlock(c, place) PROVE NextTask
  <2>1. inserted + 1 \in 1 .. MaxBlocks + 2
    BY <1>5, SignalsAssumption DEF InsertBlock
  <2>2. Block(inserted + 1) \in Events
    BY Zenon, <2>1, SignalsAssumption
  <2> QED BY Zenon, <1>5, <2>2, InsertIsCall DEF InsertBlock
<1>6. CASE Validate
  BY Zenon, <1>0, <1>4, <1>5, <1>6
     DEF Validate, LimitQueue, SyncReturn, LockMain, DirectSignal
<1>7. CASE RegisterTemporary \/ Unload \/ RegisterPermanent
  BY Zenon, <1>0, <1>4, <1>7
     DEF RegisterTemporary, Unload, UnregisterTemporary, SyncReturn, RegisterPermanent
<1>8. CASE Shutdown
  <2>1. CASE StopScheduler
    BY Zenon, <1>0, <2>1 DEF StopScheduler, NextTask, CallerStep
  <2>2. CASE StopSchedulerNotify
    BY Zenon, <1>0, <2>2 DEF StopSchedulerNotify, NextTask, CallerStep
  <2>3. CASE FlushRound
    BY Zenon, <1>0, <2>3 DEF FlushRound, NextTask, CallerStep
  <2>4. CASE JoinScheduler \/ UnlockFlushed \/ UnregisterAllValidationInterfaces
    BY Zenon, <2>4 DEF JoinScheduler, UnlockFlushed, UnregisterAllValidationInterfaces
  <2>5. CASE FlushAgain
    <3>1. inserted + 1 \in 1 .. MaxBlocks + 2
      BY <2>5, SignalsAssumption DEF FlushAgain
    <3>2. Block(inserted + 1) \in Events
      BY Zenon, <3>1, SignalsAssumption
    <3> QED BY Zenon, <1>0, <2>5, <3>2, InsertIsCall DEF FlushAgain
  <2> QED BY Zenon, <1>0, <1>5, <1>8, <2>1, <2>2, <2>3, <2>4, <2>5 DEF Shutdown
<1>9. CASE TimePasses /\ UNCHANGED signals
  BY Zenon, <1>9 DEF NextTask
<1> QED BY Zenon, <1>0, <1>1, <1>2, <1>3, <1>6, <1>7, <1>8, <1>9 DEF Next

\* ValidationSignals with its callers is a client of the task runner.
THEOREM SignalsUseRunner == Spec => TaskSpec
<1>1. Init => inserted \in Nat /\ InitTasks
  BY DEF Init
<1>2. inserted \in Nat /\ [Next]_vars => (inserted \in Nat)'
  BY Zenon, InsertedNat
<1>3. inserted \in Nat /\ [Next]_vars => [NextTask]_taskVars
  BY Zenon, TaskStep
<1> QED BY <1>1, <1>2, <1>3, PTL DEF Spec, TaskSpec

\* Validation events are handled one at a time and in the order in which they were
\* queued, with any number of service threads, callers and events.
THEOREM SignalsImplementQueue == Spec => ImplementsQueue
BY SignalsUseRunner, RunnerImplementsQueue, PTL

\* No validation event is stranded in the queue (scheduler.cpp:132-174).
THEOREM SignalsNotStranded == Spec => []NotStranded
BY SignalsUseRunner, CallbacksNotStranded, PTL
-----------------------------------------------------------------------------
(* Who runs callbacks, and where the clients are. *)

Outside == {"client", "maybe", "schedule"}
Early   == {"starting", "running"}
Joined  == {"insert", "flushed", "drain", "drained", "again", "done"}
Late    == {"notify", "join"} \cup Joined
Steps   == Early \cup Late \cup {"limit", "sync", "wait", "lock", "direct",
                                 "unregistered", "registered"}

\* An actor has a callback exactly while it executes it; of the clients only main
\* executes any, in a round of the flush, after the threads have been joined.
PlacesInv ==
    /\ \A a \in Actors : pc[a] = "callback" <=> callback[a] # NoEvent
    /\ \A c \in Clients : pc[c] \in Outside \/ (c = main /\ step[main] = "drained")
    /\ step[main] \in Joined => \A t \in Threads : pc[t] = "exited"
    /\ step[main] = "done" => pc[main] = "client"

\* How far the clients can be from each other, and who has cs_main.
StepsInv ==
    /\ step \in [Clients -> Steps] /\ promise \in [Clients -> BOOLEAN]
    /\ inserted \in 0 .. MaxBlocks + 2
    /\ step[main] \in Early \cup Late
    /\ step[validator] \in {"limit", "sync", "wait", "lock", "insert", "direct"}
    /\ step[owner] \in {"unregistered", "registered", "sync", "wait"}
    /\ step[main] \in Late => step[validator] = "limit" /\ step[owner] = "unregistered"
    /\ step[main] = "starting" => /\ step[validator] = "limit" /\ inserted = 0
                                  /\ step[owner] \in {"unregistered", "registered"}
    /\ cs_main \in {Nobody, validator, main}
    /\ cs_main = validator <=> step[validator] \in {"insert", "direct"}

\* Everybody but a stays, except that waiting threads may be woken.
OthersStay(a) ==
    \A b \in Actors : b # a => pc'[b] = pc[b] \/ (pc[b] \in Waiting /\ pc'[b] \in {"woken", "late"})

\* The first pending callback is started, when there is none.
Begins(a) ==
    /\ m_callbacks_pending # <<>> /\ \A b \in Actors : callback[b] = NoEvent
    /\ callback' = [callback EXCEPT ![a] = Head(m_callbacks_pending)]
    /\ m_callbacks_pending' = Tail(m_callbacks_pending)

Calls == <<m_callbacks_pending, callback>>

\* A thread in serviceQueue, and time, leave the callbacks alone.
LEMMA ServiceMoves ==
    ASSUME TaskInv, NEW t \in Threads, ServiceStep(t) \/ SpuriousWakeup(t)
    PROVE  /\ OthersStay(t) /\ UNCHANGED Calls
           /\ pc[t] \in ThreadPC \ {"exited"}
           /\ pc'[t] \in ThreadPC \cup {"process"}
<1>0. pc \in [Actors -> PlaceSet] /\ t \in Actors
  BY Zenon DEF TaskInv, TaskTypeOK, Actors
<1>1. ASSUME NEW place \in PlaceSet, NotifyOne([pc EXCEPT ![t] = place])
      PROVE  OthersStay(t) /\ (pc'[t] = place \/ pc'[t] = "woken")
  <2>1. [pc EXCEPT ![t] = place] \in [Actors -> PlaceSet]
    BY Zenon, <1>0
  <2>2. \A a \in Actors : LET p == [pc EXCEPT ![t] = place]
                          IN pc'[a] = p[a] \/ (p[a] \in Waiting /\ pc'[a] = "woken")
    BY Zenon, <1>1, <2>1, NotifyOneWakes
  <2> QED BY Zenon, <1>0, <2>2 DEF OthersStay
<1>2. CASE ServiceExit(t)
  BY Zenon, <1>0, <1>1, <1>2 DEF ServiceExit, runner, Calls, PlaceSet, ThreadPC
<1>3. CASE Repeat(t)
  BY Zenon, <1>0, <1>1, <1>3 DEF Repeat, runner, Calls, PlaceSet, ThreadPC
<1>4. CASE ServiceWait(t)
  BY Zenon, <1>0, <1>4 DEF ServiceWait, Goto, OthersStay, runner, Calls, ThreadPC
<1>5. CASE ServiceTimeout(t)
  <2>1. taskQueue # <<>> => Head(taskQueue) \in Task
    BY DEF TaskInv, TaskTypeOK
  <2> QED BY Zenon, <1>0, <1>5, <2>1 DEF ServiceTimeout, Goto, OthersStay, runner, Calls, ThreadPC, Task
<1>6. CASE SpuriousWakeup(t)
  BY Zenon, <1>0, <1>6 DEF SpuriousWakeup, Goto, OthersStay, runner, Calls, ThreadPC
<1> QED BY Zenon, <1>2, <1>3, <1>4, <1>5, <1>6 DEF ServiceStep

\* A step of the runner leaves the callbacks alone or starts one.
LEMMA RunnerMoves ==
    ASSUME TaskInv, PlacesInv, NEW a \in Actors, RunnerStep(a)
    PROVE  /\ OthersStay(a)
           /\ pc[a] \in {"maybe", "schedule", "process", "finish"}
           /\ \/ UNCHANGED Calls /\ pc'[a] \in {Return(a), "schedule", "maybe"}
              \/ pc[a] = "process" /\ pc'[a] = "callback" /\ Begins(a)
<1>0. pc \in [Actors -> PlaceSet]
  BY Zenon DEF TaskInv, TaskTypeOK
<1>1. CASE MaybeScheduleProcessQueue(a)
  BY Zenon, <1>0, <1>1 DEF MaybeScheduleProcessQueue, Goto, OthersStay, runner, Calls
<1>2. CASE Schedule(a)
  <2> DEFINE p == [pc EXCEPT ![a] = Return(a)]
  <2>1. p \in [Actors -> PlaceSet]
    BY Zenon, <1>0 DEF Return, PlaceSet, ThreadPC, ActorPC
  <2>2. \A b \in Actors : pc'[b] = p[b] \/ (p[b] \in Waiting /\ pc'[b] = "woken")
    BY Zenon, <1>2, <2>1, NotifyOneWakes DEF Schedule
  <2>3. Return(a) \notin Waiting
    BY Zenon DEF Return, Waiting
  <2> QED BY Zenon, <1>0, <1>2, <2>2, <2>3 DEF Schedule, OthersStay, runner, Calls
<1>3. CASE ProcessQueue(a) /\ MayProcess
  <2>1. \A b \in Actors : pc[b] # "callback"
    BY Zenon, <1>3 DEF MayProcess, TaskInv, OneAtATime, Busy
  <2> QED BY Zenon, <1>0, <1>3, <2>1 DEF ProcessQueue, MayProcess, Goto, OthersStay, Begins, PlacesInv
<1>4. CASE ProcessQueue(a) /\ ~MayProcess
  BY Zenon, <1>0, <1>4 DEF ProcessQueue, Goto, OthersStay, runner, Calls
<1>5. CASE CallbacksNotRunning(a)
  BY Zenon, <1>0, <1>5 DEF CallbacksNotRunning, AfterCallback, Goto, OthersStay, runner, Calls
<1> QED BY Zenon, <1>1, <1>2, <1>3, <1>4, <1>5 DEF RunnerStep

\* The three named clients.
LEMMA ThreeClients ==
    /\ validator \in Clients /\ owner \in Clients /\ main \in Clients
    /\ Clients \subseteq Actors /\ Threads \subseteq Actors
    /\ Nobody # validator /\ Nobody # main /\ Nobody \notin Actors
    /\ validator # owner /\ owner # main /\ main # validator
BY Zenon, SignalsAssumption DEF Actors

\* The clients keep their order: the validator validates while main is running, and
\* cs_main is the validator's from LockMain to the end of its direct signals
\* (ActivateBestChain, validation.cpp).
LEMMA StepsKept ==
    ASSUME StepsInv, [Next]_vars
    PROVE  StepsInv'
<1> USE ThreeClients
<1>1. CASE UNCHANGED signals \/ UNCHANGED vars
  BY Zenon, <1>1 DEF signals, vars, StepsInv
<1>2. ASSUME NEW a \in Actors, SyncCallback(a)
      PROVE  StepsInv'
  BY Zenon, <1>2 DEF SyncCallback, StepsInv
<1>3. ASSUME NEW a \in Actors, BlockBegin(a) \/ BlockHandled(a)
      PROVE  StepsInv'
  BY Zenon, <1>3 DEF BlockBegin, BlockHandled, StepsInv
<1>4. CASE LimitQueue
  BY Zenon, <1>4 DEF LimitQueue, At, Step, StepsInv, Early, Late, Joined, Steps
<1>5. CASE LockMain
  BY Zenon, <1>5 DEF LockMain, At, Step, StepsInv, Early, Late, Joined, Steps
<1>6. CASE SyncInsert(validator) \/ SyncReturn(validator, "lock")
  BY Zenon, <1>6 DEF SyncInsert, SyncReturn, At, Step, StepsInv, Early, Late, Joined, Steps
<1>7. CASE SyncInsert(owner) \/ SyncReturn(owner, "unregistered")
  BY Zenon, <1>7 DEF SyncInsert, SyncReturn, At, Step, StepsInv, Early, Late, Joined, Steps
<1>8. CASE InsertBlock(validator, "direct") \/ InsertBlock(main, "flushed") \/ FlushAgain
  <2>1. inserted' \in 0 .. MaxBlocks + 2
    BY <1>8, SignalsAssumption DEF InsertBlock, FlushAgain, StepsInv
  <2> QED BY Zenon, <1>8, <2>1 DEF InsertBlock, FlushAgain, At, Step, StepsInv, Early, Late, Joined, Steps
<1>9. CASE DirectSignal
  BY Zenon, <1>9 DEF DirectSignal, At, Step, StepsInv, Early, Late, Joined, Steps
<1>10. CASE RegisterTemporary \/ UnregisterTemporary
  BY Zenon, <1>10 DEF RegisterTemporary, UnregisterTemporary, At, Step, StepsInv, Early, Late, Joined, Steps
<1>11. CASE RegisterPermanent \/ StopScheduler
  BY <1>11 DEF RegisterPermanent, StopScheduler, At, Step, StepsInv, Early, Late, Joined, Steps
<1>12. CASE StopSchedulerNotify \/ JoinScheduler
  BY Zenon, <1>12 DEF StopSchedulerNotify, JoinScheduler, At, Step, StepsInv, Early, Late, Joined, Steps
<1>13. CASE UnlockFlushed \/ FlushRound \/ UnregisterAllValidationInterfaces
  BY Zenon, <1>13 DEF UnlockFlushed, FlushRound, UnregisterAllValidationInterfaces, At, Step, StepsInv,
               Early, Late, Joined, Steps
<1> QED
  BY Zenon, <1>1, <1>2, <1>3, <1>4, <1>5, <1>6, <1>7, <1>8, <1>9, <1>10, <1>11, <1>12, <1>13
     DEF Next, Service, Call, Inside, ExecuteCallback, Validate, Unload, Shutdown, Actors

\* The places of the clients and threads follow.
LEMMA PlacesKept ==
    ASSUME TaskInv, StepsInv, PlacesInv, [Next]_vars
    PROVE  PlacesInv'
<1> USE ThreeClients
<1>0. pc \in [Actors -> PlaceSet] /\ callback \in [Actors -> Events \cup {NoEvent}]
  BY Zenon DEF TaskInv, TaskTypeOK
<1>1. CASE UNCHANGED vars
  BY Zenon, <1>1 DEF vars, taskVars, runner, signals, PlacesInv
<1>2. ASSUME NEW t \in Threads, ServiceStep(t) \/ SpuriousWakeup(t), UNCHANGED signals
      PROVE  PlacesInv'
  <2>1. /\ OthersStay(t) /\ UNCHANGED Calls /\ pc[t] \in ThreadPC \ {"exited"}
        /\ pc'[t] \in ThreadPC \cup {"process"}
    BY Zenon, <1>2, ServiceMoves
  <2>2. step[main] \notin Joined
    BY Zenon, <2>1 DEF PlacesInv
  <2> QED BY Zenon, <1>0, <1>2, <2>1, <2>2, TaskRunnerAssumption
             DEF PlacesInv, OthersStay, Calls, ThreadPC, Waiting, Outside, signals, Joined, Actors
<1>3. ASSUME NEW a \in Actors, RunnerStep(a), UNCHANGED signals
      PROVE  PlacesInv'
  <2>1. /\ OthersStay(a) /\ pc[a] \in {"maybe", "schedule", "process", "finish"}
        /\ \/ UNCHANGED Calls /\ pc'[a] \in {Return(a), "schedule", "maybe"}
           \/ pc[a] = "process" /\ pc'[a] = "callback" /\ Begins(a)
    BY Zenon, <1>3, RunnerMoves
  <2>2. step' = step
    BY Zenon, <1>3 DEF signals
  <2>3. \A b \in Actors : pc'[b] = "callback" <=> callback'[b] # NoEvent
    <3>1. m_callbacks_pending # <<>> => Head(m_callbacks_pending) # NoEvent
      BY TaskRunnerAssumption DEF TaskInv, TaskTypeOK
    <3> QED BY Zenon, <1>0, <2>1, <3>1 DEF PlacesInv, OthersStay, Calls, Begins, Return, Waiting
  <2> QED BY <1>0, <2>1, <2>2, <2>3, TaskRunnerAssumption
             DEF PlacesInv, OthersStay, Calls, Begins, Return, Waiting, Outside, Joined, Actors
<1>4. CASE TimePasses /\ UNCHANGED signals
  BY Zenon, <1>0, <1>4 DEF TimePasses, PlacesInv, runner, signals, Outside
<1>5. ASSUME NEW a \in Actors, CallbackReturns(a), UNCHANGED step
      PROVE  PlacesInv'
  BY Zenon, <1>0, <1>5, TaskRunnerAssumption DEF CallbackReturns, Goto, PlacesInv, Outside, Actors
<1>6. ASSUME NEW a \in Actors, SyncCallback(a) \/ BlockBegin(a) \/ BlockHandled(a)
      PROVE  PlacesInv'
  BY Zenon, <1>5, <1>6 DEF SyncCallback, BlockBegin, BlockHandled, taskVars, runner, PlacesInv
<1>7. ASSUME NEW c \in {validator, owner, main}, NEW place \in Steps, NEW e,
             \/ (At(c, "sync") \/ At(c, "insert")) /\ (c # main \/ place = "flushed")
             \/ At(c, "drained") /\ c = main /\ place = "again",
             InsertCallback(c, e), Step(c, place)
      PROVE  PlacesInv'
  <2>1. step'[main] # "done" /\ (step'[main] \in Joined <=> step[main] \in Joined)
    BY Zenon, <1>7 DEF At, Step, StepsInv, Early, Late, Joined
  <2>2. c \in Actors /\ pc[c] = "client" /\ pc' = [pc EXCEPT ![c] = "maybe"] /\ callback' = callback
    BY Zenon, <1>7 DEF InsertCallback, Goto
  <2>3. step'[main] = "drained" <=> step[main] = "drained" /\ c # main
    BY Zenon, <1>7 DEF At, Step, StepsInv, Early, Late, Joined
  <2> QED BY Zenon, <1>0, <2>1, <2>2, <2>3, TaskRunnerAssumption DEF PlacesInv, Outside
<1>8. CASE \/ SyncInsert(validator) \/ SyncInsert(owner)
           \/ InsertBlock(validator, "direct") \/ InsertBlock(main, "flushed") \/ FlushAgain
  BY Zenon, <1>7, <1>8 DEF SyncInsert, InsertBlock, FlushAgain, Steps, Joined, Late
<1>9. ASSUME UNCHANGED taskVars, step' = step \/ \E c \in Clients \ {main} : \E p : Step(c, p)
      PROVE  PlacesInv'
  <2>1. step'[main] = step[main]
    BY Zenon, <1>9 DEF Step, StepsInv
  <2> QED BY Zenon, <1>9, <2>1 DEF PlacesInv, taskVars, runner
<1>10. CASE LimitQueue \/ LockMain \/ DirectSignal
  <2>1. step' = step \/ \E p : Step(validator, p)
    BY Zenon, <1>10 DEF LimitQueue, LockMain, DirectSignal
  <2>2. UNCHANGED taskVars
    BY Zenon, <1>10 DEF LimitQueue, LockMain, DirectSignal
  <2> QED BY Zenon, <1>9, <2>1, <2>2
<1>11. CASE SyncReturn(validator, "lock") \/ SyncReturn(owner, "unregistered")
  BY Zenon, <1>9, <1>11 DEF SyncReturn
<1>12. CASE RegisterTemporary \/ UnregisterTemporary
  BY Zenon, <1>9, <1>12 DEF RegisterTemporary, UnregisterTemporary
<1>13. CASE RegisterPermanent \/ JoinScheduler \/ UnlockFlushed
  BY Zenon, <1>13 DEF RegisterPermanent, JoinScheduler, UnlockFlushed, At, Step, StepsInv, PlacesInv,
               Joined, taskVars, runner
<1>14. CASE UnregisterAllValidationInterfaces
  BY Zenon, <1>14 DEF UnregisterAllValidationInterfaces, At, Step, StepsInv, PlacesInv, Joined, taskVars,
               runner, Outside
<1>15. CASE StopScheduler
  BY Zenon, <1>15 DEF StopScheduler, StopRequest, At, Step, StepsInv, PlacesInv, Joined, runner
<1>16. CASE StopSchedulerNotify
  BY Zenon, <1>0, <1>16 DEF StopSchedulerNotify, StopNotify, At, Step, StepsInv, PlacesInv, Joined, runner,
               Outside, Waiting
<1>17. CASE FlushRound
  BY Zenon, <1>0, <1>17, TaskRunnerAssumption
     DEF FlushRound, Flush, Goto, At, Step, StepsInv, PlacesInv, Joined, runner, Outside,
         AreThreadsServicingQueue, Actors
<1> QED
  BY Zenon, <1>1, <1>2, <1>3, <1>4, <1>6, <1>8, <1>10, <1>11, <1>12, <1>13, <1>14, <1>15, <1>16, <1>17
     DEF Next, Service, Call, Inside, ExecuteCallback, Validate, Unload, Shutdown, Actors
-----------------------------------------------------------------------------
(* The steps, as the subscribers see them. *)

BlockNumbers == 1 .. MaxBlocks + 2

\* The two kinds of callbacks are told apart, and so are two of a kind.
LEMMA EventKinds ==
    /\ \A e \in Events : \/ \E n \in BlockNumbers : e = Block(n)
                         \/ \E c \in Clients : e = Sync(c)
    /\ \A n \in BlockNumbers : n \in Nat /\ Block(n) \in Events /\ Block(n) # NoEvent
    /\ \A c \in Clients : Sync(c) \in Events /\ Sync(c) # NoEvent
    /\ \A m, n : Block(m) = Block(n) => m = n
    /\ \A c, d : Sync(c) = Sync(d) => c = d
    /\ \A n, c : Block(n) # Sync(c)
    /\ \A n : Block(n).type = "block" /\ Block(n).n = n
    /\ \A c : Sync(c).type = "sync" /\ Sync(c).caller = c
<1>1. /\ \A n : Block(n).type = "block" /\ Block(n).n = n
      /\ \A c : Sync(c).type = "sync" /\ Sync(c).caller = c
  BY Zenon DEF Block, Sync
<1>2. Events = {Block(n) : n \in BlockNumbers} \cup {Sync(c) : c \in Clients}
  BY Zenon, SignalsAssumption DEF BlockNumbers
<1>3. \A n \in BlockNumbers : n \in Nat
  BY SignalsAssumption DEF BlockNumbers
<1>4. /\ \A m, n : Block(m) = Block(n) => m = n
      /\ \A c, d : Sync(c) = Sync(d) => c = d
      /\ \A n, c : Block(n) # Sync(c)
  BY <1>1
<1> QED BY Zenon, <1>1, <1>2, <1>3, <1>4, TaskRunnerAssumption

\* One callback at a time, on a thread or on main.
LEMMA CallbackFacts ==
    ASSUME TaskInv, PlacesInv
    PROVE  /\ callback \in [Actors -> Events \cup {NoEvent}]
           /\ m_callbacks_pending \in Seq(Events)
           /\ \A a, b \in Actors : callback[a] # NoEvent /\ callback[b] # NoEvent => a = b
           /\ \A c \in Clients : callback[c] # NoEvent => c = main /\ step[main] = "drained"
           /\ \A t \in Threads : callback[t] # NoEvent => step[main] \notin Joined
<1>1. \A a, b \in Actors : callback[a] # NoEvent /\ callback[b] # NoEvent => a = b
  BY Zenon DEF TaskInv, OneAtATime, Busy, PlacesInv
<1>2. \A c \in Clients : callback[c] # NoEvent => c = main /\ step[main] = "drained"
  BY Zenon, ThreeClients DEF PlacesInv, Outside
<1>3. \A t \in Threads : callback[t] # NoEvent => step[main] \notin Joined
  BY Zenon, ThreeClients DEF PlacesInv
<1> QED BY Zenon, <1>1, <1>2, <1>3 DEF TaskInv, TaskTypeOK

\* The event that a is handling.
LEMMA BlockOf ==
    ASSUME TaskInv, PlacesInv, NEW a \in Actors, BlockBegin(a) \/ BlockHandled(a)
    PROVE  \E n \in BlockNumbers : callback[a] = Block(n)
<1>1. callback[a] \in Events /\ callback[a].type = "block"
  BY Zenon, CallbackFacts DEF BlockBegin, BlockHandled, PlacesInv
<1> QED BY Zenon, <1>1, EventKinds

Marked == {"starting", "again", "done", "direct", "wait"}

\* A step that neither the list nor the queued callbacks take part in.
Quiet ==
    /\ UNCHANGED <<Calls, list, iterator, promise, inserted, delivered>>
    /\ step'[owner] = step[owner]
    /\ \A c \in Clients, p \in Marked : step'[c] = p <=> step[c] = p

\* Steps of the task runner and of the clients that only change the place of one.
LEMMA QuietSteps ==
    ASSUME TaskInv, PlacesInv, StepsInv
    PROVE  [Next]_vars =>
                \/ Quiet
                \/ \E a \in Actors : Begins(a) /\ UNCHANGED signals
                \/ \E a \in Actors : SyncCallback(a) \/ BlockBegin(a) \/ BlockHandled(a)
                \/ SyncInsert(validator) \/ SyncReturn(validator, "lock")
                \/ SyncInsert(owner) \/ SyncReturn(owner, "unregistered")
                \/ InsertBlock(validator, "direct") \/ InsertBlock(main, "flushed")
                \/ DirectSignal \/ RegisterTemporary \/ UnregisterTemporary
                \/ RegisterPermanent \/ FlushAgain \/ UnregisterAllValidationInterfaces
<1> USE ThreeClients
<1>1. ASSUME UNCHANGED Calls, UNCHANGED signals PROVE Quiet
  BY Zenon, <1>1 DEF signals, Quiet
<1>2. CASE UNCHANGED vars
  BY Zenon, <1>1, <1>2 DEF vars, taskVars, runner, Calls
<1>3. ASSUME NEW t \in Threads, ServiceStep(t) \/ SpuriousWakeup(t), UNCHANGED signals
      PROVE  Quiet
  BY Zenon, <1>1, <1>3, ServiceMoves
<1>4. ASSUME NEW a \in Actors, RunnerStep(a), UNCHANGED signals
      PROVE  Quiet \/ (Begins(a) /\ UNCHANGED signals)
  BY Zenon, <1>1, <1>4, RunnerMoves
<1>5. CASE TimePasses /\ UNCHANGED signals
  BY Zenon, <1>1, <1>5 DEF TimePasses, runner, Calls
<1>6. CASE LimitQueue
  BY Zenon, <1>6 DEF LimitQueue, At, Step, StepsInv, Quiet, Marked, Calls, taskVars, runner
<1>7. CASE LockMain
  BY Zenon, <1>7 DEF LockMain, At, Step, StepsInv, Quiet, Marked, Calls, taskVars, runner
<1>8. CASE StopScheduler \/ StopSchedulerNotify
  BY Zenon, <1>8 DEF StopScheduler, StopSchedulerNotify, StopRequest, StopNotify, At, Step, StepsInv, Quiet,
              Marked, Calls, runner
<1>9. CASE JoinScheduler \/ UnlockFlushed
  BY Zenon, <1>9 DEF JoinScheduler, UnlockFlushed, At, Step, StepsInv, Quiet, Marked, Calls, taskVars, runner
<1>10. CASE FlushRound
  BY Zenon, <1>10 DEF FlushRound, Flush, At, Step, StepsInv, Quiet, Marked, Calls, runner
<1> QED
  BY Zenon, <1>2, <1>3, <1>4, <1>5, <1>6, <1>7, <1>8, <1>9, <1>10
     DEF Next, Service, Call, Inside, ExecuteCallback, Validate, Unload, Shutdown, Actors
-----------------------------------------------------------------------------
(* The list of entries. *)

Executors(e) == {a \in Actors : iterator[a] = e}
IsRegistered(e) == \E s \in Subscribers : m_map[s] = e

ListTypeOK ==
    /\ m_list \subseteq Entries
    /\ m_map \in [Subscribers -> Entries \cup {NoEntry}]
    /\ count \in [Entries -> Nat]
    /\ subscriber \in [Entries -> Subscribers \cup {Nobody}]
    /\ iterator \in [Actors -> Entries \cup {NoEntry}]

\* An entry is counted once for each actor executing it and once for its
\* registration, and is in the list as long as it is counted.
EntriesInv ==
    /\ \A s \in Subscribers : m_map[s] # NoEntry => subscriber[m_map[s]] = s
    /\ \A e \in Entries :
         /\ IsFiniteSet(Executors(e))
         /\ count[e] = Cardinality(Executors(e)) + (IF IsRegistered(e) THEN 1 ELSE 0)
         /\ e \in m_list <=> count[e] > 0
         /\ e \in m_list <=> Executors(e) # {} \/ IsRegistered(e)
         /\ subscriber[e] = Nobody => e \notin m_list

\* A fact about numbers rather than about the state, proved below where the
\* library's theorems on well-founded relations are brought in; it stands in the
\* invariant so that the lemmas before that point do without them.
EntriesOrdered ==
    \A T \in SUBSET Entries : T # {} => \E e \in T : \A f \in T : e <= f

ListInv == ListTypeOK /\ EntriesInv /\ EntriesOrdered

\* A set of entries has a first one.
LEMMA FirstOf ==
    ASSUME EntriesOrdered, NEW T \in SUBSET Entries
    PROVE  IF T = {} THEN First(T) = NoEntry ELSE First(T) \in T /\ \A f \in T : First(T) <= f
BY Zenon DEF First, EntriesOrdered

\* std::next: the first of the entries behind e, if there is one.
LEMMA FollowingOf ==
    ASSUME EntriesOrdered, ListTypeOK, NEW e \in Entries
    PROVE  IF \A f \in m_list : f <= e THEN Following(e) = NoEntry
           ELSE /\ Following(e) \in m_list /\ Following(e) > e
                /\ \A f \in m_list : f > e => Following(e) <= f
<1> DEFINE T == {f \in m_list : f > e}
<1>0. m_list \subseteq Entries /\ Entries \subseteq Int
  BY SignalsAssumption DEF ListTypeOK, Entries
<1>1. T \in SUBSET Entries /\ e \in Int /\ \A f \in m_list : f \in Int
  BY Zenon, <1>0
<1>2. IF T = {} THEN First(T) = NoEntry ELSE First(T) \in T /\ \A f \in T : First(T) <= f
  BY Zenon, <1>1, FirstOf
<1>3. Following(e) = First(T)
  BY Zenon DEF Following
<1>4. \A f \in m_list : f <= e <=> f \notin T
  BY <1>1
<1> QED BY Zenon, <1>2, <1>3, <1>4

\* Who executes entries, and who is registered: the permanent subscriber while the
\* node runs, with one entry, and the temporary one until its owner unregisters it.
SubscribersInv ==
    /\ \A a \in Actors : iterator[a] # NoEntry =>
         \/ \E n \in BlockNumbers : callback[a] = Block(n)
         \/ a = validator /\ step[validator] = "direct"
    /\ m_map[Permanent] # NoEntry <=> step[main] \notin {"starting", "done"}
    /\ step[owner] # "registered" => m_map[Temporary] = NoEntry
    /\ \A e \in Entries : subscriber[e] = Permanent => step[main] = "done" \/ m_map[Permanent] = e

Inv1 == TaskInv /\ PlacesInv /\ StepsInv /\ ListInv /\ SubscribersInv

\* The entries that are executed or registered are in the list, and no others are.
LEMMA InList ==
    ASSUME ListInv
    PROVE  /\ \A a \in Actors : iterator[a] # NoEntry => iterator[a] \in m_list
           /\ \A s \in Subscribers : m_map[s] # NoEntry => m_map[s] \in m_list /\ subscriber[m_map[s]] = s
           /\ \A e \in m_list : /\ e \in Entries /\ subscriber[e] \in Subscribers
                                /\ m_map[subscriber[e]] = e \/ \E a \in Actors : iterator[a] = e
<1>1. NoEntry \notin Entries
  BY SignalsAssumption DEF NoEntry, Entries
<1>2. \A a \in Actors : iterator[a] # NoEntry => iterator[a] \in m_list
  BY Zenon DEF ListInv, ListTypeOK, EntriesInv, Executors
<1>3. \A s \in Subscribers : m_map[s] # NoEntry => m_map[s] \in m_list /\ subscriber[m_map[s]] = s
  BY DEF ListInv, ListTypeOK, EntriesInv, IsRegistered
<1>4. ASSUME NEW e \in m_list
      PROVE  /\ e \in Entries /\ subscriber[e] \in Subscribers
             /\ m_map[subscriber[e]] = e \/ \E a \in Actors : iterator[a] = e
  <2>1. e \in Entries /\ subscriber[e] \in Subscribers
    BY Zenon, <1>4 DEF ListInv, ListTypeOK, EntriesInv
  <2>2. Executors(e) # {} \/ IsRegistered(e)
    BY Zenon, <1>4, <2>1 DEF ListInv, EntriesInv
  <2> QED BY <1>1, <2>1, <2>2 DEF Executors, IsRegistered, ListInv, EntriesInv
<1> QED BY Zenon, <1>2, <1>3, <1>4

\* What one step of Iterate does to the list.
LEMMA IterateFacts ==
    ASSUME ListInv, NEW a \in Actors, IterateBegin(a) \/ IterateNext(a)
    PROVE  /\ iterator' = [iterator EXCEPT ![a] = iterator'[a]]
           /\ m_map' = m_map /\ subscriber' = subscriber
           /\ m_list' \subseteq m_list
           /\ iterator'[a] # NoEntry => /\ iterator'[a] \in m_list /\ iterator'[a] > iterator[a]
                                        /\ \A f \in m_list : f > iterator[a] => iterator'[a] <= f
           /\ iterator'[a] = NoEntry => \A f \in m_list : f <= iterator[a]
<1>0. /\ m_list \in SUBSET Entries /\ NoEntry = 0 /\ \A e \in Entries : e \in Int /\ e > 0
      /\ iterator \in [Actors -> Entries \cup {NoEntry}]
  BY SignalsAssumption DEF ListInv, ListTypeOK, NoEntry, Entries
<1>1. CASE IterateBegin(a)
  <2>1. /\ iterator[a] = NoEntry /\ iterator' = [iterator EXCEPT ![a] = First(m_list)]
        /\ m_list' = m_list /\ m_map' = m_map /\ subscriber' = subscriber
    BY Zenon, <1>1 DEF IterateBegin
  <2>2. iterator'[a] = First(m_list)
    BY Zenon, <1>0, <2>1
  <2>3. IF m_list = {} THEN First(m_list) = NoEntry
        ELSE First(m_list) \in m_list /\ \A f \in m_list : First(m_list) <= f
    BY Zenon, <1>0, FirstOf DEF ListInv
  <2> QED BY <1>0, <2>1, <2>2, <2>3
<1>2. CASE IterateNext(a)
  <2>1. /\ iterator[a] # NoEntry /\ iterator' = [iterator EXCEPT ![a] = Following(iterator[a])]
        /\ m_list' \subseteq m_list /\ m_map' = m_map /\ subscriber' = subscriber
    BY Zenon, <1>2 DEF IterateNext, NextEntry
  <2>2. iterator'[a] = Following(iterator[a]) /\ iterator[a] \in Entries
    BY Zenon, <1>0, <2>1
  <2>3. IF \A f \in m_list : f <= iterator[a] THEN Following(iterator[a]) = NoEntry
        ELSE /\ Following(iterator[a]) \in m_list /\ Following(iterator[a]) > iterator[a]
             /\ \A f \in m_list : f > iterator[a] => Following(iterator[a]) <= f
    BY Zenon, <2>2, FollowingOf DEF ListInv
  <2> QED BY <1>0, <2>1, <2>2, <2>3
<1> QED BY Zenon, <1>1, <1>2

\* Only those two kinds of actors execute entries, and registrations follow the
\* places of main and of the owner (AppInitMain and Shutdown, init.cpp).
LEMMA SubscribersKept ==
    ASSUME Inv1, [Next]_vars
    PROVE  SubscribersInv'
<1> USE ThreeClients
<1>0. /\ callback \in [Actors -> Events \cup {NoEvent}] /\ m_callbacks_pending \in Seq(Events)
      /\ \A a, b \in Actors : callback[a] # NoEvent /\ callback[b] # NoEvent => a = b
      /\ \A c \in Clients : callback[c] # NoEvent => c = main /\ step[main] = "drained"
  BY Zenon, CallbackFacts DEF Inv1
<1>1. CASE Quiet
  BY Zenon, <1>1 DEF Quiet, Marked, Calls, list, Inv1, SubscribersInv
<1>2. ASSUME NEW a \in Actors, Begins(a), UNCHANGED signals
      PROVE  SubscribersInv'
  BY <1>0, <1>2, EventKinds DEF Begins, signals, list, Inv1, SubscribersInv
<1>3. ASSUME NEW a \in Actors, SyncCallback(a)
      PROVE  SubscribersInv'
  <2>1. /\ callback' = [callback EXCEPT ![a] = NoEvent] /\ pc[a] = "callback"
        /\ UNCHANGED <<list, iterator, step>> /\ callback[a].type = "sync"
    BY Zenon, <1>3 DEF SyncCallback, CallbackReturns
  <2>2. a # validator
    BY Zenon, <2>1 DEF Inv1, PlacesInv, Outside
  <2>3. iterator[a] = NoEntry
    BY Zenon, <2>1, <2>2, EventKinds DEF Inv1, SubscribersInv
  <2> QED BY Zenon, <1>0, <2>1, <2>3 DEF Inv1, SubscribersInv, list
<1>4. ASSUME NEW a \in Actors, BlockBegin(a) \/ BlockHandled(a)
      PROVE  SubscribersInv'
  <2>1. /\ callback[a].type = "block" /\ pc[a] = "callback" /\ step' = step
        /\ IterateBegin(a) \/ IterateNext(a)
        /\ IF iterator'[a] = NoEntry THEN callback' = [callback EXCEPT ![a] = NoEvent]
           ELSE callback' = callback
    BY Zenon, <1>4 DEF BlockBegin, BlockHandled, CallbackReturns, taskVars, runner
  <2>2. \E n \in BlockNumbers : callback[a] = Block(n)
    <3>1. callback[a] \in Events
      BY Zenon, <1>0, <2>1 DEF Inv1, PlacesInv
    <3> QED BY Zenon, <2>1, <3>1, EventKinds
  <2>3. /\ iterator' = [iterator EXCEPT ![a] = iterator'[a]] /\ m_map' = m_map
        /\ subscriber' = subscriber
    BY Zenon, <2>1, IterateFacts DEF Inv1
  <2>4. \A b \in Actors : iterator'[b] # NoEntry =>
             \/ \E n \in BlockNumbers : callback'[b] = Block(n)
             \/ b = validator /\ step'[validator] = "direct"
    <3>1. ASSUME NEW b \in Actors, b # a PROVE iterator'[b] = iterator[b]
      BY Zenon, <2>3, <3>1 DEF Inv1, ListInv, ListTypeOK
    <3>2. ASSUME NEW b \in Actors, b # a PROVE callback'[b] = callback[b]
      BY Zenon, <1>0, <2>1, <3>2
    <3>3. iterator'[a] # NoEntry => callback'[a] = callback[a]
      BY Zenon, <2>1
    <3> QED BY Zenon, <2>1, <2>2, <3>1, <3>2, <3>3 DEF Inv1, SubscribersInv
  <2> QED BY Zenon, <2>1, <2>3, <2>4 DEF Inv1, SubscribersInv
<1>5. CASE DirectSignal
  <2>1. /\ IterateBegin(validator) \/ IterateNext(validator)
        /\ step[validator] = "direct" /\ callback' = callback
        /\ IF iterator'[validator] = NoEntry THEN step' = [step EXCEPT ![validator] = "limit"]
           ELSE step' = step
    BY Zenon, <1>5 DEF DirectSignal, Step, At, taskVars, runner
  <2>2. /\ iterator' = [iterator EXCEPT ![validator] = iterator'[validator]] /\ m_map' = m_map
        /\ subscriber' = subscriber
    BY Zenon, <2>1, IterateFacts DEF Inv1
  <2>3. \A a \in Actors : iterator'[a] # NoEntry =>
             \/ \E n \in BlockNumbers : callback'[a] = Block(n)
             \/ a = validator /\ step'[validator] = "direct"
    BY Zenon, <1>5, <2>1, <2>2 DEF Inv1, SubscribersInv, ListInv, ListTypeOK, DirectSignal, At
  <2> QED BY Zenon, <2>1, <2>2, <2>3 DEF Inv1, SubscribersInv, StepsInv
<1>6. CASE SyncInsert(validator) \/ SyncReturn(validator, "lock") \/ InsertBlock(validator, "direct")
  <2>1. CASE SyncInsert(validator)
    BY Zenon, <2>1 DEF SyncInsert, InsertCallback, At, Step, list, Inv1, SubscribersInv, StepsInv
  <2>2. CASE SyncReturn(validator, "lock")
    BY Zenon, <2>2 DEF SyncReturn, At, Step, taskVars, runner, list, Inv1, SubscribersInv, StepsInv
  <2>3. CASE InsertBlock(validator, "direct")
    BY Zenon, <2>3 DEF InsertBlock, InsertCallback, At, Step, list, Inv1, SubscribersInv, StepsInv
  <2> QED BY Zenon, <1>6, <2>1, <2>2, <2>3
<1>7. CASE \/ SyncInsert(owner) \/ SyncReturn(owner, "unregistered")
           \/ InsertBlock(main, "flushed") \/ FlushAgain
  <2>1. CASE SyncInsert(owner)
    BY Zenon, <2>1 DEF SyncInsert, InsertCallback, At, Step, list, Inv1, SubscribersInv, StepsInv
  <2>2. CASE SyncReturn(owner, "unregistered")
    BY Zenon, <2>2 DEF SyncReturn, At, Step, taskVars, runner, list, Inv1, SubscribersInv, StepsInv
  <2>3. CASE InsertBlock(main, "flushed")
    BY Zenon, <2>3 DEF InsertBlock, InsertCallback, At, Step, list, Inv1, SubscribersInv, StepsInv
  <2>4. CASE FlushAgain
    BY Zenon, <2>4 DEF FlushAgain, InsertCallback, At, Step, list, Inv1, SubscribersInv, StepsInv
  <2> QED BY Zenon, <1>7, <2>1, <2>2, <2>3, <2>4
<1>8. ASSUME NEW s \in Subscribers, m_map[s] = NoEntry, Register(s)
      PROVE  \E e \in Entries : /\ subscriber[e] = Nobody /\ m_list' = m_list \cup {e}
                                /\ m_map' = [m_map EXCEPT ![s] = e]
                                /\ subscriber' = [subscriber EXCEPT ![e] = s]
  BY Zenon, <1>8 DEF Register
<1>9. Permanent # Temporary /\ {Permanent, Temporary} = Subscribers /\ Nobody \notin Subscribers
      /\ NoEntry \notin Entries
  BY SignalsAssumption DEF Subscribers, NoEntry, Entries
<1>10. CASE RegisterTemporary
  <2>1. PICK e \in Entries : /\ subscriber[e] = Nobody
                             /\ m_map' = [m_map EXCEPT ![Temporary] = e]
                             /\ subscriber' = [subscriber EXCEPT ![e] = Temporary]
    BY Zenon, <1>8, <1>9, <1>10 DEF RegisterTemporary, At, Inv1, SubscribersInv
  <2>2. step' = [step EXCEPT ![owner] = "registered"] /\ iterator' = iterator /\ callback' = callback
    BY Zenon, <1>10 DEF RegisterTemporary, Step, taskVars, runner
  <2> QED BY Zenon, <1>9, <2>1, <2>2 DEF Inv1, SubscribersInv, StepsInv, ListInv, ListTypeOK
<1>11. CASE RegisterPermanent
  <2>1. PICK e \in Entries : /\ subscriber[e] = Nobody
                             /\ m_map' = [m_map EXCEPT ![Permanent] = e]
                             /\ subscriber' = [subscriber EXCEPT ![e] = Permanent]
    BY Zenon, <1>8, <1>9, <1>11 DEF RegisterPermanent, At, Inv1, SubscribersInv
  <2>2. /\ step' = [step EXCEPT ![main] = "running"] /\ step[main] = "starting"
        /\ iterator' = iterator /\ callback' = callback
    BY Zenon, <1>11 DEF RegisterPermanent, At, Step, taskVars, runner
  <2> QED BY Zenon, <1>9, <2>1, <2>2 DEF Inv1, SubscribersInv, StepsInv, ListInv, ListTypeOK
<1>12. CASE UnregisterTemporary
  <2>1. /\ m_map' = [s \in Subscribers |-> IF s = Temporary THEN NoEntry ELSE m_map[s]]
        /\ subscriber' = subscriber /\ step' = [step EXCEPT ![owner] = "sync"]
        /\ iterator' = iterator /\ callback' = callback
    BY Zenon, <1>12 DEF UnregisterTemporary, UnregisterAll, Step, taskVars, runner
  <2> QED BY Zenon, <1>9, <2>1 DEF Inv1, SubscribersInv, StepsInv, ListInv, ListTypeOK
<1>13. CASE UnregisterAllValidationInterfaces
  <2>1. /\ m_map' = [s \in Subscribers |-> NoEntry]
        /\ subscriber' = subscriber /\ step' = [step EXCEPT ![main] = "done"]
        /\ iterator' = iterator /\ callback' = callback
    BY Zenon, <1>13 DEF UnregisterAllValidationInterfaces, UnregisterAll, Step, taskVars, runner
  <2> QED BY Zenon, <1>9, <2>1 DEF Inv1, SubscribersInv, StepsInv
<1> QED
  BY Zenon, <1>1, <1>2, <1>3, <1>4, <1>5, <1>6, <1>7, <1>10, <1>11, <1>12, <1>13, QuietSteps DEF Inv1

-----------------------------------------------------------------------------
(* SyncWithValidationInterfaceQueue. *)

Runs(e)   == \E a \in Actors : callback[a] = e
Index     == 1..Len(m_callbacks_pending)
Queued(e) == \E i \in Index : m_callbacks_pending[i] = e

\* A caller that waits has its function in the queue once, or running, or its
\* promise is set; and the event queued before a direct signal cannot be finished
\* before the signal, since its handling needs cs_main.
SyncInv ==
    /\ \A c \in Clients :
         /\ promise[c] \/ Runs(Sync(c)) \/ Queued(Sync(c)) => step[c] = "wait"
         /\ promise[c] => ~Runs(Sync(c)) /\ ~Queued(Sync(c))
         /\ Runs(Sync(c)) => ~Queued(Sync(c))
         /\ \A i, j \in Index : m_callbacks_pending[i] = Sync(c) /\ m_callbacks_pending[j] = Sync(c)
                                  => i = j
    /\ step[validator] = "direct" =>
         inserted \in BlockNumbers /\ (Runs(Block(inserted)) \/ Queued(Block(inserted)))

\* The callback that starts was the first in the queue.
LEMMA BeginFacts ==
    ASSUME TaskInv, PlacesInv, NEW a \in Actors, Begins(a)
    PROVE  /\ m_callbacks_pending[1] \in Events /\ 1 \in Index
           /\ \A e : e # NoEvent => (Runs(e)' <=> e = m_callbacks_pending[1]) /\ ~Runs(e)
           /\ callback'[a] = m_callbacks_pending[1] /\ \A b \in Actors : b # a => callback'[b] = NoEvent
           /\ \A i \in Index' : /\ i + 1 \in Index /\ i \in Nat /\ i >= 1
                                /\ m_callbacks_pending'[i] = m_callbacks_pending[i + 1]
           /\ \A i \in Index : i # 1 => i - 1 \in Index' /\ i \in Nat /\ i > 1
<1>1. /\ callback \in [Actors -> Events \cup {NoEvent}] /\ m_callbacks_pending \in Seq(Events)
  BY Zenon, CallbackFacts
<1>2. /\ m_callbacks_pending # <<>> /\ \A b \in Actors : callback[b] = NoEvent
      /\ callback' = [callback EXCEPT ![a] = Head(m_callbacks_pending)]
      /\ m_callbacks_pending' = Tail(m_callbacks_pending)
  BY Zenon DEF Begins
<1>3. /\ Head(m_callbacks_pending) = m_callbacks_pending[1] /\ m_callbacks_pending[1] \in Events
      /\ Len(m_callbacks_pending) \in Nat /\ Len(m_callbacks_pending) > 0
  BY <1>1, <1>2
<1>4. /\ Len(m_callbacks_pending') = Len(m_callbacks_pending) - 1
      /\ \A i \in 1..Len(m_callbacks_pending') : m_callbacks_pending'[i] = m_callbacks_pending[i + 1]
  BY <1>1, <1>2, <1>3
<1>5. \A e : e # NoEvent => (Runs(e)' <=> e = m_callbacks_pending[1]) /\ ~Runs(e)
  BY <1>1, <1>2, <1>3 DEF Runs
<1>6. callback'[a] = m_callbacks_pending[1] /\ \A b \in Actors : b # a => callback'[b] = NoEvent
  BY Zenon, <1>1, <1>2, <1>3
<1>7. /\ 1 \in Index
      /\ \A i \in Index' : /\ i + 1 \in Index /\ i \in Nat /\ i >= 1
                           /\ m_callbacks_pending'[i] = m_callbacks_pending[i + 1]
      /\ \A i \in Index : i # 1 => i - 1 \in Index' /\ i \in Nat /\ i > 1
  BY Zenon, <1>3, <1>4, Positions DEF Index
<1> QED BY Zenon, <1>3, <1>5, <1>6, <1>7

\* An insertion puts its event at the end.
LEMMA InsertFacts ==
    ASSUME TaskInv, NEW c, NEW e \in Events, InsertCallback(c, e)
    PROVE  /\ callback' = callback /\ \A f : Runs(f)' <=> Runs(f)
           /\ \A f : Queued(f)' <=> Queued(f) \/ f = e
           /\ Len(m_callbacks_pending) \in Nat
           /\ Len(m_callbacks_pending') = Len(m_callbacks_pending) + 1
           /\ m_callbacks_pending'[Len(m_callbacks_pending) + 1] = e
           /\ \A i \in Index : i \in Index' /\ m_callbacks_pending'[i] = m_callbacks_pending[i]
           /\ \A i \in Index' : i \in Index \/ i = Len(m_callbacks_pending) + 1
<1>1. /\ m_callbacks_pending \in Seq(Events) /\ callback' = callback
      /\ m_callbacks_pending' = Append(m_callbacks_pending, e)
  BY Zenon DEF TaskInv, TaskTypeOK, InsertCallback
<1>2. /\ Len(m_callbacks_pending) \in Nat
      /\ Len(m_callbacks_pending') = Len(m_callbacks_pending) + 1
      /\ m_callbacks_pending'[Len(m_callbacks_pending) + 1] = e
      /\ \A i \in 1..Len(m_callbacks_pending) : m_callbacks_pending'[i] = m_callbacks_pending[i]
  BY <1>1
<1>3. /\ \A i \in Index : i \in Index' /\ m_callbacks_pending'[i] = m_callbacks_pending[i]
      /\ \A i \in Index' : i \in Index \/ i = Len(m_callbacks_pending) + 1
      /\ Len(m_callbacks_pending) + 1 \in Index'
  BY Zenon, <1>2, Positions DEF Index
<1>4. \A f : Queued(f)' <=> Queued(f) \/ f = e
  BY Zenon, <1>2, <1>3 DEF Queued
<1> QED BY Zenon, <1>1, <1>2, <1>3, <1>4 DEF Runs

\* A callback that returns was the only one.
LEMMA ReturnFacts ==
    ASSUME TaskInv, PlacesInv, NEW a \in Actors, CallbackReturns(a)
    PROVE  /\ m_callbacks_pending' = m_callbacks_pending /\ callback[a] \in Events
           /\ \A b \in Actors : callback'[b] = NoEvent
           /\ \A e : e # NoEvent => ~Runs(e)' /\ (Runs(e) <=> e = callback[a])
<1>1. /\ callback \in [Actors -> Events \cup {NoEvent}] /\ callback[a] # NoEvent
      /\ \A b \in Actors : callback[b] # NoEvent => a = b
  BY Zenon, CallbackFacts DEF CallbackReturns, PlacesInv
<1>2. callback' = [callback EXCEPT ![a] = NoEvent] /\ m_callbacks_pending' = m_callbacks_pending
  BY Zenon DEF CallbackReturns
<1> QED BY Zenon, <1>1, <1>2 DEF Runs

\* While the validator sends a direct signal no queued event is finished: its
\* handlers wait for cs_main, and the list has at least the permanent subscriber.
LEMMA DirectBlocks ==
    ASSUME Inv1, step[validator] = "direct", NEW a \in Actors, BlockBegin(a) \/ BlockHandled(a)
    PROVE  BlockBegin(a) /\ iterator'[a] # NoEntry /\ UNCHANGED taskVars
<1>1. a # validator /\ cs_main = validator /\ step[main] = "running"
  <2>1. a # validator
    BY Zenon, CallbackFacts, ThreeClients DEF Inv1, BlockBegin, BlockHandled, PlacesInv
  <2> QED BY Zenon, <2>1 DEF Inv1, StepsInv, Early, Late
<1>2. ~BlockHandled(a)
  BY Zenon, <1>1, ThreeClients DEF BlockHandled
<1>3. m_map[Permanent] \in m_list
  BY Zenon, <1>1, InList DEF Inv1, SubscribersInv, Subscribers
<1>4. iterator[a] = NoEntry /\ IterateBegin(a)
  BY Zenon, <1>2 DEF BlockBegin, IterateBegin
<1>5. iterator'[a] # NoEntry
  <2>1. ~(m_map[Permanent] <= NoEntry)
    <3>1. m_map[Permanent] \in Entries
      BY Zenon, <1>3, InList DEF Inv1
    <3> QED BY <3>1, SignalsAssumption DEF Entries, NoEntry
  <2> QED BY Zenon, <1>3, <1>4, <2>1, IterateFacts DEF Inv1
<1> QED BY Zenon, <1>2, <1>5 DEF BlockBegin
================================================================================
