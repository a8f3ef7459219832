--------------------------- MODULE HttpServerProofs ---------------------------
(***************************************************************************)
(* Proofs about HttpServer and the ThreadPool it runs on, for any number   *)
(* of workers, requests and connections and any -rpcworkqueue: the         *)
(* invariant of the pool, one lemma per step of its threads and of         *)
(* libevent's callbacks, the tracker and the theorems.                     *)
(***************************************************************************)
EXTENDS HttpServer, TLAPS

WorkerPC     == {"none", "lock", "wait", "run", "exited"}
BeforeStop   == {"start", "serving", "interrupt", "notifyInterrupt", "stop"}
InsideStop   == {"notifyStop", "drain", "run", "join"}
AfterJoin    == {"reset", "waitEmpty", "cvwait", "stopped"}
ControllerPC == BeforeStop \cup InsideStop \cup AfterJoin
SubmitterPC  == {"idle", "add", "depth", "submit", "notify"}
StatusSet    == {"none", "dispatched", "tracked", "accepted", "reply", "sent",
                 "rejected", "done"}

\* The type of the state.
TypeOK ==
    /\ m_work_queue \in Seq(Requests) /\ executed \in Seq(Requests)
    /\ m_interrupt \in BOOLEAN
    /\ m_workers \subseteq Workers /\ threads_to_join \subseteq Workers
    /\ pc \in [Threads -> WorkerPC \cup ControllerPC \cup SubmitterPC]
    /\ \A w \in Workers : pc[w] \in WorkerPC
    /\ pc[Controller] \in ControllerPC
    /\ pc[Submitter] \in SubmitterPC
    /\ task \in [Threads -> Requests \cup {NoTask}]
    /\ status \in [Requests -> StatusSet]
    /\ req \in Requests \cup {NoTask}

\* How far the controller is decides whether the pool accepts tasks, and a worker
\* that has exited has left an empty queue that nothing can be added to.
Phases ==
    /\ pc[Controller] \in BeforeStop => threads_to_join = {}
    /\ pc[Controller] \notin BeforeStop => m_workers = {}
    /\ pc[Controller] \in InsideStop => m_interrupt /\ threads_to_join = Workers
    /\ pc[Controller] = "start" =>
         m_workers = {} /\ m_work_queue = <<>> /\ \A w \in Workers : pc[w] = "none"
    /\ pc[Controller] \in BeforeStop \ {"start"} => m_workers = Workers
    /\ pc[Controller] = "join" => m_work_queue = <<>>
    /\ pc[Controller] \in AfterJoin =>
         m_work_queue = <<>> /\ \A w \in Workers : pc[w] = "exited"
    /\ \A w \in Workers : pc[w] = "exited" => m_work_queue = <<>> /\ ~Accepts
    /\ pc[Controller] \in {"notifyInterrupt", "stop"} => m_interrupt

\* A thread has a task exactly while it runs it.
Holding ==
    /\ \A t \in Workers \cup {Controller} : task[t] # NoTask <=> pc[t] = "run"
    /\ task[Submitter] = NoTask

\* Where a request is follows from its status, and it is in one place only.
OnePlace ==
    /\ \A i \in DOMAIN m_work_queue : status[m_work_queue[i]] = "accepted"
    /\ \A t \in Threads : task[t] # NoTask => status[task[t]] = "accepted"
    /\ \A i \in DOMAIN executed : status[executed[i]] \in {"reply", "sent", "done"}
    /\ \A r \in Requests : status[r] = "accepted" =>
         (\E i \in DOMAIN m_work_queue : m_work_queue[i] = r) \/ \E t \in Threads : task[t] = r
    /\ \A i, j \in DOMAIN m_work_queue : m_work_queue[i] = m_work_queue[j] => i = j
    /\ \A i, j \in DOMAIN executed : executed[i] = executed[j] => i = j
    /\ \A t, u \in Threads : task[t] # NoTask /\ task[t] = task[u] => t = u
    /\ \A t \in Threads, i \in DOMAIN m_work_queue : task[t] # m_work_queue[i]

\* What http_request_cb knows of the request it is working on.
Submitting ==
    /\ pc[Submitter] = "add" =>
         req \in Requests /\ status[req] = "dispatched" /\ ConnOf[req] \notin closed
    /\ pc[Submitter] \in {"depth", "submit"} => req \in Requests /\ status[req] = "tracked"
    /\ pc[Submitter] = "submit" => Len(m_work_queue) < g_max_queue_depth

PoolInv == TypeOK /\ Phases /\ Holding /\ OnePlace /\ Submitting

USE ThreadPoolAssumption, HttpServerAssumption
    DEF Threads, WorkerPC, ControllerPC, BeforeStop, InsideStop, AfterJoin, SubmitterPC
-----------------------------------------------------------------------------
\* The pool starts with an empty queue and no task in service.
LEMMA PoolInit == Init => PoolInv
<1> SUFFICES ASSUME Init PROVE PoolInv
  BY Zenon
<1>1. <<>> \in Seq(Requests)
  OBVIOUS
<1>2. m_interrupt \in BOOLEAN
  BY Zenon DEF Init, InitPool
<1>3. pc \in [Threads -> WorkerPC \cup ControllerPC \cup SubmitterPC]
  BY Zenon DEF Init, InitPool
<1>4. /\ \A w \in Workers : pc[w] = "none"
      /\ pc[Controller] = "start" /\ pc[Submitter] = "idle"
  BY Zenon DEF Init, InitPool
<1>5. TypeOK
  BY Zenon, <1>1, <1>2, <1>3, <1>4
  DEF Init, InitPool, TypeOK, StatusSet
<1>6. Phases
  BY Zenon, <1>4 DEF Init, InitPool, Phases
<1>7. Holding /\ OnePlace /\ Submitting
  BY <1>4 DEF Init, InitPool, Holding, OnePlace, Submitting
<1> QED BY Zenon, <1>5, <1>6, <1>7 DEF PoolInv
-----------------------------------------------------------------------------
(* The queue after a task is taken from its front or put at its end. *)

\* WorkerThread takes the task at the front; the others move up.
LEMMA TakeFacts ==
    ASSUME m_work_queue \in Seq(Requests), NEW t, Take(t)
    PROVE  /\ 1 \in DOMAIN m_work_queue
           /\ Head(m_work_queue) = m_work_queue[1] /\ m_work_queue[1] \in Requests
           /\ m_work_queue' \in Seq(Requests)
           /\ Len(m_work_queue') < Len(m_work_queue)
           /\ \A i \in DOMAIN m_work_queue' :
                i + 1 \in DOMAIN m_work_queue /\ i + 1 # 1
                /\ m_work_queue'[i] = m_work_queue[i + 1]
           /\ \A j \in DOMAIN m_work_queue \ {1} :
                j - 1 \in DOMAIN m_work_queue' /\ m_work_queue'[j - 1] = m_work_queue[j]
BY DEF Take

\* Submit puts a task behind the queued ones.
LEMMA EnqueueFacts ==
    ASSUME m_work_queue \in Seq(Requests), NEW r \in Requests, Enqueue(r)
    PROVE  /\ m_work_queue' \in Seq(Requests)
           /\ Len(m_work_queue') = Len(m_work_queue) + 1
           /\ Len(m_work_queue') \in DOMAIN m_work_queue'
           /\ m_work_queue'[Len(m_work_queue')] = r
           /\ \A i \in DOMAIN m_work_queue' :
                \/ i = Len(m_work_queue')
                \/ i \in DOMAIN m_work_queue /\ m_work_queue'[i] = m_work_queue[i]
           /\ \A i \in DOMAIN m_work_queue :
                i \in DOMAIN m_work_queue' /\ m_work_queue'[i] = m_work_queue[i]
BY DEF Enqueue

\* The task a worker has run is the last one executed.
LEMMA FinishFacts ==
    ASSUME executed \in Seq(Requests), NEW t, task[t] \in Requests, Finish(t)
    PROVE  /\ executed' \in Seq(Requests)
           /\ \A i \in DOMAIN executed' :
                \/ i = Len(executed) + 1 /\ executed'[i] = task[t]
                \/ i \in DOMAIN executed /\ executed'[i] = executed[i]
BY DEF Finish

\* A step of the event thread or of libevent that moves requests on, without the
\* pool, leaves every request where it is.
LEMMA MovedOn ==
    ASSUME TypeOK, OnePlace, UNCHANGED pool,
           \A q \in Requests :
             \/ status'[q] = status[q]
             \/ /\ status[q] # "accepted" /\ status'[q] # "accepted"
                /\ status[q] \in {"reply", "sent", "done"} =>
                     status'[q] \in {"reply", "sent", "done"}
    PROVE  OnePlace'
<1> USE DEF TypeOK, pool
<1>1. /\ \A i \in DOMAIN m_work_queue : m_work_queue[i] \in Requests
      /\ \A i \in DOMAIN executed : executed[i] \in Requests
      /\ \A t \in Threads : task[t] # NoTask => task[t] \in Requests
  OBVIOUS
<1>2. \A i \in DOMAIN m_work_queue' : status'[m_work_queue'[i]] = "accepted"
  BY <1>1 DEF OnePlace
<1>3. \A t \in Threads : task'[t] # NoTask => status'[task'[t]] = "accepted"
  BY <1>1 DEF OnePlace
<1>4. \A i \in DOMAIN executed' : status'[executed'[i]] \in {"reply", "sent", "done"}
  BY Zenon, <1>1 DEF OnePlace
<1>5. \A q \in Requests : status'[q] = "accepted" =>
         (\E i \in DOMAIN m_work_queue' : m_work_queue'[i] = q) \/ \E t \in Threads : task'[t] = q
  BY DEF OnePlace
<1> QED BY <1>2, <1>3, <1>4, <1>5 DEF OnePlace

\* A task that is taken goes from the queue to the thread that takes it.
LEMMA TakeMoves ==
    ASSUME TypeOK, OnePlace, NEW t \in Threads, task[t] = NoTask, Take(t),
           UNCHANGED <<status, executed>>
    PROVE  OnePlace'
<1> DEFINE q == m_work_queue[1]
<1> USE DEF TypeOK
<1>1. /\ 1 \in DOMAIN m_work_queue /\ q \in Requests /\ status[q] = "accepted"
      /\ \A i \in DOMAIN m_work_queue' :
           i + 1 \in DOMAIN m_work_queue /\ i + 1 # 1 /\ m_work_queue'[i] = m_work_queue[i + 1]
      /\ \A j \in DOMAIN m_work_queue \ {1} :
           j - 1 \in DOMAIN m_work_queue' /\ m_work_queue'[j - 1] = m_work_queue[j]
  BY Zenon, TakeFacts DEF OnePlace
<1>2. /\ task'[t] = q
      /\ \A u \in Threads : u # t => task'[u] = task[u]
  BY Zenon, TakeFacts DEF Take
<1>3. \A i \in DOMAIN m_work_queue' : status'[m_work_queue'[i]] = "accepted"
  BY <1>1 DEF OnePlace
<1>4. \A u \in Threads : task'[u] # NoTask => status'[task'[u]] = "accepted"
  BY <1>1, <1>2 DEF OnePlace
<1>5. \A r \in Requests : status'[r] = "accepted" =>
        (\E i \in DOMAIN m_work_queue' : m_work_queue'[i] = r) \/ \E u \in Threads : task'[u] = r
  <2> SUFFICES ASSUME NEW r \in Requests, status[r] = "accepted"
               PROVE  (\E i \in DOMAIN m_work_queue' : m_work_queue'[i] = r)
                      \/ \E u \in Threads : task'[u] = r
    BY Zenon
  <2>1. CASE \E i \in DOMAIN m_work_queue : m_work_queue[i] = r
    BY <1>1, <1>2, <2>1
  <2>2. CASE \E u \in Threads : task[u] = r
    BY <1>2, <2>2
  <2> QED BY Zenon, <2>1, <2>2 DEF OnePlace
<1>6. \A i, j \in DOMAIN m_work_queue' : m_work_queue'[i] = m_work_queue'[j] => i = j
  <2> SUFFICES ASSUME NEW i \in DOMAIN m_work_queue', NEW j \in DOMAIN m_work_queue',
                      m_work_queue'[i] = m_work_queue'[j]
               PROVE  i = j
    BY Zenon
  <2>1. i + 1 = j + 1
    BY <1>1 DEF OnePlace
  <2>2. i \in Nat /\ j \in Nat
    BY TakeFacts
  <2> QED BY <2>1, <2>2
<1>7. \A u, v \in Threads : task'[u] # NoTask /\ task'[u] = task'[v] => u = v
  BY <1>1, <1>2 DEF OnePlace
<1>8. \A u \in Threads, i \in DOMAIN m_work_queue' : task'[u] # m_work_queue'[i]
  BY <1>1, <1>2 DEF OnePlace
<1>9. /\ \A i \in DOMAIN executed' : status'[executed'[i]] \in {"reply", "sent", "done"}
      /\ \A i, j \in DOMAIN executed' : executed'[i] = executed'[j] => i = j
  BY Zenon DEF OnePlace
<1> QED BY Zenon, <1>3, <1>4, <1>5, <1>6, <1>7, <1>8, <1>9 DEF OnePlace

\* A handler that returns moves its request from its thread to the executed ones.
LEMMA FinishMoves ==
    ASSUME TypeOK, OnePlace, NEW t \in Threads, task[t] # NoTask, Finish(t),
           WriteReply(task[t]), UNCHANGED m_work_queue
    PROVE  OnePlace'
<1> DEFINE q == task[t]
<1> USE DEF TypeOK
<1>1. q \in Requests /\ status[q] = "accepted"
  BY DEF OnePlace
<1>2. /\ status'[q] = "reply"
      /\ \A r \in Requests : r # q => status'[r] = status[r]
  BY <1>1 DEF WriteReply, SetStatus
<1>3. /\ task'[t] = NoTask
      /\ \A u \in Threads : u # t => task'[u] = task[u]
  BY Zenon DEF Finish
<1>4. /\ \A i \in DOMAIN executed' :
           \/ i = Len(executed) + 1 /\ executed'[i] = q
           \/ i \in DOMAIN executed /\ executed'[i] = executed[i]
      /\ \A i \in DOMAIN executed : executed[i] \in Requests /\ executed[i] # q
  <2>1. \A i \in DOMAIN executed : executed[i] \in Requests /\ executed[i] # q
    BY <1>1 DEF OnePlace
  <2> QED BY Zenon, <2>1, <1>1, FinishFacts
<1>5. \A i \in DOMAIN m_work_queue : m_work_queue[i] \in Requests /\ m_work_queue[i] # q
  BY DEF OnePlace
<1>6. \A i \in DOMAIN m_work_queue' : status'[m_work_queue'[i]] = "accepted"
  BY <1>2, <1>5 DEF OnePlace
<1>7. \A u \in Threads : task'[u] # NoTask => status'[task'[u]] = "accepted"
  BY <1>1, <1>2, <1>3 DEF OnePlace
<1>8. \A i \in DOMAIN executed' : status'[executed'[i]] \in {"reply", "sent", "done"}
  BY <1>2, <1>4 DEF OnePlace
<1>9. \A r \in Requests : status'[r] = "accepted" =>
        (\E i \in DOMAIN m_work_queue' : m_work_queue'[i] = r) \/ \E u \in Threads : task'[u] = r
  <2> SUFFICES ASSUME NEW r \in Requests, status'[r] = "accepted"
               PROVE  (\E i \in DOMAIN m_work_queue' : m_work_queue'[i] = r)
                      \/ \E u \in Threads : task'[u] = r
    BY Zenon
  <2>1. r # q /\ status[r] = "accepted"
    BY Zenon, <1>2
  <2> QED BY <2>1, <1>3 DEF OnePlace
<1>10. \A i, j \in DOMAIN executed' : executed'[i] = executed'[j] => i = j
  BY <1>4 DEF OnePlace
<1>11. /\ \A i, j \in DOMAIN m_work_queue' : m_work_queue'[i] = m_work_queue'[j] => i = j
       /\ \A u, v \in Threads : task'[u] # NoTask /\ task'[u] = task'[v] => u = v
       /\ \A u \in Threads, i \in DOMAIN m_work_queue' : task'[u] # m_work_queue'[i]
  BY <1>3, <1>5 DEF OnePlace
<1> QED BY Zenon, <1>6, <1>7, <1>8, <1>9, <1>10, <1>11 DEF OnePlace

\* A request that Submit accepts was nowhere and goes to the end of the queue.
LEMMA EnqueueAdds ==
    ASSUME TypeOK, OnePlace, NEW r \in Requests, status[r] = "tracked", Enqueue(r),
           SetStatus(r, "accepted"), UNCHANGED <<task, executed>>
    PROVE  OnePlace'
<1> USE DEF TypeOK
<1>1. /\ status'[r] = "accepted"
      /\ \A q \in Requests : q # r => status'[q] = status[q]
  BY Zenon DEF SetStatus
<1>2. /\ \A i \in DOMAIN m_work_queue : m_work_queue[i] \in Requests /\ m_work_queue[i] # r
      /\ \A i \in DOMAIN executed : executed[i] \in Requests /\ executed[i] # r
      /\ \A t \in Threads : task[t] # r /\ (task[t] # NoTask => task[t] \in Requests)
  <2>1. \A i \in DOMAIN m_work_queue : m_work_queue[i] \in Requests /\ m_work_queue[i] # r
    BY DEF OnePlace
  <2>2. \A i \in DOMAIN executed : executed[i] \in Requests /\ executed[i] # r
    BY DEF OnePlace
  <2>3. \A t \in Threads : task[t] # r /\ (task[t] # NoTask => task[t] \in Requests)
    BY DEF OnePlace
  <2> QED BY Zenon, <2>1, <2>2, <2>3
<1>3. /\ Len(m_work_queue') \in DOMAIN m_work_queue'
      /\ m_work_queue'[Len(m_work_queue')] = r
      /\ \A i \in DOMAIN m_work_queue' :
           \/ i = Len(m_work_queue')
           \/ i \in DOMAIN m_work_queue /\ m_work_queue'[i] = m_work_queue[i]
      /\ \A i \in DOMAIN m_work_queue :
           i \in DOMAIN m_work_queue' /\ m_work_queue'[i] = m_work_queue[i]
  BY Zenon, EnqueueFacts
<1>4. \A i \in DOMAIN m_work_queue' : status'[m_work_queue'[i]] = "accepted"
  BY <1>1, <1>2, <1>3 DEF OnePlace
<1>5. \A t \in Threads : task'[t] # NoTask => status'[task'[t]] = "accepted"
  BY <1>1, <1>2 DEF OnePlace
<1>6. \A i \in DOMAIN executed' : status'[executed'[i]] \in {"reply", "sent", "done"}
  BY <1>1, <1>2 DEF OnePlace
<1>7. \A q \in Requests : status'[q] = "accepted" =>
        (\E i \in DOMAIN m_work_queue' : m_work_queue'[i] = q) \/ \E t \in Threads : task'[t] = q
  <2> SUFFICES ASSUME NEW q \in Requests, status'[q] = "accepted", q # r
               PROVE  (\E i \in DOMAIN m_work_queue' : m_work_queue'[i] = q)
                      \/ \E t \in Threads : task'[t] = q
    BY <1>3
  <2>1. status[q] = "accepted"
    BY Zenon, <1>1
  <2> QED BY <2>1, <1>3 DEF OnePlace
<1>8. \A i, j \in DOMAIN m_work_queue' : m_work_queue'[i] = m_work_queue'[j] => i = j
  BY <1>2, <1>3 DEF OnePlace
<1>9. /\ \A i, j \in DOMAIN executed' : executed'[i] = executed'[j] => i = j
      /\ \A t, u \in Threads : task'[t] # NoTask /\ task'[t] = task'[u] => t = u
      /\ \A t \in Threads, i \in DOMAIN m_work_queue' : task'[t] # m_work_queue'[i]
  BY <1>2, <1>3 DEF OnePlace
<1> QED BY Zenon, <1>4, <1>5, <1>6, <1>7, <1>8, <1>9 DEF OnePlace
-----------------------------------------------------------------------------
(* One lemma per action: it preserves the invariant. *)

\* StartHTTPServer creates the workers.
LEMMA StartInv ==
    ASSUME PoolInv, StartHTTPServer
    PROVE  PoolInv'
<1> USE DEF PoolInv, StartHTTPServer, Start
<1>1. TypeOK'
  BY Zenon DEF TypeOK, StatusSet, pool, http
<1>2. Phases'
  BY Zenon DEF TypeOK, Phases, Accepts, pool, http
<1>3. Holding'
  BY Zenon DEF TypeOK, Phases, Holding, pool, http
<1>4. OnePlace'
  BY DEF OnePlace, pool, http
<1>5. Submitting'
  BY Zenon DEF TypeOK, Submitting, pool, http
<1> QED BY Zenon, <1>1, <1>2, <1>3, <1>4, <1>5

\* InterruptHTTPServer installs the rejecting callback.
LEMMA InterruptServerInv ==
    ASSUME PoolInv, InterruptHTTPServer
    PROVE  PoolInv'
<1> USE DEF PoolInv, InterruptHTTPServer, Goto
<1>1. TypeOK'
  BY Zenon DEF TypeOK, StatusSet, pool, http
<1>2. Phases'
  BY Zenon DEF TypeOK, Phases, Accepts, pool, http
<1>3. Holding'
  BY Zenon DEF TypeOK, Phases, Holding, pool, http
<1>4. OnePlace'
  BY DEF OnePlace, pool, http
<1>5. Submitting'
  BY Zenon DEF TypeOK, Submitting, pool, http
<1> QED BY Zenon, <1>1, <1>2, <1>3, <1>4, <1>5

\* Interrupt sets the flag.
LEMMA InterruptInv ==
    ASSUME PoolInv, Interrupt, UNCHANGED http
    PROVE  PoolInv'
<1> USE DEF PoolInv, Interrupt, Goto
<1>1. TypeOK'
  BY Zenon DEF TypeOK, StatusSet, pool, http
<1>2. Phases'
  BY Zenon DEF TypeOK, Phases, Accepts, pool, http
<1>3. Holding'
  BY Zenon DEF TypeOK, Phases, Holding, pool, http
<1>4. OnePlace'
  BY DEF OnePlace, pool, http
<1>5. Submitting'
  BY Zenon DEF TypeOK, Submitting, pool, http
<1> QED BY Zenon, <1>1, <1>2, <1>3, <1>4, <1>5

\* Interrupt wakes the workers.
LEMMA InterruptNotifyInv ==
    ASSUME PoolInv, InterruptNotify("stop"), UNCHANGED http
    PROVE  PoolInv'
<1> USE DEF PoolInv, InterruptNotify, NotifyAll, Waiting
<1>1. TypeOK'
  BY Zenon DEF TypeOK, StatusSet, pool, http
<1>2. Phases'
  BY Zenon DEF TypeOK, Phases, Accepts, pool, http
<1>3. Holding'
  BY Zenon DEF TypeOK, Phases, Holding, pool, http
<1>4. OnePlace'
  BY DEF OnePlace, pool, http
<1>5. Submitting'
  BY Zenon DEF TypeOK, Submitting, pool, http
<1> QED BY Zenon, <1>1, <1>2, <1>3, <1>4, <1>5

\* Stop sets the flag and takes over the workers.
LEMMA StopInv ==
    ASSUME PoolInv, Stop, UNCHANGED http
    PROVE  PoolInv'
<1> USE DEF PoolInv, Stop, Goto
<1>1. TypeOK'
  BY Zenon DEF TypeOK, StatusSet, pool, http
<1>2. Phases'
  BY Zenon DEF TypeOK, Phases, Accepts, pool, http
<1>3. Holding'
  BY Zenon DEF TypeOK, Phases, Holding, pool, http
<1>4. OnePlace'
  BY DEF OnePlace, pool, http
<1>5. Submitting'
  BY Zenon DEF TypeOK, Submitting, pool, http
<1> QED BY Zenon, <1>1, <1>2, <1>3, <1>4, <1>5

\* Stop wakes the workers.
LEMMA NotifyStopInv ==
    ASSUME PoolInv, NotifyStop, UNCHANGED http
    PROVE  PoolInv'
<1> USE DEF PoolInv, NotifyStop, StopNotify, NotifyAll, Waiting
<1>1. TypeOK'
  BY Zenon DEF TypeOK, StatusSet, pool, http
<1>2. Phases'
  BY Zenon DEF TypeOK, Phases, Accepts, pool, http
<1>3. Holding'
  BY Zenon DEF TypeOK, Phases, Holding, pool, http
<1>4. OnePlace'
  BY DEF OnePlace, pool, http
<1>5. Submitting'
  BY Zenon DEF TypeOK, Submitting, pool, http
<1> QED BY Zenon, <1>1, <1>2, <1>3, <1>4, <1>5

\* Stop has found the queue empty; nothing can be added any more.
LEMMA DrainedInv ==
    ASSUME PoolInv, Drained, UNCHANGED http
    PROVE  PoolInv'
<1> USE DEF PoolInv, Drained, Goto
<1>1. TypeOK'
  BY Zenon DEF TypeOK, StatusSet, pool, http
<1>2. Phases'
  BY Zenon DEF TypeOK, Phases, Accepts, pool, http
<1>3. Holding'
  BY Zenon DEF TypeOK, Phases, Holding, pool, http
<1>4. OnePlace'
  BY DEF OnePlace, pool, http
<1>5. Submitting'
  BY Zenon DEF TypeOK, Submitting, pool, http
<1> QED BY Zenon, <1>1, <1>2, <1>3, <1>4, <1>5

\* Stop has joined the workers.
LEMMA JoinInv ==
    ASSUME PoolInv, Join, UNCHANGED http
    PROVE  PoolInv'
<1> USE DEF PoolInv, Join, Joined, Goto
<1>1. TypeOK'
  BY Zenon DEF TypeOK, StatusSet, pool, http
<1>2. Phases'
  BY Zenon DEF TypeOK, Phases, Accepts, pool, http
<1>3. Holding'
  BY Zenon DEF TypeOK, Phases, Holding, pool, http
<1>4. OnePlace'
  BY DEF OnePlace, pool, http
<1>5. Submitting'
  BY Zenon DEF TypeOK, Submitting, pool, http
<1> QED BY Zenon, <1>1, <1>2, <1>3, <1>4, <1>5

\* The last critical section of Stop.
LEMMA ResetInv ==
    ASSUME PoolInv, Reset("waitEmpty"), UNCHANGED http
    PROVE  PoolInv'
<1> USE DEF PoolInv, Reset, Goto
<1>1. TypeOK'
  BY Zenon DEF TypeOK, StatusSet, pool, http
<1>2. Phases'
  BY Zenon DEF TypeOK, Phases, Accepts, pool, http
<1>3. Holding'
  BY Zenon DEF TypeOK, Phases, Holding, pool, http
<1>4. OnePlace'
  BY DEF OnePlace, pool, http
<1>5. Submitting'
  BY Zenon DEF TypeOK, Submitting, pool, http
<1> QED BY Zenon, <1>1, <1>2, <1>3, <1>4, <1>5

\* WaitUntilEmpty of the tracker.
LEMMA WaitUntilEmptyInv ==
    ASSUME PoolInv, WaitUntilEmpty
    PROVE  PoolInv'
<1> USE DEF PoolInv, WaitUntilEmpty, Goto
<1>1. TypeOK'
  BY Zenon DEF TypeOK, StatusSet, pool, http
<1>2. Phases'
  BY Zenon DEF TypeOK, Phases, Accepts, pool, http
<1>3. Holding'
  BY Zenon DEF TypeOK, Phases, Holding, pool, http
<1>4. OnePlace'
  BY DEF OnePlace, pool, http
<1>5. Submitting'
  BY Zenon DEF TypeOK, Submitting, pool, http
<1> QED BY Zenon, <1>1, <1>2, <1>3, <1>4, <1>5

\* A worker finds nothing to do.
LEMMA WorkerWaitInv ==
    ASSUME PoolInv, NEW w \in Workers, WorkerWait(w), UNCHANGED http
    PROVE  PoolInv'
<1> USE DEF PoolInv, WorkerWait, Goto
<1>1. TypeOK'
  BY Zenon DEF TypeOK, StatusSet, pool, http
<1>2. Phases'
  BY Zenon DEF TypeOK, Phases, Accepts, pool, http
<1>3. Holding'
  BY Zenon DEF TypeOK, Phases, Holding, pool, http
<1>4. OnePlace'
  BY DEF OnePlace, pool, http
<1>5. Submitting'
  BY Zenon DEF TypeOK, Submitting, pool, http
<1> QED BY Zenon, <1>1, <1>2, <1>3, <1>4, <1>5

\* A worker exits, with the queue empty for good.
LEMMA WorkerExitInv ==
    ASSUME PoolInv, NEW w \in Workers, WorkerExit(w), UNCHANGED http
    PROVE  PoolInv'
<1> USE DEF PoolInv, WorkerExit, MayExit, Goto
<1>1. TypeOK'
  BY Zenon DEF TypeOK, StatusSet, pool, http
<1>2. Phases'
  BY Zenon DEF TypeOK, Phases, Accepts, pool, http
<1>3. Holding'
  BY Zenon DEF TypeOK, Phases, Holding, pool, http
<1>4. OnePlace'
  BY DEF OnePlace, pool, http
<1>5. Submitting'
  BY Zenon DEF TypeOK, Submitting, pool, http
<1> QED BY Zenon, <1>1, <1>2, <1>3, <1>4, <1>5

\* A worker wakes without a notification.
LEMMA SpuriousWakeupInv ==
    ASSUME PoolInv, NEW w \in Workers, SpuriousWakeup(w), UNCHANGED http
    PROVE  PoolInv'
<1> USE DEF PoolInv, SpuriousWakeup, Goto
<1>1. TypeOK'
  BY Zenon DEF TypeOK, StatusSet, pool, http
<1>2. Phases'
  BY Zenon DEF TypeOK, Phases, Accepts, pool, http
<1>3. Holding'
  BY Zenon DEF TypeOK, Phases, Holding, pool, http
<1>4. OnePlace'
  BY DEF OnePlace, pool, http
<1>5. Submitting'
  BY Zenon DEF TypeOK, Submitting, pool, http
<1> QED BY Zenon, <1>1, <1>2, <1>3, <1>4, <1>5

\* A worker takes a task.
LEMMA WorkerTakeInv ==
    ASSUME PoolInv, NEW w \in Workers, WorkerTake(w), UNCHANGED http
    PROVE  PoolInv'
<1> USE DEF PoolInv, WorkerTake, Goto
<1>0. task[w] = NoTask
  BY Zenon DEF Holding
<1>1. TypeOK'
  BY Zenon, <1>0, TakeFacts DEF TypeOK, StatusSet, Take, pool, http
<1>2. Phases'
  BY <1>0, TakeFacts DEF TypeOK, Phases, Accepts, pool, http
<1>3. Holding'
  BY <1>0, TakeFacts DEF TypeOK, Phases, Holding, Take, pool, http
<1>4. OnePlace'
  BY Zenon, <1>0, TakeMoves DEF http
<1>5. Submitting'
  BY <1>0, TakeFacts DEF TypeOK, Submitting, pool, http
<1> QED BY Zenon, <1>1, <1>2, <1>3, <1>4, <1>5

\* The controller takes a task inside Stop.
LEMMA ProcessTaskInv ==
    ASSUME PoolInv, ProcessTask, UNCHANGED http
    PROVE  PoolInv'
<1> USE DEF PoolInv, ProcessTask, Goto
<1>0. task[Controller] = NoTask
  BY Zenon DEF Holding
<1>1. TypeOK'
  BY Zenon, <1>0, TakeFacts DEF TypeOK, StatusSet, Take, pool, http
<1>2. Phases'
  BY <1>0, TakeFacts DEF TypeOK, Phases, Accepts, pool, http
<1>3. Holding'
  BY <1>0, TakeFacts DEF TypeOK, Phases, Holding, Take, pool, http
<1>4. OnePlace'
  BY Zenon, <1>0, TakeMoves DEF http
<1>5. Submitting'
  BY <1>0, TakeFacts DEF TypeOK, Submitting, pool, http
<1> QED BY Zenon, <1>1, <1>2, <1>3, <1>4, <1>5

\* A handler returns.
LEMMA RunHandlerInv ==
    ASSUME PoolInv, NEW t \in Workers \cup {Controller}, RunHandler(t)
    PROVE  PoolInv'
<1> USE DEF PoolInv, RunHandler, Goto
<1>0. task[t] # NoTask /\ task[t] \in Requests
  BY Zenon DEF Holding, TypeOK
<1>1. TypeOK'
  BY Zenon, <1>0, FinishFacts DEF TypeOK, StatusSet, Finish, WriteReply, SetStatus, pool, http
<1>2. Phases'
  BY Zenon, <1>0, FinishFacts DEF TypeOK, Phases, Accepts, pool, http
<1>3. Holding'
  BY Zenon, <1>0, FinishFacts DEF TypeOK, Phases, Holding, Finish, pool, http
<1>4. OnePlace'
  BY Zenon, <1>0, FinishMoves
<1>5. Submitting'
  BY <1>0, FinishFacts DEF TypeOK, Submitting, OnePlace, WriteReply, SetStatus, pool, http
<1> QED BY Zenon, <1>1, <1>2, <1>3, <1>4, <1>5
-----------------------------------------------------------------------------
(* The steps of the event thread: each preserves the invariant. *)

\* libevent hands out a request.
LEMMA DispatchInv ==
    ASSUME PoolInv, NEW r \in Requests, Dispatch(r)
    PROVE  PoolInv'
<1> USE DEF PoolInv, Dispatch, EventLoop, SetStatus, Goto
<1>1. TypeOK'
  BY DEF TypeOK, StatusSet, pool, http
<1>2. Phases'
  BY Zenon DEF TypeOK, Phases, Accepts, pool, http
<1>3. Holding'
  BY DEF TypeOK, Phases, Holding, pool, http
<1>4. OnePlace'
  BY MovedOn DEF TypeOK, Submitting, pool
<1>5. Submitting'
  BY Zenon DEF TypeOK, Submitting, pool, http
<1> QED BY Zenon, <1>1, <1>2, <1>3, <1>4, <1>5

\* http_request_cb tracks the request.
LEMMA TrackRequestInv ==
    ASSUME PoolInv, TrackRequest
    PROVE  PoolInv'
<1> USE DEF PoolInv, TrackRequest, WriteReply, SetStatus, Goto
<1>1. TypeOK'
  BY DEF TypeOK, StatusSet, pool, http
<1>2. Phases'
  BY DEF TypeOK, Phases, Accepts, pool, http
<1>3. Holding'
  BY DEF TypeOK, Phases, Holding, pool, http
<1>4. OnePlace'
  BY Zenon, MovedOn DEF TypeOK, Submitting, pool
<1>5. Submitting'
  BY Zenon DEF TypeOK, Submitting, pool, http
<1> QED BY Zenon, <1>1, <1>2, <1>3, <1>4, <1>5

\* http_request_cb looks at the depth of the queue.
LEMMA CheckDepthInv ==
    ASSUME PoolInv, CheckDepth
    PROVE  PoolInv'
<1> USE DEF PoolInv, CheckDepth, DepthExceeded, WriteReply, SetStatus, Goto
<1>1. TypeOK'
  BY DEF TypeOK, StatusSet, pool, http
<1>2. Phases'
  BY DEF TypeOK, Phases, Accepts, pool, http
<1>3. Holding'
  BY DEF TypeOK, Phases, Holding, pool, http
<1>4. OnePlace'
  <2>1. CASE DepthExceeded
    BY Zenon, <2>1, MovedOn DEF TypeOK, Submitting, pool
  <2>2. CASE ~DepthExceeded
    BY <2>2 DEF TypeOK, OnePlace, pool
  <2> QED BY Zenon, <2>1, <2>2
<1>5. Submitting'
  BY DEF TypeOK, Submitting, pool, http
<1> QED BY Zenon, <1>1, <1>2, <1>3, <1>4, <1>5

\* The pool accepts or refuses the request.
LEMMA SubmitRequestInv ==
    ASSUME PoolInv, SubmitRequest
    PROVE  PoolInv'
<1> USE DEF PoolInv, SubmitRequest, SetStatus, Goto
<1>0. req \in Requests /\ status[req] = "tracked"
  BY Zenon DEF Submitting
<1>1. TypeOK'
  BY <1>0, EnqueueFacts DEF TypeOK, StatusSet, WriteReply, pool, http
<1>2. Phases'
  BY <1>0, EnqueueFacts DEF TypeOK, Phases, Accepts, Enqueue, pool, http
<1>3. Holding'
  BY <1>0, EnqueueFacts DEF TypeOK, Phases, Holding, pool, http
<1>4. OnePlace'
  <2>1. CASE Enqueue(req) /\ SetStatus(req, "accepted")
    BY <1>0, <2>1, EnqueueAdds, Zenon
  <2>2. CASE WriteReply(req) /\ UNCHANGED m_work_queue
    BY <1>0, <2>2, MovedOn DEF WriteReply, pool
  <2> QED BY Zenon, <2>1, <2>2
<1>5. Submitting'
  BY <1>0, EnqueueFacts DEF TypeOK, Submitting, pool, http
<1> QED BY Zenon, <1>1, <1>2, <1>3, <1>4, <1>5

\* Submit wakes a worker.
LEMMA NotifySubmitInv ==
    ASSUME PoolInv, NotifySubmit
    PROVE  PoolInv'
<1> USE DEF PoolInv, NotifySubmit, SubmitNotify, NotifyOne, Waiting, Goto
<1>1. TypeOK'
  BY DEF TypeOK, StatusSet, pool, http
<1>2. Phases'
  BY DEF TypeOK, Phases, Accepts, pool, http
<1>3. Holding'
  BY DEF TypeOK, Phases, Holding, pool, http
<1>4. OnePlace'
  BY DEF OnePlace, pool, http
<1>5. Submitting'
  BY Zenon DEF TypeOK, Submitting, pool, http
<1> QED BY Zenon, <1>1, <1>2, <1>3, <1>4, <1>5

\* The event loop sends a reply.
LEMMA SendReplyInv ==
    ASSUME PoolInv, NEW r \in Requests, SendReply(r)
    PROVE  PoolInv'
<1> USE DEF PoolInv, SendReply, EventLoop, SetStatus, Goto
<1>1. TypeOK'
  BY Zenon DEF TypeOK, StatusSet, pool, http
<1>2. Phases'
  BY Zenon DEF TypeOK, Phases, Accepts, pool, http
<1>3. Holding'
  BY Zenon DEF TypeOK, Phases, Holding, pool, http
<1>4. OnePlace'
  BY Zenon, MovedOn DEF TypeOK
<1>5. Submitting'
  BY Zenon DEF TypeOK, Submitting, pool, http
<1> QED BY Zenon, <1>1, <1>2, <1>3, <1>4, <1>5

\* A reply has been written.
LEMMA ReplyCompleteInv ==
    ASSUME PoolInv, NEW r \in Requests, ReplyComplete(r)
    PROVE  PoolInv'
<1> USE DEF PoolInv, ReplyComplete, RemoveRequest, NotifyEmpty, EventLoop, SetStatus, Goto
<1>1. TypeOK'
  BY DEF TypeOK, StatusSet, pool, http
<1>2. Phases'
  BY DEF TypeOK, Phases, Accepts, pool, http
<1>3. Holding'
  BY DEF TypeOK, Phases, Holding, pool, http
<1>4. OnePlace'
  BY Zenon, MovedOn DEF TypeOK
<1>5. Submitting'
  BY Zenon DEF TypeOK, Submitting, pool, http
<1> QED BY Zenon, <1>1, <1>2, <1>3, <1>4, <1>5

\* A connection is closed.
LEMMA CloseConnectionInv ==
    ASSUME PoolInv, NEW c \in Connections, CloseConnection(c)
    PROVE  PoolInv'
<1> USE DEF PoolInv, CloseConnection, RemoveConnection, NotifyEmpty, EventLoop
<1>1. TypeOK'
  BY DEF TypeOK, StatusSet, pool, http
<1>2. Phases'
  BY DEF TypeOK, Phases, Accepts, pool, http
<1>3. Holding'
  BY DEF TypeOK, Phases, Holding, pool, http
<1>4. OnePlace'
  BY Zenon, MovedOn DEF TypeOK
<1>5. Submitting'
  BY Zenon DEF TypeOK, Submitting, pool, http
<1> QED BY Zenon, <1>1, <1>2, <1>3, <1>4, <1>5

\* Every step of the pool, its controller and the server keeps the invariant.
LEMMA PoolNext == PoolInv /\ [Next]_vars => PoolInv'
<1> SUFFICES ASSUME PoolInv, [Next]_vars PROVE PoolInv'
  BY Zenon
<1>1. CASE UNCHANGED vars
  <2> USE <1>1 DEF PoolInv, vars, pool, http
  <2>1. TypeOK'
    BY Zenon DEF TypeOK
  <2>2. Phases'
    BY Zenon DEF Phases, Accepts
  <2>3. Holding'
    BY Zenon DEF Holding
  <2>4. OnePlace'
    BY DEF OnePlace
  <2>5. Submitting'
    BY Zenon DEF Submitting
  <2> QED BY Zenon, <2>1, <2>2, <2>3, <2>4, <2>5
<1>2. CASE StartHTTPServer \/ InterruptHTTPServer
  BY Zenon, <1>2, StartInv, InterruptServerInv
<1>3. CASE StopHTTPServer
  BY Zenon, <1>3, InterruptInv, InterruptNotifyInv, StopInv, NotifyStopInv, ProcessTaskInv,
     DrainedInv, JoinInv, ResetInv, WaitUntilEmptyInv DEF StopHTTPServer
<1>4. CASE RunHandler(Controller)
  BY Zenon, <1>4, RunHandlerInv
<1>5. ASSUME NEW w \in Workers, WorkerStep(w) \/ (SpuriousWakeup(w) /\ UNCHANGED http)
      PROVE  PoolInv'
  BY Zenon, <1>5, WorkerWaitInv, WorkerExitInv, WorkerTakeInv, RunHandlerInv, SpuriousWakeupInv
  DEF WorkerStep, WorkerThread
<1>6. CASE EventStep
  BY Zenon, <1>6, TrackRequestInv, CheckDepthInv, SubmitRequestInv, NotifySubmitInv, SendReplyInv
  DEF EventStep
<1>7. ASSUME NEW r \in Requests, Dispatch(r) \/ ReplyComplete(r) PROVE PoolInv'
  BY Zenon, <1>7, DispatchInv, ReplyCompleteInv
<1>8. ASSUME NEW c \in Connections, CloseConnection(c) PROVE PoolInv'
  BY Zenon, <1>8, CloseConnectionInv
<1> QED BY Zenon, <1>1, <1>2, <1>3, <1>4, <1>5, <1>6, <1>7, <1>8 DEF Next, ControllerStep
-----------------------------------------------------------------------------
(* The tracker. *)

INSTANCE FiniteSetTheorems

InService == {"tracked", "accepted", "reply", "sent"}

\* The requests of connection c that http_request_cb has tracked.
Tracked(c) == {r \in Requests : ConnOf[r] = c /\ status[r] \in InService}

TrackerInv ==
    /\ m_tracker \in [Connections -> Nat]
    /\ \A r \in Requests : status[r] = "sent" => ConnOf[r] \notin closed
    /\ \A c \in Connections :
         m_tracker[c] = IF c \in closed THEN 0 ELSE Cardinality(Tracked(c))

\* A request that begins to be tracked adds one to its connection.
LEMMA TrackedAdd ==
    ASSUME TypeOK, NEW r \in Requests, status[r] \notin InService, NEW s \in InService,
           status' = [status EXCEPT ![r] = s]
    PROVE  /\ Cardinality(Tracked(ConnOf[r])') = Cardinality(Tracked(ConnOf[r])) + 1
           /\ \A c \in Connections : c # ConnOf[r] => Tracked(c)' = Tracked(c)
<1>1. Tracked(ConnOf[r])' = Tracked(ConnOf[r]) \cup {r} /\ r \notin Tracked(ConnOf[r])
  BY DEF TypeOK, Tracked
<1>2. IsFiniteSet(Tracked(ConnOf[r]))
  BY Zenon, FS_Subset DEF Tracked
<1>3. \A c \in Connections : c # ConnOf[r] => Tracked(c)' = Tracked(c)
  BY Zenon DEF TypeOK, Tracked
<1> QED BY <1>1, <1>2, <1>3, FS_AddElement, Zenon

\* A request that is done takes one off its connection.
LEMMA TrackedRemove ==
    ASSUME TypeOK, NEW r \in Requests, status[r] \in InService, NEW s, s \notin InService,
           status' = [status EXCEPT ![r] = s]
    PROVE  /\ Cardinality(Tracked(ConnOf[r])') = Cardinality(Tracked(ConnOf[r])) - 1
           /\ Cardinality(Tracked(ConnOf[r])) \in Nat \ {0}
           /\ \A c \in Connections : c # ConnOf[r] => Tracked(c)' = Tracked(c)
<1>1. Tracked(ConnOf[r])' = Tracked(ConnOf[r]) \ {r} /\ r \in Tracked(ConnOf[r])
  BY Zenon DEF TypeOK, Tracked
<1>2. IsFiniteSet(Tracked(ConnOf[r]))
  BY Zenon, FS_Subset DEF Tracked
<1>3. \A c \in Connections : c # ConnOf[r] => Tracked(c)' = Tracked(c)
  BY Zenon DEF TypeOK, Tracked
<1>4. Cardinality(Tracked(ConnOf[r])) \in Nat /\ Cardinality(Tracked(ConnOf[r])) # 0
  BY Zenon, <1>1, <1>2, FS_CardinalityType, FS_EmptySet
<1> QED BY <1>1, <1>2, <1>3, <1>4, FS_RemoveElement, Zenon

\* A step that keeps the requests in service and counts nothing keeps the tracker.
LEMMA TrackedSame ==
    ASSUME TrackerInv, UNCHANGED <<m_tracker, closed>>,
           \A r \in Requests : status'[r] \in InService <=> status[r] \in InService,
           \A r \in Requests : status'[r] = "sent" => status[r] = "sent" \/ ConnOf[r] \notin closed
    PROVE  TrackerInv'
<1>1. \A c \in Connections : Tracked(c)' = Tracked(c)
  BY Zenon DEF Tracked
<1> QED BY Zenon, <1>1 DEF TrackerInv

\* No connection is tracked at the start.
LEMMA TrackerInit == Init => TrackerInv
<1> SUFFICES ASSUME Init PROVE TrackerInv
  BY Zenon
<1>1. \A c \in Connections : Tracked(c) = {}
  BY Zenon DEF Init, Tracked, InService
<1> QED BY Zenon, <1>1, FS_EmptySet DEF Init, TrackerInv

\* http_request_cb counts a request of a connection that is open.
LEMMA TrackRequestCounts == PoolInv /\ TrackerInv /\ TrackRequest => TrackerInv'
<1> SUFFICES ASSUME PoolInv, TrackerInv, TrackRequest PROVE TrackerInv'
  BY Zenon
<1>0. PICK r \in Requests : r = req
  BY Zenon DEF PoolInv, Submitting, TrackRequest
<1> DEFINE d == ConnOf[r]
<1>1. status[r] = "dispatched" /\ d \notin closed /\ d \in Connections
  BY Zenon, <1>0 DEF PoolInv, Submitting, TrackRequest, Connections
<1>2. PICK s \in {"reply", "tracked"} : status' = [status EXCEPT ![r] = s]
  BY Zenon, <1>0 DEF TrackRequest, WriteReply, SetStatus
<1>3. /\ Cardinality(Tracked(d)') = Cardinality(Tracked(d)) + 1
      /\ \A c \in Connections : c # d => Tracked(c)' = Tracked(c)
  BY <1>1, <1>2, TrackedAdd, Zenon DEF PoolInv, InService
<1>4. m_tracker' = [m_tracker EXCEPT ![d] = @ + 1] /\ closed' = closed
  BY Zenon, <1>0 DEF TrackRequest, AddRequest
<1>5. \A q \in Requests : status'[q] = "sent" => ConnOf[q] \notin closed
  BY Zenon, <1>2 DEF TrackerInv, PoolInv, TypeOK
<1> QED BY <1>1, <1>3, <1>4, <1>5 DEF TrackerInv

\* A reply that was written is taken off the count of its connection.
LEMMA ReplyCompleteCounts ==
    ASSUME PoolInv, TrackerInv, NEW r \in Requests, ReplyComplete(r)
    PROVE  TrackerInv'
<1> DEFINE d == ConnOf[r]
<1>1. d \notin closed /\ d \in Connections /\ status[r] = "sent"
  BY Zenon DEF TrackerInv, ReplyComplete, Connections
<1>2. status' = [status EXCEPT ![r] = "done"] /\ closed' = closed
  BY Zenon DEF ReplyComplete, SetStatus
<1>3. /\ Cardinality(Tracked(d)') = Cardinality(Tracked(d)) - 1
      /\ Cardinality(Tracked(d)) \in Nat \ {0}
      /\ \A c \in Connections : c # d => Tracked(c)' = Tracked(c)
  BY <1>1, <1>2, TrackedRemove, Zenon DEF PoolInv, InService
<1>4. m_tracker[d] = Cardinality(Tracked(d))
  BY Zenon, <1>1 DEF TrackerInv
<1>5. m_tracker' = [m_tracker EXCEPT ![d] = @ - 1]
  BY <1>3, <1>4 DEF ReplyComplete, RemoveRequest
<1>6. \A q \in Requests : status'[q] = "sent" => ConnOf[q] \notin closed
  BY <1>2 DEF TrackerInv, PoolInv, TypeOK
<1> QED BY <1>1, <1>2, <1>3, <1>4, <1>5, <1>6 DEF TrackerInv

\* A connection that closes leaves the tracker, and none of its replies is left to be
\* written.
LEMMA CloseConnectionCounts ==
    ASSUME PoolInv, TrackerInv, NEW d \in Connections, CloseConnection(d)
    PROVE  TrackerInv'
<1>1. closed' = closed \cup {d}
  BY Zenon DEF CloseConnection
<1>2. \A r \in Requests :
        status'[r] = IF ConnOf[r] = d /\ status[r] = "sent" THEN "done" ELSE status[r]
  BY Zenon DEF CloseConnection
<1>3. \A c \in Connections : c # d => Tracked(c)' = Tracked(c)
  BY Zenon, <1>2 DEF Tracked
<1>4. m_tracker' = [m_tracker EXCEPT ![d] = 0]
  BY DEF CloseConnection, RemoveConnection, TrackerInv
<1>5. \A r \in Requests : status'[r] = "sent" => ConnOf[r] \notin closed'
  BY Zenon, <1>1, <1>2 DEF TrackerInv
<1> QED BY Zenon, <1>1, <1>3, <1>4, <1>5 DEF TrackerInv

\* The event loop sends a reply, or frees it when the connection is gone.
LEMMA SendReplyCounts ==
    ASSUME PoolInv, TrackerInv, NEW r \in Requests, SendReply(r)
    PROVE  TrackerInv'
<1> DEFINE d == ConnOf[r]
<1>1. status[r] = "reply" /\ UNCHANGED <<m_tracker, closed>>
  BY Zenon DEF SendReply
<1>2. CASE d \in closed
  <2>1. status' = [status EXCEPT ![r] = "done"]
    BY Zenon, <1>2 DEF SendReply, SetStatus
  <2>2. \A c \in Connections : c # d => Tracked(c)' = Tracked(c)
    BY Zenon, <2>1 DEF Tracked, PoolInv, TypeOK
  <2>3. \A q \in Requests : status'[q] = "sent" => ConnOf[q] \notin closed
    BY <2>1 DEF TrackerInv, PoolInv, TypeOK
  <2> QED BY Zenon, <1>1, <1>2, <2>2, <2>3 DEF TrackerInv
<1>3. CASE d \notin closed
  <2>1. status' = [status EXCEPT ![r] = "sent"]
    BY Zenon, <1>3 DEF SendReply, SetStatus
  <2> QED BY Zenon, <1>1, <1>3, <2>1, TrackedSame DEF PoolInv, TypeOK, InService
<1> QED BY Zenon, <1>2, <1>3

\* Every step keeps m_tracker in agreement with the requests in service.
LEMMA TrackerNext == PoolInv /\ TrackerInv /\ [Next]_vars => TrackerInv'
<1> SUFFICES ASSUME PoolInv, TrackerInv, [Next]_vars PROVE TrackerInv'
  BY Zenon
<1>1. CASE UNCHANGED <<status, m_tracker, closed>>
  BY Zenon, <1>1, TrackedSame
<1>2. CASE CheckDepth
  BY Zenon, <1>2, TrackedSame
  DEF CheckDepth, WriteReply, SetStatus, PoolInv, TypeOK, Submitting, InService
<1>3. CASE SubmitRequest
  BY Zenon, <1>3, TrackedSame
  DEF SubmitRequest, WriteReply, SetStatus, PoolInv, TypeOK, Submitting, InService
<1>4. ASSUME NEW t \in Workers \cup {Controller}, RunHandler(t) PROVE TrackerInv'
  <2>1. task[t] # NoTask
    BY Zenon, <1>4 DEF RunHandler, PoolInv, Holding
  <2>2. PICK q \in Requests : q = task[t]
    BY Zenon, <2>1 DEF PoolInv, TypeOK
  <2>3. status[q] = "accepted"
    BY Zenon, <2>1, <2>2 DEF PoolInv, OnePlace
  <2>4. status' = [status EXCEPT ![q] = "reply"] /\ UNCHANGED <<m_tracker, closed>>
    BY Zenon, <1>4, <2>2 DEF RunHandler, WriteReply, SetStatus
  <2> QED BY Zenon, <2>3, <2>4, TrackedSame DEF PoolInv, TypeOK, InService
<1>5. ASSUME NEW r \in Requests, Dispatch(r) PROVE TrackerInv'
  BY <1>5, TrackedSame DEF Dispatch, SetStatus, PoolInv, TypeOK, InService
<1>6. CASE StopHTTPServer \/ StartHTTPServer \/ InterruptHTTPServer \/ NotifySubmit
  BY Zenon, <1>1, <1>6 DEF StopHTTPServer, WaitUntilEmpty, StartHTTPServer, InterruptHTTPServer,
     NotifySubmit, http
<1>7. ASSUME NEW w \in Workers, WorkerStep(w) \/ (SpuriousWakeup(w) /\ UNCHANGED http)
      PROVE  TrackerInv'
  BY Zenon, <1>1, <1>4, <1>7 DEF WorkerStep, http
<1>8. CASE EventStep
  BY Zenon, <1>2, <1>3, <1>6, <1>8, TrackRequestCounts, SendReplyCounts DEF EventStep
<1>9. CASE UNCHANGED vars
  <2>1. http' = http
    BY Zenon, <1>9 DEF vars
  <2> QED BY Zenon, <1>1, <2>1 DEF http
<1> QED BY Zenon, <1>4, <1>5, <1>6, <1>7, <1>8, <1>9, ReplyCompleteCounts, CloseConnectionCounts
    DEF Next, ControllerStep
-----------------------------------------------------------------------------
QueueBounded == Len(m_work_queue) <= g_max_queue_depth

\* http_request_cb rejects a request when the queue has g_max_queue_depth tasks, so
\* no step takes the queue past it.
LEMMA QueueBoundedNext == PoolInv /\ QueueBounded /\ [Next]_vars => QueueBounded'
<1> SUFFICES ASSUME PoolInv, QueueBounded, [Next]_vars PROVE QueueBounded'
  BY Zenon
<1> USE DEF QueueBounded
<1>0. m_work_queue \in Seq(Requests) /\ Len(m_work_queue) \in Nat
  BY DEF PoolInv, TypeOK
<1>1. CASE UNCHANGED m_work_queue
  BY Zenon, <1>1
<1>2. ASSUME NEW t, Take(t) PROVE QueueBounded'
  BY <1>0, <1>2, TakeFacts
<1>3. CASE SubmitRequest
  <2>1. req \in Requests /\ Len(m_work_queue) < g_max_queue_depth
    BY Zenon, <1>3 DEF SubmitRequest, PoolInv, Submitting
  <2>2. Enqueue(req) \/ UNCHANGED m_work_queue
    BY Zenon, <1>3 DEF SubmitRequest
  <2>3. CASE Enqueue(req)
    BY <1>0, <2>1, <2>3, EnqueueFacts
  <2> QED BY Zenon, <1>1, <2>2, <2>3
<1>4. CASE StartHTTPServer \/ InterruptHTTPServer \/ UNCHANGED vars
  BY Zenon, <1>1, <1>4 DEF StartHTTPServer, Start, InterruptHTTPServer, vars, pool
<1>5. CASE StopHTTPServer
  BY Zenon, <1>1, <1>2, <1>5 DEF StopHTTPServer, Interrupt, InterruptNotify, Stop, NotifyStop,
     ProcessTask, Drained, Join, Reset, WaitUntilEmpty, pool
<1>6. ASSUME NEW t, RunHandler(t) PROVE QueueBounded'
  BY Zenon, <1>1, <1>6 DEF RunHandler
<1>7. ASSUME NEW w \in Workers, WorkerStep(w) \/ (SpuriousWakeup(w) /\ UNCHANGED http)
      PROVE  QueueBounded'
  BY Zenon, <1>1, <1>2, <1>6, <1>7 DEF WorkerStep, WorkerThread, WorkerWait, WorkerExit, WorkerTake,
     SpuriousWakeup, pool
<1>8. CASE EventStep
  <2>1. CASE TrackRequest \/ CheckDepth
    BY Zenon, <1>1, <2>1 DEF TrackRequest, CheckDepth, pool
  <2>2. CASE NotifySubmit
    BY Zenon, <1>1, <2>2 DEF NotifySubmit, pool
  <2>3. ASSUME NEW r, SendReply(r) PROVE QueueBounded'
    BY Zenon, <1>1, <2>3 DEF SendReply, pool
  <2> QED BY Zenon, <1>3, <1>8, <2>1, <2>2, <2>3 DEF EventStep
<1>9. ASSUME NEW r, Dispatch(r) \/ ReplyComplete(r) \/ CloseConnection(r) PROVE QueueBounded'
  BY Zenon, <1>1, <1>9 DEF Dispatch, ReplyComplete, CloseConnection, pool
<1> QED BY Zenon, <1>4, <1>5, <1>6, <1>7, <1>8, <1>9 DEF Next, ControllerStep

ServerInv == PoolInv /\ TrackerInv /\ QueueBounded

\* The inductive invariant of the HTTP server and its pool.
THEOREM ServerInvariant == Spec => []ServerInv
<1>1. Init => ServerInv
  <2>1. Init => QueueBounded
    BY DEF Init, InitPool, QueueBounded
  <2> QED BY Zenon, <2>1, PoolInit, TrackerInit DEF ServerInv
<1>2. ServerInv /\ [Next]_vars => ServerInv'
  BY Zenon, PoolNext, TrackerNext, QueueBoundedNext DEF ServerInv
<1> QED BY <1>1, <1>2, PTL DEF Spec

\* Once ThreadPool::Stop has joined its workers nothing is queued or running, and
\* every request that Submit accepted was handled exactly once.
THEOREM StopCompletes == Spec => []StopCompletesAccepted
<1>1. ServerInv => StopCompletesAccepted
  <2> SUFFICES ASSUME PoolInv, pc[Controller] \in AfterJoin
               PROVE  /\ m_work_queue = <<>>
                      /\ \A t \in Threads : task[t] = NoTask
                      /\ \A r \in Accepted :
                           Cardinality({i \in DOMAIN executed : executed[i] = r}) = 1
    BY Zenon DEF ServerInv, StopCompletesAccepted
  <2>1. m_work_queue = <<>>
    BY Zenon DEF PoolInv, Phases
  <2>2. \A t \in Threads : task[t] = NoTask
    BY Zenon DEF PoolInv, Phases, Holding
  <2>3. ASSUME NEW r \in Accepted
        PROVE  Cardinality({i \in DOMAIN executed : executed[i] = r}) = 1
    <3>1. r \in Requests /\ status[r] # "accepted"
      <4>1. r \in Requests
        BY Zenon DEF Accepted
      <4>2. DOMAIN m_work_queue = {}
        BY <2>1
      <4> QED BY <2>2, <4>1, <4>2 DEF PoolInv, OnePlace
    <3>2. PICK i \in DOMAIN executed : executed[i] = r
      BY Zenon, <3>1 DEF Accepted
    <3>3. {j \in DOMAIN executed : executed[j] = r} = {i}
      BY <3>2 DEF PoolInv, OnePlace
    <3> QED BY Zenon, <3>3, FS_Singleton
  <2> QED BY Zenon, <2>1, <2>2, <2>3
<1> QED BY <1>1, ServerInvariant, PTL

\* The queue stays within -rpcworkqueue, and the tracker counts the open requests of
\* each open connection.
THEOREM TrackerExact == Spec => []QueueAndTrackerExact
<1>1. ServerInv => QueueAndTrackerExact
  <2> SUFFICES ASSUME ServerInv PROVE QueueAndTrackerExact
    BY Zenon
  <2>1. \A c \in Connections : {r \in Open(c) : status[r] # "dispatched"} = Tracked(c)
    BY DEF ServerInv, PoolInv, TypeOK, StatusSet, Open, Tracked, InService
  <2> QED BY <2>1, Zenon DEF ServerInv, QueueBounded, TrackerInv, QueueAndTrackerExact
<1> QED BY <1>1, ServerInvariant, PTL
=============================================================================
