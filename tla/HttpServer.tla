------------------------------ MODULE HttpServer ------------------------------
(***************************************************************************)
(* The HTTP server of the RPC interface (httpserver.cpp) on top of the     *)
(* thread pool g_threadpool_http.  The event thread (Submitter) runs       *)
(* http_request_cb and sends the replies; the workers run the handlers;    *)
(* the controller runs StartHTTPServer, InterruptHTTPServer and            *)
(* StopHTTPServer.                                                         *)
(*                                                                         *)
(* A request is a member of Requests; its life is `status'.  libevent is   *)
(* external: it serves one request of a connection at a time, reads the    *)
(* generic callback before it calls it, runs one event of the loop at a    *)
(* time, and reports that a reply was written or that a connection closed. *)
(***************************************************************************)
EXTENDS ThreadPool

CONSTANTS
    Requests,          \* bound: the requests that arrive
    ConnOf,            \* the evhttp_connection of each request
    g_max_queue_depth  \* -rpcworkqueue

ASSUME HttpServerAssumption ==
    /\ g_max_queue_depth \in Nat \ {0}
    /\ IsFiniteSet(Requests) /\ NoTask \notin Requests

Connections == {ConnOf[r] : r \in Requests}

VARIABLES
    gencb,      \* the callback evhttp_set_gencb installed: "request" or "reject"
    status,     \* how far each request is
    req,        \* the request http_request_cb is working on
    m_tracker,  \* HTTPRequestTracker: open requests of each connection, 0 if absent
    closed      \* connections the peer or a timeout has closed

http == <<gencb, status, req, m_tracker, closed>>
vars == <<pool, pc, http>>

Init ==
    /\ InitPool
    /\ gencb = "request"
    /\ status = [r \in Requests |-> "none"]
    /\ req = NoTask
    /\ m_tracker = [c \in Connections |-> 0]
    /\ closed = {}

SetStatus(r, s) == status' = [status EXCEPT ![r] = s]

\* The requests of connection c that libevent has handed out and not finished.
Open(c) == {r \in Requests : ConnOf[r] = c /\ status[r] \notin {"none", "rejected", "done"}}
-----------------------------------------------------------------------------
(* HTTPRequestTracker. *)

\* RemoveConnectionInternal: erase, and notify WaitUntilEmpty if nothing is left.
\* pc is the program counter of all threads, the caller's included.
NotifyEmptyMutant(tracker, p) == p
NotifyEmpty(tracker, p) ==
    IF p[Controller] = "cvwait" /\ \A c \in Connections : tracker[c] = 0
    THEN [p EXCEPT ![Controller] = "waitEmpty"]
    ELSE p

AddRequest(r) == m_tracker' = [m_tracker EXCEPT ![ConnOf[r]] = @ + 1]

RemoveRequest(r) ==
    LET c == ConnOf[r]
    IN IF m_tracker[c] > 0
       THEN /\ m_tracker' = [m_tracker EXCEPT ![c] = @ - 1]
            /\ pc' = IF m_tracker[c] = 1 THEN NotifyEmpty(m_tracker', pc) ELSE pc
       ELSE UNCHANGED <<m_tracker, pc>>

RemoveConnection(c) ==
    IF m_tracker[c] > 0
    THEN /\ m_tracker' = [m_tracker EXCEPT ![c] = 0]
         /\ pc' = NotifyEmpty(m_tracker', pc)
    ELSE UNCHANGED <<m_tracker, pc>>
-----------------------------------------------------------------------------
(* The event thread. *)

EventLoop == pc[Submitter] = "idle" /\ pc[Controller] # "start"

\* libevent reads the generic callback for a parsed request; the rejecting one
\* (http_reject_request_cb) answers at once.
Dispatch(r) ==
    /\ EventLoop /\ status[r] = "none"
    /\ ConnOf[r] \notin closed /\ Open(ConnOf[r]) = {}
    /\ IF gencb = "request"
       THEN SetStatus(r, "dispatched") /\ req' = r /\ Goto(Submitter, "add")
       ELSE SetStatus(r, "rejected") /\ UNCHANGED <<req, pc>>
    /\ UNCHANGED <<pool, gencb, m_tracker, closed>>

\* WriteReply: the reply event is made active on the event loop.
WriteReply(r) == SetStatus(r, "reply")

\* http_request_cb tracks the request and rejects early what it will not serve
\* (address, method, unknown path), or goes on to dispatch it to a worker.
TrackRequest ==
    /\ pc[Submitter] = "add"
    /\ AddRequest(req)
    /\ \/ WriteReply(req) /\ Goto(Submitter, "idle")
       \/ SetStatus(req, "tracked") /\ Goto(Submitter, "depth")
    /\ UNCHANGED <<pool, gencb, req, closed>>

\* WorkQueueSize() >= g_max_queue_depth.
DepthExceededMutant == Len(m_work_queue) > g_max_queue_depth
DepthExceeded == Len(m_work_queue) >= g_max_queue_depth

CheckDepth ==
    /\ pc[Submitter] = "depth"
    /\ IF DepthExceeded
       THEN WriteReply(req) /\ Goto(Submitter, "idle")
       ELSE Goto(Submitter, "submit") /\ UNCHANGED status
    /\ UNCHANGED <<pool, gencb, req, m_tracker, closed>>

\* ThreadPool::Submit, in a critical section of its own; both errors are
\* answered with 503.
SubmitRequest ==
    /\ pc[Submitter] = "submit"
    /\ \/ /\ Enqueue(req)
          /\ SetStatus(req, "accepted") /\ Goto(Submitter, "notify")
       \/ /\ ~Accepts
          /\ WriteReply(req) /\ Goto(Submitter, "idle")
          /\ UNCHANGED m_work_queue
    /\ UNCHANGED <<m_interrupt, m_workers, task, threads_to_join, executed,
                   gencb, req, m_tracker, closed>>

SubmitNotifyMutant == Goto(Submitter, "idle")
SubmitNotify == NotifyOne(Submitter, "idle")

NotifySubmit ==
    /\ pc[Submitter] = "notify"
    /\ SubmitNotify
    /\ UNCHANGED <<pool, http>>

\* The reply event runs: evhttp_send_reply.  On a closed connection it only
\* frees the request.
SendReply(r) ==
    /\ EventLoop /\ status[r] = "reply"
    /\ SetStatus(r, IF ConnOf[r] \in closed THEN "done" ELSE "sent")
    /\ UNCHANGED <<pool, pc, gencb, req, m_tracker, closed>>

\* The reply has been written: the on_complete callback.
ReplyComplete(r) ==
    /\ EventLoop /\ status[r] = "sent"
    /\ SetStatus(r, "done")
    /\ RemoveRequest(r)
    /\ UNCHANGED <<pool, gencb, req, closed>>

\* The connection is closed by the peer or by -rpcservertimeout: the close
\* callback.  A request that still has no reply keeps running.
CloseConnection(c) ==
    /\ EventLoop /\ c \notin closed /\ Open(c) # {}
    /\ closed' = closed \cup {c}
    /\ status' = [r \in Requests |->
                     IF ConnOf[r] = c /\ status[r] = "sent" THEN "done" ELSE status[r]]
    /\ RemoveConnection(c)
    /\ UNCHANGED <<pool, gencb, req>>
-----------------------------------------------------------------------------
\* A worker, or the controller inside Stop, runs a handler.  It replies, or it
\* throws and the wrapper replies, or it returns and ~HTTPRequest replies.
RunHandler(t) ==
    /\ pc[t] = "run"
    /\ Finish(t)
    /\ WriteReply(task[t])
    /\ Goto(t, IF t = Controller THEN "drain" ELSE "lock")
    /\ UNCHANGED <<m_work_queue, m_interrupt, m_workers, threads_to_join,
                   gencb, req, m_tracker, closed>>
-----------------------------------------------------------------------------
(* The controller. *)

StartHTTPServer == Start("serving") /\ UNCHANGED http

\* InterruptHTTPServer replaces the callback and then interrupts the pool.
InterruptHTTPServer ==
    /\ pc[Controller] = "serving"
    /\ gencb' = "reject"
    /\ Goto(Controller, "interrupt")
    /\ UNCHANGED <<pool, status, req, m_tracker, closed>>

\* StopHTTPServer: ThreadPool::Stop, then WaitUntilEmpty.
WaitUntilEmpty ==
    /\ pc[Controller] = "waitEmpty"
    /\ Goto(Controller, IF \A c \in Connections : m_tracker[c] = 0
                        THEN "stopped" ELSE "cvwait")
    /\ UNCHANGED <<pool, http>>

StopHTTPServer ==
    \/ /\ \/ Interrupt \/ InterruptNotify("stop") \/ Stop \/ NotifyStop
          \/ ProcessTask \/ Drained \/ Join \/ Reset("waitEmpty")
       /\ UNCHANGED http
    \/ WaitUntilEmpty
-----------------------------------------------------------------------------
WorkerStep(w) == (WorkerThread(w) /\ UNCHANGED http) \/ RunHandler(w)

\* Steps the event thread owes once something has happened.
EventStep ==
    \/ TrackRequest \/ CheckDepth \/ SubmitRequest \/ NotifySubmit
    \/ \E r \in Requests : SendReply(r)

\* libevent reports the end of a reply: written, or the connection is gone.
ReplyEnds(r) == ReplyComplete(r) \/ (status[r] = "sent" /\ CloseConnection(ConnOf[r]))

ControllerStep == StopHTTPServer \/ RunHandler(Controller)

Next ==
    \/ StartHTTPServer \/ InterruptHTTPServer \/ ControllerStep
    \/ \E w \in Workers : WorkerStep(w) \/ (SpuriousWakeup(w) /\ UNCHANGED http)
    \/ EventStep
    \/ \E r \in Requests : Dispatch(r) \/ ReplyComplete(r)
    \/ \E c \in Connections : CloseConnection(c)

\* Threads that can run keep running; a reply is written or its connection
\* times out (-rpcservertimeout).  No request has to arrive, no connection has
\* to close otherwise, and nobody has to ask for the shutdown.
Fairness ==
    /\ \A w \in Workers : WF_vars(WorkerStep(w))
    /\ WF_vars(EventStep) /\ WF_vars(ControllerStep)
    /\ \A r \in Requests : WF_vars(ReplyEnds(r))

Spec == Init /\ [][Next]_vars /\ Fairness
-----------------------------------------------------------------------------
\* The requests Submit accepted: queued, being handled, or handled.
Accepted == {r \in Requests : \/ status[r] = "accepted"
                              \/ \E i \in DOMAIN executed : executed[i] = r}

\* Once Stop has joined the workers no task is queued or running, and every
\* task that Submit accepted has run, exactly once ("blocks until all the
\* queued ones are completed", util/threadpool.h:44; the Assume at line 149).
StopCompletesAccepted ==
    pc[Controller] \in {"reset", "waitEmpty", "cvwait", "stopped"} =>
        /\ m_work_queue = <<>>
        /\ \A t \in Threads : task[t] = NoTask
        /\ \A r \in Accepted : Cardinality({i \in DOMAIN executed : executed[i] = r}) = 1

\* The work queue never exceeds -rpcworkqueue, although http_request_cb tests
\* its size in one critical section and appends in another (httpserver.cpp:255).
\* The tracker counts exactly the open requests of the connections that are
\* still there, so that WaitUntilEmpty waits for each reply and no longer.
QueueAndTrackerExact ==
    /\ Len(m_work_queue) <= g_max_queue_depth
    /\ \A c \in Connections :
         m_tracker[c] = IF c \in closed THEN 0
                        ELSE Cardinality({r \in Open(c) : status[r] # "dispatched"})

\* A request that a worker was asked to handle is answered, also when the server
\* is interrupted or stopped in between ("Reply so the client doesn't hang
\* waiting for the response", httpserver.cpp:273).
AcceptedAnswered ==
    \A r \in Requests : (status[r] = "accepted") ~> (status[r] = "done")

\* StopHTTPServer gets past its two waits: every worker returns and is joined, and
\* WaitUntilEmpty is told of the last reply.
StopReturns == (pc[Controller] = "stop") ~> (pc[Controller] = "stopped")
=============================================================================
