SPECIFICATION Spec
CONSTANTS
    w1 = w1
    w2 = w2
    r1 = r1
    r2 = r2
    r3 = r3
    c1 = c1
    c2 = c2
    Workers = {w1, w2}
    Controller = Controller
    Submitter = Submitter
    NoTask = NoTask
    Requests = {r1, r2, r3}
    ConnOf <- MCConnOf
    g_max_queue_depth = 1
CHECK_DEADLOCK FALSE
INVARIANTS StopCompletesAccepted QueueAndTrackerExact
PROPERTIES AcceptedAnswered StopReturns
