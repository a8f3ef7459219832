SPECIFICATION Spec
CONSTANTS
    w1 = w1
    w2 = w2
    m1 = m1
    Workers = {w1, w2}
    Masters = {m1}
    NoThread = NoThread
    nBatchSize = 2
    MaxChecks = 4
    MaxAdd = 4
INVARIANTS VerdictCorrect CountersExact FinishedWhenReleased
PROPERTY ThreadsReturn
