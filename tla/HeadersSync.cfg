SPECIFICATION Spec
CONSTANTS
    m1 = m1
    m2 = m2
    m3 = m3
    m4 = m4
    m5 = m5
    m6 = m6
    m7 = m7
    m8 = m8
    x3 = x3
    x4 = x4
    x5 = x5
    x6 = x6
    x7 = x7
    x8 = x8
    y3 = y3
    Root = Root
    NoHeader = NoHeader
    Headers = {m1, m2, m3, m4, m5, m6, m7, m8, x3, x4, x5, x6, x7, x8, y3}
    HonestTips = {m5, m6}
    Path <- MCPath
    nBits <- MCnBits
    Salts <- MCSalts
    Invalid = {y3}
    Early = {m3, x4}
    Unsound = {m2}
    commitment_period = 2
    redownload_buffer_size = 3
    m_max_commitments = 3
    minimum_required_work = 7
    max_headers_result = 2
    DifficultyAdjustmentInterval = 4
CHECK_DEADLOCK FALSE
INVARIANTS ReleasedEarned MemoryBounded
PROPERTY HonestSyncCompletes
