SPECIFICATION Spec
CONSTANTS
    g = g
    a1 = a1
    a2 = a2
    b1 = b1
    b2 = b2
    Blocks = {g, a1, a2, b1, b2}
    Path <- MCPath
    NoBlock = NoBlock
    StartTip = a1
    MaxChainSteps = 4
    MaxFlushes = 1
    MaxFaults = 1
    MaxRestarts = 1
CHECK_DEADLOCK FALSE
INVARIANTS FoundUntilLost CaughtUp
PROPERTY EventuallySynced
