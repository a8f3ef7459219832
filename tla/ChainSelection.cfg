CONSTANTS
    g = g
    a1 = a1
    a2 = a2
    b1 = b1
    b2 = b2
    b3 = b3
    Blocks <- MCBlocks
    Genesis = g
    Parent <- MCParent
    Addr <- MCAddr
    NoBlock = NoBlock
    MaxUnlinked = 2
    MaxSequenceId = 13
    MaxPrecious = 2
    Scenarios <- PassingScenarios
SPECIFICATION Spec
INVARIANTS
    CandidatesExact
    FailuresExcluded
    TipIsBest
    UnlinkedExact
    ConnectHasData
PROPERTIES
    ProgressBeforeUnlock
    Settles
CHECK_DEADLOCK FALSE
