CONSTANTS
    g = g
    f = f
    a1 = a1
    a2 = a2
    b1 = b1
    x = x
    y = y
    z = z
    w = w
    Blocks = {g, f, a1, a2, b1}
    Genesis = g
    Parent <- MCParent
    NoBlock = NoBlock
    Outpoints = {x, y, z, w}
    Settings <- WriteErrors
SPECIFICATION Spec
INVARIANT
    BestBlockConsistent
CHECK_DEADLOCK FALSE
