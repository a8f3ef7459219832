SPECIFICATION Spec
CONSTANTS
    o1 = o1
    o2 = o2
    c1 = c1
    c2 = c2
    u1 = u1
    b1 = b1
    b2 = b2
    Outpoints = {o1, o2}
    Coins = {c1, c2}
    Unspendable = {u1}
    Blocks = {b1, b2}
    NoCoin = NoCoin
    NoEntry = NoEntry
    Null = Null
SYMMETRY Symmetry
PROPERTIES CachesInvisible
INVARIANTS FlagsSound NoLogicError DirtyCountExact
