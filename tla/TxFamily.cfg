CONSTANTS
    p = p  b = b  c = c  d = d  p0 = p0  b0 = b0
    l1 = l1  l2 = l2  x1 = x1
    Order <- Family
    Pays <- MCPays
    Spends <- MCSpends
    Genesis = {p}
    Pushed = {}
    OnlyMined = {b, d}
    Loops = {l1}
    Pushers = {}
    Block = Block
    MaxBlocks = 1
    MaxEvictions = 0
    MaxCrashes = 0
SPECIFICATION FairSpec
CHECK_DEADLOCK FALSE
INVARIANTS BlockIsRegistered
