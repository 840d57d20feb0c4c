CONSTANTS
    p = p  b = b  c = c  d = d  p0 = p0  b0 = b0
    l1 = l1  l2 = l2  x1 = x1
    Order <- Rivals
    Pays <- MCPays
    Spends <- MCSpends
    Genesis = {p}
    Pushed = {b}
    OnlyMined = {}
    Loops = {l1}
    Pushers = {x1}
    Block = Block
    MaxBlocks = 1
    MaxEvictions = 1
    MaxCrashes = 1
SPECIFICATION MCSpec
CHECK_DEADLOCK FALSE
INVARIANTS TypeOK AloneIsComplete
PROPERTIES AloneIsRegistered GhostsVanish
