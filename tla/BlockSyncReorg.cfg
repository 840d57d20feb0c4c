CONSTANTS
    g = g  a1 = a1  a2 = a2  a3 = a3  b2 = b2  b3 = b3  b4 = b4  c1 = c1  c2 = c2  c3 = c3
    t1 = t1
    Blocks = {g, a1, a2, a3, b2, b3, b4}
    Txs = {t1}
    NoBlock = NoBlock
    Gone = Gone
    Missing = Missing
    MaxHeight = 4
    Height <- MCHeight
    Anc <- MCAnc
    BlockTxs <- MCBlockTxs
    IBDHeight = 0
    IBDLag = 10
    BlockChunk = 2
    HeaderChunk = 3
    PoolSize = 2
    MaxCrashes = 0
    MaxRescans = 0
SPECIFICATION Spec
CHECK_DEADLOCK FALSE
INVARIANT NotOnMainChainIsDeleted
