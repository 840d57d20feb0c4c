CONSTANTS
    g = g  a1 = a1  a2 = a2  a3 = a3  b2 = b2  b3 = b3  b4 = b4  c1 = c1  c2 = c2  c3 = c3
    t1 = t1
    Blocks = {g, a1, a2, a3, c1, c2}
    Txs = {t1}
    NoBlock = NoBlock
    Gone = Gone
    Missing = Missing
    MaxHeight = 3
    Height <- MCHeight
    Anc <- MCAnc
    BlockTxs <- MCBlockTxs
    IBDHeight = 0
    IBDLag = 2
    BlockChunk = 2
    HeaderChunk = 3
    PoolSize = 2
    MaxCrashes = 2
    MaxRescans = 1
SPECIFICATION FairSpec
CHECK_DEADLOCK FALSE
INVARIANTS TypeOK OrphansArePending OneBranch NoGap RowsAreComplete
PROPERTIES ConfirmationIsCancelledFirst EventuallySynced EventuallyConfirmed
