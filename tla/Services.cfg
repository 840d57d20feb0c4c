CONSTANTS
    p1 = p1  p2 = p2  c1 = c1  c2 = c2  x = x  y = y  xy = xy  s1 = s1
    k1 = k1  n1 = n1  n2 = n2  t1 = t1  t2 = t2  u1 = u1  u2 = u2  w1 = w1  w2 = w2
    q1 = q1  q2 = q2  g1 = g1  g2 = g2  s2 = s2  k2 = k2  v1 = v1  v2 = v2
    Producers = {p1, p2}
    Work <- MCWork
    NoItem = NoItem
    HighWaterMark = 2
    ChunkSize = 2
    Clients = {c1, c2}
    Topics = {x, y}
    NoTopic = NoTopic
    BlockTopic = BlockTopic
    Entities = {x, xy}
    TopicsOf <- MCTopicsOf
    KeyedTopics <- MCKeyedTopics
    Sessions = {s1}
    Ends <- MCEnds
    AuthMandatory = TRUE
    MaxMessages = 3
    ApiKeys = {k1}
    ConfiguredKeys = {s1}
    AdminKey = AdminKey
    Nonces = {n1, n2}
    MaxNonces = 1
    NonceTtl = 2
    AccessExpires = 1
    RefreshExpires = 2
    Expiries = {2}
    MaxTime = 4
    MaxTokens = 3
    Idle = Idle  Asked = Asked  Failed = Failed
    MaxTip = 3
    MaxLost = 1
    MaxErrors = 1
    MaxCalls = 1
    PandoTxs = {t1, t2}
    Nodes = {u1, u2}
    NoNode = NoNode
    NoEntry = NoEntry
    Watchdogs = {w1, w2}
    MaxNbAttempts = 2
    MaxPushes = 2
    MaxExpiries = 1
    xa = xa xb = xb a1 = a1 a2 = a2 b1 = b1 l1 = l1 ca = ca cb = cb cl = cl cm = cm
    Accounts = {xa, xb}
    NoAccount = NoAccount
    WalletAddrs = {a1, a2, b1, l1}
    Owner <- MCOwner
    Coins = {ca, cb, cl, cm}
    CoinTx <- MCCoinTx
    CoinAddr <- MCCoinAddr
    SpentBy <- MCSpentBy
    Value <- MCValue
    Asks <- MCAsks
    AccountsAtStart = {xa}
    AddrsAtStart = {}
    TxsAtStart = 2
    PageSize = 2
    MaxWalletTx = 3
    MaxDbFailures = 1
    Writers = {q1, q2}
    Upserts = {q1}
    Readers = {g1, g2}
    Streams = {g2}
    Conns = {s1, s2}
    NoConn = NoConn
    RowKeys = {k1, k2}
    RowVals = {v1, v2}
    Inserts <- MCInserts
    Lookups <- MCLookups
    StoredAtStart <- MCTables
    ByteLimit = 3
    MaxRows = 2
    foundRows = TRUE
    MaxRetries = 1
    MaxRemovals = 1
    MaxCallers = 2
    d1 = d1 d2 = d2 d3 = d3 e1 = e1 e2 = e2 e3 = e3 f1 = f1
    ScriptAddrs = {d1, d2, d3}
    FirstHistories <- MCHistories
    AddressLists <- MCAddressLists
    AddrFilterThreshold = 4
    NbTxsPerPage = 2
    ScriptHashChunk = 2
    PoolLimit = 2
    MaxArrivals = 1
    MaxSourceErrors = 1
    HdKeys = {e1, e2}
    PostmixKeys = {e2}
    BrokenKeys = {e3}
    FirstTypes <- MCFirstTypes
    Deriving = {f1}
    IndexRanges <- MCIndexRanges
    ParallelThreshold = 2
    MaxPoolErrors = 1
SPECIFICATION Spec
CHECK_DEADLOCK FALSE
INVARIANTS
    ServicesTypeOK
    BackPressureWorks SubscriptionsAreAlive GrantsExpire
    NotForgotten WalletAddsUp ReadsAsOne
    SourcesTellAll SameAddresses
PROPERTIES
    EveryRangeReturns ImplementsFifo
    OwnTopicsOnly
    OneSessionPerApproval
    RunningCachesCatchUp
    EveryEmissionEnds WritesAsOne
