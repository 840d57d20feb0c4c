CONSTANTS
    xa = xa xb = xb a1 = a1 a2 = a2 b1 = b1 l1 = l1 ca = ca cb = cb cl = cl cm = cm
    Accounts = {xa, xb}
    NoAccount = NoAccount
    WalletAddrs = {a1, a2, b1, l1}
    Owner <- MCOwner
    Coins = {ca, cb, cl, cm}
    CoinTx <- MCCoinTx
    CoinAddr <- MCCoinAddr
    SpentBy <- MCSpentBy
    Value <- MCValue
    Asks <- MCAsks
    AccountsAtStart = {xa}
    AddrsAtStart = {}
    TxsAtStart = 2
    PageSize = 2
    MaxWalletTx = 3
    MaxDbFailures = 0
SPECIFICATION WalletSpec
CHECK_DEADLOCK FALSE
INVARIANT BalanceAfterLatest
