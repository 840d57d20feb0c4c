CONSTANTS
    r1 = r1  r2 = r2  xpub = xpub
    Requests = {r1, r2}
    Tracker = Tracker
    Orders <- LockOrders
    Schemes = {"BIP44", "BIP84"}
    DefaultScheme = "BIP44"
    Gap <- MCGap
    Account = xpub
    NoRow = NoRow
    FirstUsed <- MCUsed
    Payable = {}
    MaxFailures = 0
SPECIFICATION Spec
CHECK_DEADLOCK FALSE
PROPERTY LockedSchemeIsKept
