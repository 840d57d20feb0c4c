CONSTANTS
    r1 = r1  r2 = r2  xpub = xpub
    Requests = {r1, r2}
    Tracker = Tracker
    Orders <- MCOrders
    Schemes = {"BIP44", "BIP84"}
    DefaultScheme = "BIP44"
    Gap <- MCGap
    Account = xpub
    NoRow = NoRow
    FirstUsed <- MCUsed
    Payable <- MCPayable
    MaxFailures = 1
SPECIFICATION Spec
CHECK_DEADLOCK FALSE
INVARIANTS TypeOK ClaimsAreExclusive ImportIsComplete GapIsAhead AddressesMatchScheme
