CONSTANTS
    t1 = t1  t2 = t2  t3 = t3  r1 = r1  r2 = r2
    Txs = {t1, t2, t3}
    NoTx = NoTx
    Requests = {r1}
    Scripts <- MCScripts
    LockTime <- MCLockTime
    MaxEntries = 3
    MaxDelta = 2
    StartHeight = 1
    MaxHeight = 5
    MaxReorgs = 0
    MaxCrashes = 0
    MaxFaults = 1
SPECIFICATION Spec
CHECK_DEADLOCK FALSE
INVARIANT KeptWhileUnreachable
