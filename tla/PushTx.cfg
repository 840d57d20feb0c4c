CONSTANTS
    t1 = t1  t2 = t2  t3 = t3  r1 = r1  r2 = r2
    Txs = {t1, t2, t3}
    NoTx = NoTx
    Requests = {r1}
    Scripts <- MCScripts
    LockTime <- MCLockTime
    MaxEntries = 3
    MaxDelta = 2
    StartHeight = 1
    MaxHeight = 6
    MaxReorgs = 1
    MaxCrashes = 1
    MaxFaults = 1
SPECIFICATION FairSpec
CHECK_DEADLOCK FALSE
INVARIANTS TypeOK PushedInOrder NeverEarly NothingLost ShiftedOnce
PROPERTIES EventuallyPushed
