SPECIFICATION Spec
CONSTANTS
    t1 = t1
    t2 = t2
    w1 = w1
    w2 = w2
    Transfers <- OneTransfer
    Workers <- TwoWorkers
    Mismatched <- NoTransfers
    MaxCrashes = 0
    MaxRaises = 0
    MaxRequeues = 0
    Opening = 1
    SettleSlots = 2
    MaxAttempts = 2
    ExtraAttempts = 1
INVARIANTS
    ClosedOnce
