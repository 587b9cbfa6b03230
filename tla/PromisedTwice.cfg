SPECIFICATION Spec
CONSTANTS
    t1 = t1
    t2 = t2
    w1 = w1
    w2 = w2
    Transfers <- TwoTransfers
    Workers <- OneWorker
    Mismatched <- NoTransfers
    MaxCrashes = 1
    MaxRaises = 0
    MaxRequeues = 0
    Opening = 1
    SettleSlots = 2
    MaxAttempts = 2
    ExtraAttempts = 1
INVARIANTS
    NoDollarPromisedTwice
