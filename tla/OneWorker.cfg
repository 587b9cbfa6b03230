SPECIFICATION Spec
CONSTANTS
    t1 = t1
    t2 = t2
    w1 = w1
    w2 = w2
    Transfers <- TwoTransfers
    Workers <- OneWorker
    Mismatched <- OneTransfer
    MaxCrashes = 1
    MaxRaises = 1
    MaxRequeues = 1
    Opening = 2
    SettleSlots = 3
    MaxAttempts = 2
    ExtraAttempts = 1
INVARIANTS
    TypeOK
    BooksMatchStatus
    BooksFollowProvider
PROPERTIES
    RefinesLifecycle
    RecoveryRespectsProvider
    MismatchNotHealed
