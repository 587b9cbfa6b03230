SPECIFICATION FairSpec
CONSTANTS
    t1 = t1
    t2 = t2
    w1 = w1
    w2 = w2
    Transfers <- OneTransfer
    Workers <- TwoWorkers
    Mismatched <- NoTransfers
    MaxCrashes = 1
    MaxRaises = 1
    MaxRequeues = 1
    Opening = 1
    SettleSlots = 4
    MaxAttempts = 1
    ExtraAttempts = 2
INVARIANTS
    NoFalseOrphan
    RetryBudgetRespected
    PaidMeansPaid
    GivenUpStaysSo
PROPERTIES
    AuthorizedEnds
    AccountedForGood
