SPECIFICATION FairSpec
CONSTANTS
    a = a
    b = b
    c = c
    d = d
    e = e
    k1 = k1
    k2 = k2
    Requests <- Everyone
    Keys <- TwoKeys
    KeyOf <- SharedKey
    BodyOf <- Bodied
    Opening = 4
    MaxSends <- Patience
CHECK_DEADLOCK FALSE
INVARIANTS
    TypeOK
    FundNeverOverdrawn
    KeyWorksOnce
    EveryDollarHasItsKey
    SameAnswerForAll
    NobodyIsToldToWait
    DecidedAgainstOneBalance
PROPERTIES
    RefinesOncePerKey
    EveryRequestEnds
