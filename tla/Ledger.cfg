SPECIFICATION Spec
CONSTANTS
    t1 = t1
    t2 = t2
    t3 = t3
    t4 = t4
    r1 = r1
    r2 = r2
    Transfers <- Four
    RecipientOf <- Recipients
    CurrencyOf <- Currencies
    AmountOf <- Amount
    Home = "USD"
    Deposit = 3
    MaxBoots = 3
    MaxAborts = 2
CHECK_DEADLOCK FALSE
INVARIANTS
    TypeOK
    BooksExplainStatuses
    FundNeverShort
    FundedOnce
PROPERTIES
    RefinesLifecycle
