SPECIFICATION FairSpec
CONSTANTS
    b1 = b1
    b2 = b2
    t1 = t1
    t2 = t2
    r1 = r1
    Browsers <- TwoBrowsers
    Transfers <- TwoTransfers
    Runs <- OneRun
    Watched <- Detail
    MaxTogether = 2
    QueueSize = 1
    MaxCommits = 1
    MaxFaults = 2
INVARIANTS
    TypeOK
    NothingGoesUnseen
PROPERTIES
    CatchesUp
    GoesLive
