SPECIFICATION FairSpec
CONSTANTS
    w1 = w1
    w2 = w2
    j1 = j1
    p1 = p1
    p2 = p2
    p3 = p3
    Workers <- OneWorker
    Jobs <- OneJob
    Passes <- ThreePasses
    MaxAttempts = 2
    ExtraAttempts = 1
    LongestTask = 1
    StaleSeconds = 3
    IdleSeconds = 1
    Delay = 1
    Interval = 1
    QueueSize = 1
    MaxKills = 1
    MaxStops = 0
    MaxRaises = 2
    MaxRequeues = 1
    MaxDeaf = 1
PROPERTIES
    EveryTaskEnds
    PassesGoOn
    ChainsMerge
