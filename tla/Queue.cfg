SPECIFICATION Spec
CONSTANTS
    w1 = w1
    w2 = w2
    j1 = j1
    p1 = p1
    p2 = p2
    p3 = p3
    Workers <- TwoWorkers
    Jobs <- OneJob
    Passes <- TwoPasses
    MaxAttempts = 2
    ExtraAttempts = 1
    LongestTask = 1
    StaleSeconds = 1
    IdleSeconds = 2
    Delay = 1
    Interval = 2
    QueueSize = 1
    MaxKills = 1
    MaxStops = 1
    MaxRaises = 0
    MaxRequeues = 1
    MaxDeaf = 1
SYMMETRY WorkersAlike
INVARIANTS
    TypeOK
    RunByOne
    NothingLiesAbout
    NoLostWakeup
    StopsInTime
PROPERTIES
    RefinesQueue
