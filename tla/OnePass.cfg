SPECIFICATION Spec
CONSTANTS
    w1 = w1
    w2 = w2
    j1 = j1
    p1 = p1
    p2 = p2
    p3 = p3
    Workers <- TwoWorkers
    Jobs <- NoJob
    Passes <- ThreePasses
    MaxAttempts = 2
    ExtraAttempts = 1
    LongestTask = 1
    StaleSeconds = 4
    IdleSeconds = 1
    Delay = 1
    Interval = 1
    QueueSize = 1
    MaxKills = 0
    MaxStops = 0
    MaxRaises = 2
    MaxRequeues = 1
    MaxDeaf = 0
INVARIANTS
    OnePassAtATime
