SPECIFICATION FairPipelineSpec
CONSTANTS
    Requests = {r1, r2}
    Keys = {k1}
    MaxConcurrency = 1
    QueueSize = 1
    RatePerMinute = 2
    Window = 1
    MaxTime = 0
    Direct = {d1, d2}
    PoolSize = 1
    Threads = 2
    MaxRestarts = 1
INVARIANTS PipelineTypeOK SlotHasThread
PROPERTIES EveryCallAnswered RequestServed ImplementsLimiter
