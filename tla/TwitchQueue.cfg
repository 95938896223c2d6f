SPECIFICATION FairSpec
CONSTANTS
    App = App
    NoItem = NoItem
    Channels = {a, b}
    Capacity = 2
    MaxAttempts = 2
    BusyDelay = 1
    Backoff <- MCBackoff
    LeaseTTL = 1
    Minute = 1
    MaxReset = 1
    CostInterval = 1
    RemovedTTL = 1
    Idle = 1
    MaxRequests = 3
INVARIANTS NotForgotten NoLostWake
PROPERTIES FreedCostUsed EventuallyRuns HeldRechecked
