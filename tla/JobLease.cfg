SPECIFICATION JobSpec
CONSTANTS
    a = a
    b = b
    Replicas <- Two
    Skew <- Ahead
    MaxSkew = 1
    SlotLength = 5
    Timeout = 2
    Margin = 5
    AcquireLimit = 1
    FinishLimit = 1
    Settle = 0
    Lag = 1
    None = None
    MaxTime = 11
INVARIANTS OneRunner FinishLive
CHECK_DEADLOCK FALSE
