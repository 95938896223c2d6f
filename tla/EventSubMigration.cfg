SPECIFICATION FairSpec
CONSTANTS
    NoSub = NoSub
    Modes <- BothWays
    MaxAttempts = 1
    RetryFailed = TRUE
    MaxIds = 10
    MaxFaults = 3
INVARIANTS CheckpointInv
PROPERTIES BreakRecorded OriginalKept GapClosed
CHECK_DEADLOCK FALSE
