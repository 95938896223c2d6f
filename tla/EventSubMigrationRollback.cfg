SPECIFICATION MigrationSpec
CONSTANTS
    NoSub = NoSub
    Modes <- BothWays
    MaxAttempts = 1
    RetryFailed = TRUE
    MaxIds = 6
    MaxFaults = 1
INVARIANT RolledBackRestores
CHECK_DEADLOCK FALSE
