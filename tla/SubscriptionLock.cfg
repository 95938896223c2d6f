SPECIFICATION FairSpec
CONSTANTS
    reconcile = reconcile
    remove = remove
    subscribe = subscribe
    None = None
    NoJob = NoJob
    Calls <- MCCalls
    Jobs <- MCJobs
    Job <- MCJob
    Wait <- MCWait
    WaitLimit <- MCWaitLimit
    Beside <- MCBeside
    Skew <- MCSkew
    LeaseTTL = 5
    WorkLimit = 1
    Lag = 1
    Settle = 1
    MaxSkew = 1
INVARIANTS Exclusion
PROPERTIES SerialSpec Answered
