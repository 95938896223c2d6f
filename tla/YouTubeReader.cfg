SPECIFICATION Spec
CONSTANTS
    a = a
    b = b
    Readers <- MCReaders
    Videos = 1
    Feed <- MCFeed
    None = None
    Left = Left
    MaxFaults = 1
INVARIANTS NothingSkipped OfflineInv
PROPERTIES LeaseKept LiveShown EndShown
CHECK_DEADLOCK FALSE
