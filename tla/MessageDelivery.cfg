SPECIFICATION Spec
CONSTANTS
    a = a
    b = b
    f1 = f1
    f2 = f2
    Handlers <- MCHandlers
    Events <- MCEvents
    Kind <- MCKind
    Doc <- MCDoc
    Fields <- MCFields
    MaxAttempts = 2
    MaxDeliveries = 3
    MaxPolls = 1
    MaxSkew = 1
    MaxTime = 2
    None = None
INVARIANTS AckWritten NoFalseDuplicate FollowInv
PROPERTIES PollYields
CONSTRAINT MCBesidePoll
SYMMETRY MCSymmetry
CHECK_DEADLOCK FALSE
