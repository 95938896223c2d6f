SPECIFICATION JoinSpec
CONSTANTS
    a = a
    b = b
    r1 = r1
    r2 = r2
    Joins <- MCJoins
    Replicas <- MCReplicas
    Anonymous = 1
    Second = 2
    Skew <- MCDiffer
    MaxSkew = 1
    MaxShutdowns = 1
    NoJoin = NoJoin
INVARIANTS GateInv OneReader
PROPERTIES Spaced
CONSTRAINT MCApart
SYMMETRY MCSymmetry
CHECK_DEADLOCK FALSE
