SPECIFICATION Spec
CONSTANTS
    c1 = c1
    c2 = c2
    Calls = {c1, c2}
    None = None
    Revoked = Revoked
    Rotations = {TRUE, FALSE}
    Budget = 2
    LeaseDuration = 4
    Safety = 2
    RequestLimit = 1
    Persist = 1
    Settle = 1
    Skew <- MCSkew
    MaxSkew = 1
    MaxGrants = 3
INVARIANTS OneRotation GrantInv
PROPERTIES NewestKept DeletedDead
