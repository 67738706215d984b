SPECIFICATION Spec
CONSTANTS
    Workers = {w1, w2}
    Ids = {s1, s2, s3}
    Users = {u1}
    None = None
    RefreshTTL = 1
    Grace = 1
    MaxTime = 3
SYMMETRY Symmetry
INVARIANTS
    TypeOK
    SingleRotation
    OneActivePerFamily
    RevocationCovers
    ReplayDetected
    ReplayWindow
PROPERTY
    ImplementsRefreshTokens
CHECK_DEADLOCK FALSE
