SPECIFICATION FairSpec
CONSTANTS
    Goroutines = {a, b}
    None = None
    Empty = Empty
    JWKSRefresh = 1
    JWKSMaxStale = 1
    FetchTimeout = 1
    AccessTTL = 1
    RotateEvery = 3
    MaxRotations = 2
    MaxTime = 6
INVARIANTS
    TypeOK
    SeamlessRotation
    TrustBound
PROPERTIES
    CatchesUp
    NoOlderAnswer
