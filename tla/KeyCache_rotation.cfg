SPECIFICATION Spec
CONSTANTS
    Goroutines = {a}
    None = None
    Empty = Empty
    JWKSRefresh = 1
    JWKSMaxStale = 1
    FetchTimeout = 1
    AccessTTL = 1
    RotateEvery = 3
    MaxRotations = 1
    MaxTime = 4
INVARIANT UnexpiredAccepted
