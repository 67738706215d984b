SPECIFICATION Spec
CONSTANTS
    Workers = {w1, w2}
    Ids = {s1, s2, s3}
    Users = {u1}
    None = None
    RefreshTTL = 1
    Grace = 0
    MaxTime = 0
INVARIANT EntireFamilyRevoked
