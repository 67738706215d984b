SPECIFICATION Spec
CONSTANTS
    Requests = {r1, r2}
    Users = {u1, u2}
    Ids = {i1, i2}
    None = None
SYMMETRY Symmetry
INVARIANTS
    TypeOK
    LateIsRefused
    AnsweredIsRevoked
    ResetEndsSessions
PROPERTY
    OwnSessionsOnly
