SPECIFICATION FairSpec
CONSTANTS
    Calls = {c1, c2}
    Codes = {k1}
    Users = {u1}
    Held = {s1}
    None = None
    HasFallback = TRUE
INVARIANTS
    TypeOK
    OneSessionPerCode
    LostOnlyByResend
PROPERTY
    EveryCallReturns
CHECK_DEADLOCK FALSE
