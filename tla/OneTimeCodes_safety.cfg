SPECIFICATION Spec
CONSTANTS
    Workers = {w1, w2}
    Ids = {c1, c2, c3}
    Subjects = {otp, link}
    Emailed = {link}
    None = None
    MaxOTPAttempts = 2
    TTL = 0
    Grace = 0
    MaxTime = 1
SYMMETRY Symmetry
INVARIANTS
    TypeOK
    RedeemedOnce
    GuessBudget
    IssueSupersedes
CHECK_DEADLOCK FALSE
