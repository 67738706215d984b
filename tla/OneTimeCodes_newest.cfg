SPECIFICATION Spec
CONSTANTS
    Workers = {w1, w2}
    Ids = {c1, c2}
    Subjects = {otp, link}
    Emailed = {link}
    None = None
    MaxOTPAttempts = 2
    TTL = 1
    Grace = 0
    MaxTime = 1
INVARIANT OnlyNewestRedeemable
