SPECIFICATION Spec
CONSTANTS
    Workers = {w1, w2}
    Buckets <- MCBuckets
    Limit = 1
    Window = 2
    Delay = 1
    OlderThan = 3
    MaxAsks = 3
    MaxTime = 4
    None = None
    Clients = {app, site}
    Emails = {mail}
    MaxOTPAttempts = 2
    MaxCodes = 2
SYMMETRY Symmetry
INVARIANTS
    TypeOK
    WindowBudget
    MailPerWindow
    GuessesPerWindow
CHECK_DEADLOCK FALSE
