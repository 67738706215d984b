SPECIFICATION Spec
CONSTANTS
    google = google
    github = github
    g1 = g1
    h1 = h1
    Workers = {w1, w2}
    Flows = {f1, f2}
    Codes = {c1, c2}
    Users = {u1, u2}
    Clients = {k1, k2}
    Accounts = {g1, h1}
    Providers = {google, github}
    GitHub = github
    ProviderOf <- TwoProviders
    Emails = {e1, e2}
    NoEmail = NoEmail
    None = None
SYMMETRY Symmetry
INVARIANTS
    TypeOK
    NoOrphanedAccount
    OneSessionPerFlow
    SessionOfIdentityOwner
    SessionOfFlowClient
PROPERTY
    AutoLinkNeedsBothVerified
CHECK_DEADLOCK FALSE
