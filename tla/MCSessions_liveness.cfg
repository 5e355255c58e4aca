SPECIFICATION FairSpec
CONSTANTS
    Users = {u1, a1}
    Admins = {a1}
    Hashes = {h1, h2}
    Requests = {q1, q2}
    Operations = {"callback", "refresh", "logout", "sessions", "purge"}
    GracePeriod = 1
    RefreshTTL = 1
    Retention = 1
    MaxTime = 2
    DbErrors = FALSE
    NoUser = NoUser
    NoHash = NoHash
PROPERTY RequestsComplete
