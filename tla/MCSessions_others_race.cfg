SPECIFICATION Spec
SYMMETRY Symmetric
CONSTANTS
    Users = {u1}
    Admins = {}
    Hashes = {h1, h2, h3}
    Requests = {q1, q2}
    Operations = {"callback", "refresh", "others"}
    GracePeriod = 1
    RefreshTTL = 1
    Retention = 1
    MaxTime = 1
    DbErrors = FALSE
    NoUser = NoUser
    NoHash = NoHash
PROPERTY OtherSessionsEnd
