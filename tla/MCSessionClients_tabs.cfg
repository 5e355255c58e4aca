SPECIFICATION CSpec
SYMMETRY Symmetric
CONSTANTS
    u1 = u1
    Users = {u1}
    Admins = {}
    Hashes = {h1, h2, h3}
    Requests = {q1, q2}
    Operations = {"callback", "refresh"}
    GracePeriod = 1
    RefreshTTL = 1
    Retention = 1
    MaxTime = 0
    DbErrors = FALSE
    NoUser = NoUser
    NoHash = NoHash
    Browsers = {b1}
    Account <- OneAccount
    Tabs = 2
    Lossy = FALSE
    NoBrowser = NoBrowser
INVARIANT NoFalseTheftAlarm
