SPECIFICATION CSpec
SYMMETRY Symmetric
CONSTANTS
    u1 = u1
    Users = {u1}
    Admins = {}
    Hashes = {h1, h2, h3}
    Requests = {q1, q2}
    Operations = {"callback", "refresh", "logout", "others"}
    GracePeriod = 1
    RefreshTTL = 1
    Retention = 1
    MaxTime = 2
    DbErrors = TRUE
    NoUser = NoUser
    NoHash = NoHash
    Browsers = {b1, b2}
    Account <- OneAccount
    Tabs = 2
    Lossy = TRUE
    NoBrowser = NoBrowser
INVARIANTS
    CTypeOK
    ClientInv
    TokensAreHeld
    OneTokenPerSession
PROPERTIES
    AlarmHasCause
    CookieNeverGoesBack
    EndedSessionStaysEnded
    GraceRunsOnce
