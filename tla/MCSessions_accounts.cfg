SPECIFICATION Spec
SYMMETRY Symmetric
CONSTANTS
    Users = {u1, a1}
    Admins = {a1}
    Hashes = {h1, h2, h3}
    Requests = {q1, q2}
    Operations = {"callback", "refresh", "revoke", "others", "delete", "purge", "restore"}
    GracePeriod = 1
    RefreshTTL = 1
    Retention = 1
    MaxTime = 0
    DbErrors = TRUE
    NoUser = NoUser
    NoHash = NoHash
INVARIANTS
    TypeOK
    IInv
    OneTokenPerSession
    NoOrphanTokens
PROPERTIES
    ImplementsLifecycle
    EndedSessionStaysEnded
    ForeignSessionsUntouched
