SPECIFICATION SSpec
CONSTANTS
    Rules = {"refresh", "admin"}
    Callers = {u1, a1, ip1, c1}
    Limit <- Limits
    Window = 1
    MaxTime = 2
    Slots = {q1, q2}
    Accounts = {u1, a1}
    Admins = {a1}
    Addresses = {ip1}
    Peers = {c1}
    Routes = {"refresh", "admin"}
    CheckHeaders = TRUE
    CheckOrigin = TRUE
    MaxRequests = 2
    MaxJobs = 1
    None = None
INVARIANTS
    STypeOK
    OnlyEntitledAreHandled
    AtMostTwiceTheLimit
    RefusedOnlyWhenSpent
    GracefulExit
PROPERTIES
    UserBudgetsAreOwn
    SignalEndsProcess
CHECK_DEADLOCK FALSE
