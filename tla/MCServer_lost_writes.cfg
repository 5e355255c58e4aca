SPECIFICATION SSpec
CONSTANTS
    Rules = {"modify"}
    Callers = {u1, a1, ip1, c1}
    Limit <- Limits
    Window = 2
    MaxTime = 0
    Slots = {q1, q2}
    Accounts = {u1, a1}
    Admins = {a1}
    Addresses = {ip1}
    Peers = {c1}
    Routes = {"modify"}
    CheckHeaders = TRUE
    CheckOrigin = TRUE
    MaxRequests = 1
    MaxJobs = 1
    None = None
INVARIANT NoLostWrites
CHECK_DEADLOCK FALSE
