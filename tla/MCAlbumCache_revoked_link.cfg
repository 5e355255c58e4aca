SPECIFICATION Spec
SYMMETRY Symmetric
CONSTANTS
    u1 = u1
    Users = {u1, u2}
    Albums = {a1}
    Owner <- OneOwner
    Slugs = {s1}
    Links = {l1}
    IsActive = {TRUE, FALSE}
    Readers = {r1}
    Writers = {w1}
    Goroutines = {g1, g2}
    Reads = {"link"}
    Writes = {"create", "token"}
    MaxWrites = 4
    Serial = FALSE
    Failures = FALSE
    None = None
INVARIANT RevokedLinkIsDead
