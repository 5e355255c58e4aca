SPECIFICATION Spec
SYMMETRY Symmetric
CONSTANTS
    u1 = u1
    Users = {u1, u2}
    Albums = {a1}
    Owner <- OneOwner
    Slugs = {s1}
    Links = {l1}
    IsActive = {TRUE, FALSE}
    Readers = {r1, r2}
    Writers = {w1}
    Goroutines = {g1}
    Reads = {"slug", "id", "link"}
    Writes = {"create", "update", "toggle", "token", "delete", "restore", "purge", "purgeuser"}
    MaxWrites = 3
    Serial = FALSE
    Failures = TRUE
    None = None
INVARIANTS IInv AnswersAreAuthorised
