SPECIFICATION LSpec
SYMMETRY Symmetric
CONSTANTS
    u1 = u1
    Users = {u1, u2}
    Albums = {1, 2}
    Owner <- OneOwner
    Slugs = {s1, s2}
    Links = {l1}
    IsActive = {TRUE}
    Readers = {r1}
    Writers = {w1}
    Goroutines = {g1, g2}
    Listers = {c1}
    PerPage = 2
    Dates = {1, 2}
    Reads = {"id"}
    Writes = {"create", "update", "toggle", "token", "delete", "restore", "purge", "purgeuser"}
    MaxWrites = 4
    Serial = TRUE
    Failures = FALSE
    None = None
INVARIANTS
    LTypeOK
    LIInv
    CacheIsCoherent
    PagesDescend
    NoAlbumSkipped
    PagesAreExact
