SPECIFICATION Spec
CONSTANTS
    u1 = u1
    u2 = u2
    s1 = s1
    Users = {u1, u2}
    Slugs = {s1, s2}
    Avatars = {}
    Readers = {r1}
    Goroutines = {g1, g2}
    Registered <- Tables
    MaxWrites = 3
    None = None
INVARIANTS
    TypeOK
    IInv
    CacheIsCoherent
    AnswersAreGenuine
PROPERTY
    EventuallyCoherent
