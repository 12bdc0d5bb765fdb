SPECIFICATION Spec

CONSTANTS
    Key = {k1}
    Tag = {t1}
    Client = {c1}
    Ttl = {0, 1}
    PruneBatch = 1
    MayCrash = FALSE
    MaxTime = 2

INVARIANTS
    InvalidationReachesOnly
