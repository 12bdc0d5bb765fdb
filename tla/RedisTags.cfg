SPECIFICATION Spec

CONSTANTS
    Key = {k1, k2}
    Tag = {t1, t2}
    Client = {c1}
    Ttl = {0, 1}
    PruneBatch = 1
    MayCrash = TRUE
    MaxTime = 2

SYMMETRY Symmetric

INVARIANTS
    TypeOK
    InvalidationReachesAll
    ReachesOnlyWhileTracked
    MetadataExpires
