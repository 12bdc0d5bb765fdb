SPECIFICATION FairSpec

CONSTANTS
    Process = {p1, p2}
    Key = {k1}
    Tag = {t1}
    Call = {c1, c2, c3}
    None = None
    ProcessOf <- TwoAndOne
    WritePolicy <- BothAndAsync
    Ttl = {1}
    NoTtl = NoTtl
    DefaultTtl = 0
    MaxTime = 2
    p1 = p1
    p2 = p2
    c1 = c1
    c2 = c2
    c3 = c3

INVARIANTS
    InvalidationMissesOnlyCopies
    NeverGoesBack
    TtlPreserved

PROPERTIES
    GetsEnd

CHECK_DEADLOCK FALSE
