SPECIFICATION Spec

CONSTANTS
    Process = {p1}
    Key = {k1}
    Tag = {t1}
    Call = {c1, c2, c3}
    None = None
    ProcessOf <- AllInOne
    WritePolicy <- AllBoth
    Ttl = {1}
    NoTtl = NoTtl
    DefaultTtl = 0
    MaxTime = 0
    p1 = p1
    p2 = p2
    c1 = c1
    c2 = c2
    c3 = c3

INVARIANTS
    InvalidationClearsBoth

CHECK_DEADLOCK FALSE
