SPECIFICATION FairSpec

CONSTANTS
    Key = {k1, k2, k3}
    Cache = {a, b}
    Call = {c1, c2, c3}
    Args <- SomeArgs
    Hanging = {c1}
    MaxInflight = 2
    None = None
    a = a
    b = b
    k1 = k1
    k2 = k2
    k3 = k3
    c1 = c1
    c2 = c2
    c3 = c3

INVARIANTS
    TypeOK
    InflightAlive
    TableBounded
    SingleFlight

PROPERTY
    NobodyIsStuck

CHECK_DEADLOCK FALSE
