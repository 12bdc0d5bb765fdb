SPECIFICATION EitherSpec

CONSTANTS
    Token = {t1, t2, t3}
    NoToken = NoToken
    Ttl = {1, 2}
    MaxRenewals = 1
    Process = {p1, p2}
    Call = {c1, c2, c3}
    ProcessOf <- TwoAndOne
    Throws = {c1, c3}
    Hanging = {c3}
    WritesInTime = TRUE
    p1 = p1
    p2 = p2
    c1 = c1
    c2 = c2
    c3 = c3
    None = None

INVARIANTS
    SnapshotNeverEarly
    TypeOK
    NoOvertakenWrite
    LeaseReturned
    FetchersExclude

PROPERTIES
    ImplementsLock
    KeptUntilOver
    EventuallyFree
    CallsEnd

CHECK_DEADLOCK FALSE
