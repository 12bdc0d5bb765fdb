SPECIFICATION Spec

CONSTANTS
    Key = {"a", "b"}
    Delta = {1, 2}
    Ttl = {1, 2}
    MaxCount = 4
    MaxTime <- Times
    Caller = {c1, c2}
    Setups <- SomeSetups
    Cost = {1, 2}
    Window = 2
    Limit = 2
    Capacity = 3
    Rate = 2
    MaxGrants = 5

SYMMETRY SymmetricCallers

INVARIANTS
    TypeOK
    CountsOneWindow
    MeterKept
    WindowKept
    RetryKept
