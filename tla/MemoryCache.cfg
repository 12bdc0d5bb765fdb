SPECIFICATION FairSpec

CONSTANTS
    Key = {k1, k2, k3}
    Tag = {t1}
    Size = {1, 3, 5}
    TtlArg <- SomeTtl
    NoTtl = NoTtl
    DefaultTtl = 1
    MaxEntries = 2
    MaxMemory = 3
    Batch <- PairBatch
    Pattern <- StarPattern
    LockSets <- OneKeyLocks
    Careless <- OneKey
    MaxTime = 2

INVARIANTS
    TypeOK
    TagIndexExact
    ServedUntilItsTime
    LimitsKept
    EvictsLeastRecentlyUsed

PROPERTIES
    ExpiredEventuallyGo

CHECK_DEADLOCK FALSE
