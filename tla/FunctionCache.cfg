SPECIFICATION Spec

CONSTANTS
    Key = {k1}
    Call = {c1, c2, c3}
    Sweep = {s1}
    Invalidation = {i1}
    Entry = {e1, e2}
    Wrapped = Wrapped
    None = None
    PruneInterval = 2
    Ref = {"p", "q"}
    Name = {1, 2}
    MaxItems = 2
    MaxLength = 12

SYMMETRY Symmetry

INVARIANTS
    TypeOK
    OnlyRacesEscape
    SweepReaches
    SingleExecution
    KeysFollowArguments

CHECK_DEADLOCK FALSE
