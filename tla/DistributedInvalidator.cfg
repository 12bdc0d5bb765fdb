SPECIFICATION Spec

CONSTANTS
    Node = {n1, n2}
    Call = {c1}
    TagCaches <- OneOrBoth
    Throwing = {n1}
    OwnsPub = {n2}
    MaxVersion = 1
    Closing = {n2}
    Unsteady = {n2}
    Asks <- AnyAsk
    None = None
    n1 = n1
    n2 = n2
    c1 = c1

INVARIANTS
    TypeOK
    OldCopiesAreFollowed

CHECK_DEADLOCK FALSE
