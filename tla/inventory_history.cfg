CONSTANTS
    Items = {i1}
    Spaces = {s1, s2}
    Keys = {k1}
    Names = {n1}
    Requests = {q1, q2}
    None = None
    MaxRevision = 4
SPECIFICATION FairSpec
INVARIANTS
    TransfersCanBeTraced
    AuditTellsTheState
    KnownRevisionsPinTheSpace
PROPERTIES
    NoUpdateIsLost
    TrashedItemsAreReadOnly
    EveryRequestEnds
