CONSTANTS
    Items = {i1, i2}
    Spaces = {s1, s2}
    GroupNames = {g}
    LocationNames = {l}
    Kinds = {k}
    Requests = {q1, q2}
    None = None
    MaxRevision = 5
SPECIFICATION Spec
INVARIANTS
    TypeOK
    LinksStayInOneSpace
    HistoryIsContinuous
PROPERTIES
    GuardedByRevision
SYMMETRY Symmetry
