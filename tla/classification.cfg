CONSTANTS
    Spaces = {s, t}
    FieldNames = {f}
    Values = {v, w}
    None = None
    MaxCategories = 3
    MaxAssignments = 3
    MaxRevision = 5

SPECIFICATION Spec

INVARIANTS
    TypeOK
    OneValuePerField
    CurrentPagesAreRight

PROPERTIES
    ReclassificationKeepsValues
    HistoryIsSealed

SYMMETRY Symmetry
