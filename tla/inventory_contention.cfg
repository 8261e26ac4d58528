CONSTANTS
    Items = {i1, i2}
    Spaces = {s1, s2}
    Keys = {k1}
    Names = {n1, n2}
    Requests = {q1, q2, q3}
    None = None
    MaxRevision = 2
SPECIFICATION Spec
SYMMETRY Symmetry
INVARIANTS
    TypeOK
    NumbersNeverReused
    NoNumberIsBurned
    EachKeyNamesItsOwnItem
    AnswersAgreeWithTheKey
PROPERTIES
    RetriesNeverCreateAgain
    ImplementsLedger
