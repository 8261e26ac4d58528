CONSTANTS
    Docs = {d1, d2}
    Items = {i1, i2}
    Spaces = {s1, s2}
    Quota = 1
    Nothing = Nothing
SPECIFICATION FairSpec
INVARIANTS
    TypeOK
    NoOrphan
PROPERTIES
    ImplementsShelf
    UploadsEnd
