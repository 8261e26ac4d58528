CONSTANTS
    Spaces = {s1, s2}
    People = {o, p}
    Founder = o
    Grants = {g}
    Requests = {q1, q2}
    None = None
    MaxInvitations = 2
    MaxTransfers = 1
    MaxExpired = 1
SPECIFICATION FairSpec
INVARIANTS
    TypeOK
    OneOpenLink
PROPERTIES
    ClosedForGood
    RequestsEnd
