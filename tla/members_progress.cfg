CONSTANTS
    Accounts = {a, b}
    Admins = {b}
    Permissions = {core}
    Core = {core}
    Founder = a
    OwnerGrants = {core}
    Requests = {q1, q2}
    None = None
    MaxTransfers = 2
SPECIFICATION FairSpec
PROPERTIES
    EveryRequestEnds
