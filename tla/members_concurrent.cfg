CONSTANTS
    Accounts = {a, b, c}
    Admins = {}
    Permissions = {core}
    Core = {core}
    Founder = a
    OwnerGrants = {core}
    Requests = {q1, q2}
    None = None
    MaxTransfers = 2
SPECIFICATION Spec
SYMMETRY Symmetry
INVARIANTS
    TypeOK
    NothingOutlivesAMembership
    OwnersFollowEachOther
PROPERTIES
    OwnershipPassesToMembers
    OnlyStaleRequestsHurtTheOwner
