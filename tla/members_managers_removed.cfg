CONSTANTS
    Accounts = {a, b, c}
    Admins = {}
    Permissions = {core, finance}
    Core = {core}
    Founder = a
    OwnerGrants = {core}
    Requests = {q1}
    None = None
    MaxTransfers = 1
SPECIFICATION Spec
SYMMETRY Symmetry
PROPERTY
    ManagersLeaveManagersAlone
