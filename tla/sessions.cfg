CONSTANTS
    Tokens = {t1, t2}
    Accounts = {a, b}
    Requests = {q1, q2}
    None = None
    IdleTimeouts = {1, 3}
    Lifetimes = {2, 3}
    Ceiling = 3
    MaxTime = 3
SPECIFICATION Spec
INVARIANTS
    TypeOK
    EveryUseFollowsAnother
PROPERTIES
    RevocationIsFinal
    LapsedIsFinal
SYMMETRY Symmetry
