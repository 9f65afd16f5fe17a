SPECIFICATION Spec
CONSTANTS
    k1 = k1
    k2 = k2
    n1 = n1
    w1 = w1
    w2 = w2
    u1 = u1
    u2 = u2
    Id <- MCId
    Name <- MCName
    Site <- MCSite
    User <- MCUser
    Owner = u1
    None = None
SYMMETRY MCSymmetry
INVARIANTS
    KeepsConfirmed
PROPERTIES
    RevokesMeant
