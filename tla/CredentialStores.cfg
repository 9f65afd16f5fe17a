SPECIFICATION Spec
CONSTANTS
    l1 = l1
    l2 = l2
    l3 = l3
    Login <- MCLogin
    MaxRev = 1
    None = None
    Invalid = Invalid
    Cleared = Cleared
SYMMETRY MCSymmetry
INVARIANTS
    TypeOK
    NoRetiredRead
PROPERTIES
    NoResurrection
    CleanDelete
    SlotSpec
