SPECIFICATION FairSpec
CONSTANTS
    p1 = p1
    p2 = p2
    g1 = g1
    g2 = g2
    Proc <- MCProc
    Grant <- MCOneGrant
    MaxGen = 2
    None = None
    Invalid = Invalid
INVARIANTS
    RecordUsable
    NoReuse
PROPERTIES
    LockReleased
