SPECIFICATION Spec
CONSTANTS
    p1 = p1
    p2 = p2
    g1 = g1
    g2 = g2
    Proc <- MCProc
    Grant <- MCGrant
    MaxGen = 1
    None = None
    Invalid = Invalid
PROPERTIES
    LoginPreserved
