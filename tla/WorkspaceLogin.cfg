SPECIFICATION Spec
CONSTANTS
    p1 = p1
    p2 = p2
    w1 = w1
    w2 = w2
    Proc <- MCProc
    Workspace <- MCWorkspace
    MaxLogin = 2
    MaxGen = 1
    OidcWorkspace = ci
    None = None
SYMMETRY MCSymmetry
PROPERTIES
    LoginKeepsSelection
