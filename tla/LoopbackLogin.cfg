SPECIFICATION FairSpec
CONSTANTS
    c1 = c1
    c2 = c2
    c3 = c3
    Conn <- MCConn
    Callback <- MCCallback
    OtherPath = OtherPath
    None = None
INVARIANTS
    TypeOK
    FirstDecides
    Truthful
PROPERTIES
    Terminates
CHECK_DEADLOCK FALSE
