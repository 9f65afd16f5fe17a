SPECIFICATION FairSpec
CONSTANTS
    p1 = p1
    p2 = p2
    s1 = s1
    s2 = s2
    Proc <- MCProc
    Server <- MCServer
    Default = s1
    MaxTask = 2
    MaxFault = 2
    None = None
    Torn = Torn
CHECK_DEADLOCK FALSE
INVARIANTS
    TypeOK
    ConfigUsable
PROPERTIES
    LoginTakesHold
