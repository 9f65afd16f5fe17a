SPECIFICATION FairSpec
CONSTANTS
    MaxRun = 3
    None = None
INVARIANTS
    TypeOK
    AtMostOnce
    Diagnosed
PROPERTIES
    Stops
CHECK_DEADLOCK FALSE
