SPECIFICATION FairDeviceSpec
CONSTANTS
    Announced <- MCAnnounced
    ExpiresIn = 13
    Skew = 1
    MaxRequest = 2
    Horizon = 26
    MaxInterval = 12
    Never = Never
INVARIANTS
    DeviceTypeOK
    Paced
    ApprovalNoticed
    OneLatePoll
PROPERTIES
    DeviceTerminates
CHECK_DEADLOCK FALSE
