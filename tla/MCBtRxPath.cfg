SPECIFICATION FairSpec
CONSTANTS
    h = h
    Link = {h}
    Known = {}
    Hid = {h}
    MAX_RX_CACH_COUNT = 4
    SetupTicks = 2
    ConnectedTicks = 1
    HidLimit = 1
    PendingLimit = 2
    MaxBurst = 3
    MaxPolls = 2
    MaxData <- Data
    MaxCalls = 2
INVARIANTS TypeOK CountIsExact
PROPERTIES DataFollowConnection AllIsServed
CHECK_DEADLOCK FALSE
