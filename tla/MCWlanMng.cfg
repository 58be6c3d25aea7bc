\* two access points of one network, and a name nobody serves
SPECIFICATION CalmSpec
CONSTANTS
    p1 = p1
    p2 = p2
    s1 = s1
    s2 = s2
    None = None
    Ap = {p1, p2}
    Ssid = {s1, s2}
    SsidOf <- BothServe
    Private = {p1}
    Channels = 1
    MaxAuth = 1
    MaxAssoc = 1
    JoinRetry = 1
    ScanWait = 1
    MaxFrames = 1
    Budget <- FewAsks
INVARIANTS
    TypeOK
    WaitsAreTimed
    JoinExcludesScan
    LinkGranted
PROPERTIES
    AttemptsEnd
CHECK_DEADLOCK FALSE
