\* a scan is asked for, a network, a scan again; one access point, nothing goes wrong
SPECIFICATION Spec
CONSTANTS
    p1 = p1
    p2 = p2
    s1 = s1
    s2 = s2
    None = None
    Ap = {p1}
    Ssid = {s1}
    SsidOf <- OneServes
    Private = {}
    Channels = 1
    MaxAuth = 1
    MaxAssoc = 1
    JoinRetry = 1
    ScanWait = 1
    MaxFrames = 1
    Budget <- AsksOnly
INVARIANT
    JoinExcludesScan
CHECK_DEADLOCK FALSE
