\* one packet, control frames, lost answers, untaken transfers, flushes, lists stopped, links closed
SPECIFICATION FairSpec
CONSTANTS
    e1 = e1
    e2 = e2
    c1 = c1
    c2 = c2
    master = master
    slave = slave
    None = None
    MasterList = master
    Element = {e1}
    Conn = {c1}
    Lists <- OneList
    ListOf <- AllMaster
    MaxWrites = 1
    MaxSpace = 2
    MaxPending = 1
    MaxCtl = 1
    AclTicks = 1
    Hindrances = {"flush", "close", "stop"}
INVARIANTS
    BufferFollowsTransfer
    CardFits
PROPERTIES
    Drains
