\* two connections in the master list, one barred now and then, the list stopped now and then
SPECIFICATION Spec
CONSTANTS
    e1 = e1
    e2 = e2
    c1 = c1
    c2 = c2
    master = master
    slave = slave
    None = None
    MasterList = master
    Element = {e1, e2}
    Conn = {c1, c2}
    Lists <- OneList
    ListOf <- AllMaster
    MaxWrites = 2
    MaxSpace = 2
    MaxPending = 1
    MaxCtl = 0
    AclTicks = 1
    Hindrances = {"bar"}
SYMMETRY PumpSymmetry
INVARIANTS
    TypeOK
    ElementOwned
PROPERTY
    PacketsInOrder
