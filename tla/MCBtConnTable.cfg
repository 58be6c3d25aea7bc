\* four blocks, two addresses, three handles, three threads, resets when they are idle
SPECIFICATION LoneResetSpec
CONSTANTS
    d1 = d1
    d2 = d2
    d3 = d3
    d4 = d4
    t1 = t1
    t2 = t2
    t3 = t3
    None = None
    Device = {d1, d2, d3, d4}
    MaxAddr = 2
    MaxHandle = 3
    Thread = {t1, t2, t3}
SYMMETRY ConnSymmetry
INVARIANTS
    TypeOK
    BlockOwned
    NumbersOwned
    RoleFollowsLinks
PROPERTY ImplementsLinks
