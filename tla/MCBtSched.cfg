\* one connection, two threads, two blocks: conservation, order of service, and every block comes back
SPECIFICATION FairSpec
CONSTANTS
    b1 = b1
    b2 = b2
    b3 = b3
    Block = {b1, b2}
    Dev = {d1}
    Thread = {tasklet, task}
    Executor = tasklet
    None = None
INVARIANTS
    TypeOK
    BlockConservation
    DuplicateBound
PROPERTIES
    ServedInOrder
    BlocksReturn
