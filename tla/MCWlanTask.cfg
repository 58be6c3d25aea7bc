\* three blocks, three kinds of tasks, one creator and the worklet
SPECIFICATION FairSpec
CONSTANTS
    b1 = b1
    b2 = b2
    b3 = b3
    Null = Null
    Block = {b1, b2, b3}
    Worklet = worklet
    Thread = {worklet, tasklet}
    Request <- Usual
    Removable = {"SCAN"}
    Exempt = {"SYS_RESET"}
INVARIANTS
    TypeOK
PROPERTIES
    ImplementsQueue
    HighIsServed
