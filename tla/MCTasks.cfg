SPECIFICATION TasksSpec
CONSTANTS
    NumTasks = 3
    NumEntries = 1
    NumStacks = 2
    Blocks = {b1, b2, b3}
    MaxArgs = 1
    NULL = NULL
INVARIANTS
    OneOwner
    AccountedFor
SYMMETRY BlockSymmetry
CHECK_DEADLOCK FALSE
PROPERTIES OrphansStop
