SPECIFICATION Spec
CONSTANTS
    NULL = NULL
    Task = {t1, t2, t3, t4, t5, t6}
    MAX_SLEEP_TASKS = 5
    WakeTicks = {1, 2}
SYMMETRY Symmetry
INVARIANTS HeapOrder
PROPERTY Implements
