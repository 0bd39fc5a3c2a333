SPECIFICATION Spec
CONSTANTS
    NULL = NULL
    Task = {t1, t2, t3, t4}
    Queues = {ready, zombie}
INVARIANTS Represented
PROPERTY Implements
