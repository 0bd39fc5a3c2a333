SPECIFICATION LiveSpec
CONSTANTS
    Flow = {f1, f2}
    Lines = {0, 7, 8, 14, 15}
    MaxRaises = 3
    MaxFrames = 3
INVARIANTS
    NothingWithheld
PROPERTIES
    EndsOwn
    Delivered
CHECK_DEADLOCK FALSE
