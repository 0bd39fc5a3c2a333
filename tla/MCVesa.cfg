SPECIFICATION VesaSpec
CONSTANTS
    Mode = {m1, m2, m3, m4}
    VESA_MODE_SIZE = 3
    ListLength = 5
SYMMETRY ModeSymmetry
INVARIANTS
    TableRight
    ModeRight
CHECK_DEADLOCK FALSE
