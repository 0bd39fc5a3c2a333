SPECIFICATION Spec
CONSTANTS
    MaxControllers = 5
    ByteValues = 5
    MaxProbes = 2
INVARIANTS
    Accounted
    DrivesServed
    HeldRight
CHECK_DEADLOCK FALSE
