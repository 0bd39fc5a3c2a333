SPECIFICATION PciSpec
CONSTANTS
    NumBuses = 4
    NumSlots = 1
    NumFuncs = 2
    MaxDevices = 5
    MaxBridges = 2
    Populations <- MCPopulations
    Multiples <- MCMultiples
INVARIANTS
    Complete
    TableSound
PROPERTIES
    ScanEnds
CHECK_DEADLOCK FALSE
