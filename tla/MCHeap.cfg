SPECIFICATION HeapSpec
CONSTANTS
    PageSize = 24
    MinPages = 2
    MaxPages = 4
    IndexSize = 8
    Sizes = {9, 19}
    Wiped = {TRUE, FALSE}
    MaxLive = 3
    MaxCalls = 7
INVARIANTS
    Tiled
    OwnMemory
    IndexComplete
CHECK_DEADLOCK FALSE
