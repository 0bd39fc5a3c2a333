SPECIFICATION Spec
CONSTANTS
    NumFrames = 23
    NumTables = 6
    PagesPerTable = 8
    KernelBase = 16
    ImagePages = 5
    HeapStart = 24
    HeapFirst = 25
    HeapInitialEnd = 31
    HeapMaxEnd = 40
    HeapMinSize = 5
    LowEnd = 2
    BiosFirst = 4
    BiosLast = 5
INVARIANTS FrameOnce BitmapAgrees DirectoryTrue NoFault PagesStay
CHECK_DEADLOCK FALSE
