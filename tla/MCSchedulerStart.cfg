SPECIFICATION Spec
CONSTANTS
    NULL = NULL
    Boot = Boot
    Task <- Tasks5
    MAX_SLEEP_TASKS = 2
    KernelThreads <- OneWorker
    SleepMs = {1}
    Hz = 500
    Word = 65536
    TickWord = 3
    MaxTick = 2
    MayStart = TRUE
INVARIANTS MaskedInside MaskAccounting NoPanic Identity OnePlace
PROPERTIES LossHasCause
