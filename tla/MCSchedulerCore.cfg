SPECIFICATION LiveSpec
CONSTANTS
    NULL = NULL
    Boot = Boot
    Task <- Tasks5
    MAX_SLEEP_TASKS = 2
    KernelThreads <- TwoWorkers
    SleepMs = {4, 6}
    Hz = 500
    Word = 65536
    TickWord = 65536
    MaxTick = 5
    MayStart = FALSE
INVARIANTS NoLostTask NoEarlyWake UnmaskedAtZero
PROPERTIES RunnableRuns SleeperReturns
