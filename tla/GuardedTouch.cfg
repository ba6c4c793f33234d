SPECIFICATION GuardFairSpec
CONSTANTS
    Threads = {main, worker}
    Main = main
    NoThread = NoThread
    X64 = FALSE
    TlsTotal = 0
    Callbacks = 0
    StormLimit = 2
    RetryLimit = 0
PROPERTY
    TouchCompletes
