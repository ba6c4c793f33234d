SPECIFICATION GuardSpec
CONSTANTS
    Threads = {main}
    Main = main
    NoThread = NoThread
    X64 = FALSE
    TlsTotal = 2
    Callbacks = 2
    StormLimit = 3
    RetryLimit = 2
INVARIANTS
    MismatchIsNoCallback
