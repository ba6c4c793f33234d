SPECIFICATION GuardSpec
CONSTANTS
    Threads = {main, worker}
    Main = main
    NoThread = NoThread
    X64 = FALSE
    TlsTotal = 1
    Callbacks = 2
    StormLimit = 2
    RetryLimit = 2
INVARIANTS
    OpenForAReason
    EntryFound
    PatchUndone
