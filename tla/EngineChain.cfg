SPECIFICATION FairChain
CONSTANTS
    Threads = {main, worker}
    Main = main
    NoThread = NoThread
    MaxSteps = 3
    Rounds = 3
    NSlots = 3
    TrashThreshold = 1
    TraceLimit = 3
    VmAfter = 1
    VmUntil = 3
    ApiTag = ApiTag
INVARIANTS
    NoStaleApi
    EventProtocol
    OneExitProcess
    StopsOnlyPastTheTable
    Handover
PROPERTIES
    EngineEnds
    WindowEnds
    KeepsItsPromise
    SteppingEnds
