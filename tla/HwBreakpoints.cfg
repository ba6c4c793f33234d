SPECIFICATION Spec
CONSTANTS
    Threads = {main, w1, w2}
    Main = main
    NoThread = NoThread
    MaxStrays = 1
INVARIANTS
    NoStaleBreakpoint
    GuardOnTime
PROPERTY
    StagesInOrder
CHECK_DEADLOCK FALSE
