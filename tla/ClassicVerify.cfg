SPECIFICATION Spec
CONSTANTS
    Threads = {main, worker}
    Main = main
    NoThread = NoThread
    Rounds = 3
INVARIANT
    VerifiedByRunning
