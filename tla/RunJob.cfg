SPECIFICATION JobFairSpec
CONSTANTS
    MaxNoise = 1
    DrainRounds = 2
INVARIANTS
    VerdictIsTrue
    IdleServerTakesTheRunWithIt
PROPERTIES
    CallsAnswered
    CancelEnds
CHECK_DEADLOCK FALSE
