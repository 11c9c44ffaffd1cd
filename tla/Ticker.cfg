CONSTANTS
    G = {g1, g2}
    Funcs = {startTickerLoop}
    joblock = joblock
    Mutexes = {startTickerLoop, joblock}
    T = {2, 3}
    MaxClock = 5
    Buf = 10
SPECIFICATION TFairSpec
INVARIANTS LoopStarted InPhase
PROPERTY DueServed
CHECK_DEADLOCK FALSE
