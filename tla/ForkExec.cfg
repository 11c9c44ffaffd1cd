CONSTANTS
    G = {g1, g2}
    r = r
    w = w
    Mutexes = {r, w}
    MaxFd = 8
    RunModes <- Modes
    FdLists <- Lists
    Runners = {g1}
SPECIFICATION FFairSpec
INVARIANTS  ChildGetsFiles StatusTrue NothingLeftOpen
PROPERTIES  ForkReturns
