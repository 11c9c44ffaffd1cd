CONSTANTS
    G = {g1, g2, g3}
    Addrs = {a, b}
    InitialSem = 0
    MaxReleases = 2
SPECIFICATION FairSpec
INVARIANTS NoFault WakeupOnce
PROPERTY ImplementsSemaphore
CHECK_DEADLOCK FALSE
