CONSTANTS
    G = {g1, g2}
    F = {l1, f1}
    Listeners = {l1}
    Ops = {"ReadFrom", "Write", "accept", "Close"}
    Timed = {"r"}
    MaxNow = 2
    MaxOps = 3
SPECIFICATION FairSpec
INVARIANTS WaitersCounted WatchedWhileOpen
PROPERTY WaitersWoken
CHECK_DEADLOCK FALSE
