CONSTANTS
    C = {c1, c2, c3}
    Fin = Fin
    ReadLens = {0, 1}
    WriteLens = {0, 2}
    MaxCalls = 4
SPECIFICATION FairSpec
INVARIANTS Faithful RunnerServes
PROPERTY OtherEndReleased
CHECK_DEADLOCK FALSE
