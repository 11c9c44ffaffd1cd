SPECIFICATION FairSpec
CHECK_DEADLOCK FALSE
CONSTANTS
    G <- MCG
    Chans <- MCChans
    dataqsiz <- MCdataqsiz
    Programs <- MCPrograms
    MaxOps = 2
    MaxSudoG = 4
INVARIANTS
    Fifo
    ReceivedOnce
    SendersKnow
    NobodyForgotten
PROPERTY OperationsEnd
