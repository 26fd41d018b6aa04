SPECIFICATION LiveSpec
CONSTANTS
    Threads = {a, b}
    OldThreads = {a}
    NoThread = NoThread
    Jobs = {j1}
    NoJob = NoJob
    MaxRuns = 3
    MaxTroubles = 1
INVARIANTS IInv CancelIsWanted
PROPERTIES
    BusyEnds
    StopReachesServer
CHECK_DEADLOCK FALSE
