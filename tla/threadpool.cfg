SPECIFICATION FairSpec
CONSTANTS
    NThreads = 3
    CplanThreads <- MCCplanThreads
    NNodes = 3
    Empty <- MCEmpty
    NPlanned = 8
    MaxGraphs = 2
    MaxPauses = 1
INVARIANTS TypeOK NoWorkerInside
CHECK_DEADLOCK FALSE
PROPERTIES ComputesGraph EveryGraphEnds PoolStops
