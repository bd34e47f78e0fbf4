CONSTANTS
    Names = {"system", "vendor"}
    NumMergeThreads = 1
    MaxHandlers = 2
    MaxQueue = 2
    Faults <- AllFaults
SPECIFICATION FairSpec
INVARIANTS TypeOK MergesBounded ListedIsAlive OwnEntry NoLostWakeup
PROPERTIES QueueGoesOn CommandEnds
CHECK_DEADLOCK FALSE
