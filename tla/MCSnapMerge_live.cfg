CONSTANTS
    Blocks = {1, 2, 3, 4}
    Ops <- ShortChain
    Replaces <- ShortReplaces
    Window = 2
    Batch = 1
    IoUring = TRUE
    Readers = {r1}
    MaxBoots = 2
    Faults <- AllFaults
SPECIFICATION FairSpec
PROPERTIES MergeEnds HandlerEnds
CHECK_DEADLOCK FALSE
