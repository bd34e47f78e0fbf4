CONSTANTS
    Blocks = {1, 2, 3, 4, 5, 6, 7}
    Ops <- Chain
    Replaces <- ChainReplaces
    Window = 2
    Batch = 2
    IoUring = TRUE
    Readers = {r1, r2}
    MaxBoots = 3
    Faults <- IoFaults
SPECIFICATION Spec
INVARIANTS TypeOK  NothingLost CompleteMeansMerged ChecksHold ReadsDrained LockStep
PROPERTY ScratchStable
CHECK_DEADLOCK FALSE
