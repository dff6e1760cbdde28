SPECIFICATION Spec
CONSTANTS
    Calls <- ParallelCalls
    After <- ParallelAfter
    Together <- AllParallelCalls
    Keys <- MCKeys
    Under <- MCUnder
    Procs <- MCProcs
    Owner = "node"
    Reactor <- SwallowingReactor
    Throws <- NoThrows
    MaxRuns <- TwiceParallel
    MaxFaults = 0
INVARIANTS
    PickedUpOnce
CHECK_DEADLOCK FALSE
