SPECIFICATION FairSpec
CONSTANTS
    Calls <- RemoveCalls
    After <- RemoveAfter
    Together <- AllRemoveCalls
    Keys <- OneKey
    Under <- OneKeyUnder
    Procs <- MCProcs
    Owner = "node"
    Reactor <- DaemonReactor
    Throws <- DaemonThrows
    MaxRuns <- OnceRemoves
    MaxFaults = 0
PROPERTIES
    RequestsArePickedUp
CHECK_DEADLOCK FALSE
