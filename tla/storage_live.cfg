SPECIFICATION FairSpec
CONSTANTS
    Calls <- UpdateCalls
    After <- UpdateAfter
    Together <- AllUpdateCalls
    Keys <- OneKey
    Under <- OneKeyUnder
    Procs <- MCProcs
    Owner = "node"
    Reactor <- AnyReactor
    Throws <- NoThrows
    MaxRuns <- OnceUpdates
    MaxFaults = 1
PROPERTIES
    CallsSettle
    RequestsArePickedUp
CHECK_DEADLOCK FALSE
