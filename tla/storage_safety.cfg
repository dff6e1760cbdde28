SPECIFICATION Spec
CONSTANTS
    Calls <- SafetyCalls
    After <- SafetyAfter
    Together <- RivalsOrSiblings
    Keys <- MCKeys
    Under <- MCUnder
    Procs <- MCProcs
    Owner = "node"
    Reactor <- AnyReactor
    Throws <- UnknownDriverThrows
    MaxRuns <- OnceOrTwice
    MaxFaults = 1
INVARIANTS
    TypeOK
    AckIsServed
    ProtocolInvariant
    HandlerGetsData
PROPERTIES
    DeletionIsRequested
    ImplementsContract
CHECK_DEADLOCK FALSE
