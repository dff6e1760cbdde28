SPECIFICATION Spec
CONSTANTS
    Nodes <- OneNode
    Masters <- OneMaster
    Parts <- Items
    Chosen <- EveryNode
    Answers <- AllAnswer
    MaxRequests = 2
    MaxRuns = 1
    MaxFlags <- OneFlag
    MaxWriters = 0
    MaxFaults = 1
    MaxEvents = 2
INVARIANTS
    DeploymentInvariant
    OutcomesAreOfRuns
PROPERTIES
    StartsWhenCreated
    AppGoesLast
CHECK_DEADLOCK FALSE
