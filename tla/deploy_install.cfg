SPECIFICATION ToldFairSpec
CONSTANTS
    Nodes <- OneNode
    Masters <- OneMaster
    Parts <- Daemons
    Chosen <- EveryNode
    Answers <- NodeAnswers
    MaxRequests = 2
    MaxRuns = 1
    MaxFlags <- TwoThenOne
    MaxWriters = 0
    MaxFaults = 1
    MaxEvents = 2
INVARIANTS
    TypeOK
    RequestsInvariant
PROPERTIES
    InstallEnds
    UndisturbedInstallStarts
    KeepsToContract
CHECK_DEADLOCK FALSE
