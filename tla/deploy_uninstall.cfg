SPECIFICATION FairSpec
CONSTANTS
    Nodes <- OneNode
    Masters <- OneMaster
    Parts <- Items
    Chosen <- EveryNode
    Answers <- NodeAnswers
    MaxRequests = 2
    MaxRuns = 1
    MaxFlags <- OneFlag
    MaxWriters = 0
    MaxFaults = 0
    MaxEvents = 2
PROPERTIES
    UninstallRemoves
CHECK_DEADLOCK FALSE
