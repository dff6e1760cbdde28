SPECIFICATION FairSpec
CONSTANTS
    Nodes <- OneNode
    MaxStarts = 2
    MaxFaults = 3
INVARIANTS
    TypeOK
    OnlyLinkedNodesAct
    OpenOncePerStart
PROPERTIES
    StartsEnd
    StaleSessionsExpire
CHECK_DEADLOCK FALSE
