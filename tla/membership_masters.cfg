SPECIFICATION Spec
CONSTANTS
    Nodes <- TwoNodes
    MaxStarts = 1
    MaxFaults = 0
INVARIANTS
    AtMostOneMaster
CHECK_DEADLOCK FALSE
