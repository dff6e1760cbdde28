SPECIFICATION Spec
CONSTANTS
    Nodes <- OneNode
    MaxStarts = 1
    MaxFaults = 0
INVARIANTS
    LeaveUnlinks
CHECK_DEADLOCK FALSE
