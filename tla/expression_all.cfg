SPECIFICATION Spec
CONSTANTS
    Nodes <- MCNodes
    Parts <- MCParts
    MaxNodes = 3
    MaxParts = 2
INVARIANTS
    SelectsLongestPrefix
    LoopInvariant
CHECK_DEADLOCK FALSE
