SPECIFICATION NamesSpec
CONSTANTS
    None = None
    Device = {1, 2, 3}
    Priority <- MCPriority
    Suffix <- MCSuffix
    Tag <- MCTag
    Part <- MCPart
    Label <- MCLabel
INVARIANTS
    DistinctAfterBatch
    CleanNameToTheHigher
