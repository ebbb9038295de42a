CONSTANTS
    Requests <- None
    Responses <- None
    Advertisements <- None
    Variables <- Mixed
    MaxDepth = 1
SPECIFICATION PayloadsSpec
INVARIANTS VariablesArrive
CHECK_DEADLOCK FALSE
