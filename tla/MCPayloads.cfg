CONSTANTS
    Requests <- Reqs
    Responses <- Rsps
    Advertisements <- Ads
    Variables <- Vars
    MaxDepth = 2
SPECIFICATION PayloadsSpec
INVARIANTS RequestsArrive ResponsesArrive CharsetsArrive ArraysAtTheEndArrive
CHECK_DEADLOCK FALSE
