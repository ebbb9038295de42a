CONSTANTS
    Codes = {"c1", "c2"}
    Options <- Mixed
    Installed <- Matched
    ActivateUninstalled = FALSE
    MaxWire = 2
SPECIFICATION FairSpec
INVARIANTS Inductive Agreement SubnegotiationsReachOnlyOption
PROPERTIES LoopFree ImplementsPairs
