CONSTANTS
    Codes = {"c1"}
    Options <- OneRole
    Installed <- Nothing
    ActivateUninstalled = TRUE
    MaxWire = 1
SPECIFICATION FairSpec
PROPERTIES LoopFree
