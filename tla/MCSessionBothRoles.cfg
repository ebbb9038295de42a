CONSTANTS
    Codes = {"c1"}
    Options <- BothRoles
    Installed <- BothRoles
    ActivateUninstalled = FALSE
    MaxWire = 1
SPECIFICATION Spec
INVARIANTS SubnegotiationsReachTheirOption
