CONSTANTS
    Unchecked = {"client"}
    MaxWire = 5
SPECIFICATION FairSpec
INVARIANTS TypeOK Agreement ConformingPeer FewInFlight NoStraySubnegotiation Phases Covered
PROPERTIES RequestsAnswered LoopFree
