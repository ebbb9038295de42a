CONSTANTS
    HandlerCalls = {"activate", "deactivate", "write_subnegotiation"}
    Unchecked = {}
    MaxDepth = 2
    MaxWire = 3
SPECIFICATION FairSpec
INVARIANTS Inductive ToldTheTruth Agreement
PROPERTIES OneAtATimeUnlessReactivated ImplementsOptionPair RequestsAnswered
