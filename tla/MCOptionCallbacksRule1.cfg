CONSTANTS
    HandlerCalls = {"activate"}
    Unchecked = {}
    MaxDepth = 2
    MaxWire = 2
SPECIFICATION Spec
PROPERTIES OneNegotiationAtATime
