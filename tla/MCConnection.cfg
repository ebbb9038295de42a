CONSTANTS
    TerminalCalls = {"naws", "terminal_type"}
    Keys = {90, 97}
    Sizes <- TwoSizes
    MaxWire = 3
SPECIFICATION FairSpec
INVARIANTS Inductive SizeFollows EchoInOrder
PROPERTIES TypeAnnounced DeadConnectionsRemoved
CHECK_DEADLOCK FALSE
