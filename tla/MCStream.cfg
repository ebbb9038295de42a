CONSTANTS
    Bytes = {"x", "iac", "sb", "se", "will"}
    Writes <- Hard
    MaxWire = 8
    MaxForeign = 4
    MaxContent = 1
SPECIFICATION Spec
INVARIANTS Inductive Prompt
PROPERTIES InOrder
