CONSTANTS
    Names <- SpecialNames
    Values <- SpecialValues
    Queries <- Asked
    MaxWire = 3
SPECIFICATION Spec
INVARIANTS Inductive UpToDate EveryRequestAnswered
