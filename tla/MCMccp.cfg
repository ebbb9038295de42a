CONSTANT MaxWire = 5
SPECIFICATION Spec
INVARIANTS Inductive ActiveClientUnderstands NeverCorrupted CodecsAgree
PROPERTIES ImplementsOptionPair
