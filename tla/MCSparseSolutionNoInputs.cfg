SPECIFICATION Spec
CONSTANTS
  DomainSizes = {1, 2, 4, 8, 16}
  Circuits <- WithoutInputs
INVARIANT PaddingHoldsWire0
