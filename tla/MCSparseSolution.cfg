SPECIFICATION Spec
CONSTANTS
  DomainSizes = {1, 2, 4, 8, 16}
  Circuits <- WithInputs
INVARIANTS
  TypeOK
  CopyConstraintsHold
