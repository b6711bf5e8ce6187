SPECIFICATION Spec
CONSTANTS
  NbInputs = 1
  MaxInstructions = 3
  MaxInternal = 3
  MaxEntries = 2
  MaxTerms = 2
INVARIANTS
  TypeOK
  CompiledIsSound
PROPERTIES
  NoLevelSkipped
CHECK_DEADLOCK FALSE
