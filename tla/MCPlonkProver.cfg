SPECIFICATION ProverSpec
CONSTANT MaxFailures = 3
INVARIANTS
  ProverTypes
  NoConflictingAccess
  InputsReady
  ProofOrCause
PROPERTY EveryGoroutineEnds
