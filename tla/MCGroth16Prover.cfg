SPECIFICATION Spec
CONSTANTS
  NbCommitments = 2
  WorkerOf <- OneWorker
  Capacity = 1
  MaxFaults = 2
INVARIANTS
  TypeOK
  ProofIsComplete
  ReadAfterComputed
  ChallengeOfOwnCommitment
PROPERTY NothingLeaks
