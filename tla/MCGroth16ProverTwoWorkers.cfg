SPECIFICATION Spec
CONSTANTS
  NbCommitments = 2
  WorkerOf <- TwoWorkers
  Capacity = 1
  MaxFaults = 2
INVARIANT ChallengeOfOwnCommitment
