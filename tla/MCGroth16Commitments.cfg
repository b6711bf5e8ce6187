SPECIFICATION Spec
CONSTANTS
  NbPublic = 2
  NbSecret = 1
  MaxWires = 10
  MaxCommitments = 3
  MaxCommitted = 2
INVARIANTS
  TypeOK
  KeysMatchWitness
  ChallengesMatch
