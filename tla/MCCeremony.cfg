SPECIFICATION Spec
CONSTANTS
  Sizes = {2}
  MaxContributions = 2
  MaxObjects = 2
  MaxCalls = 3
INVARIANTS
  TypeOK
  AcceptsExactlyChains
  EveryContributionCounts
  ResultsKeep
  Reproducible
CHECK_DEADLOCK FALSE
