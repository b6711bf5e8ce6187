SPECIFICATION Spec
CONSTANTS
  Tables = {"table"}
  LargeFields = {"large"}
  SmallFields = {"small"}
  MaxQueries = 4
  MaxOwn = 1
INVARIANTS
  TypeOK
  NothingUnproved
  ArgumentsAreProved
  ChallengeComesLast
  DefineOnlyCompiles
CHECK_DEADLOCK FALSE
