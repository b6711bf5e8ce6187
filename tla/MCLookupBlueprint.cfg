SPECIFICATION Spec
CONSTANTS
  Lookups = {"a", "b", "c", "d"}
  NbEntries <- MCNbEntries
  NbQueries <- MCNbQueries
  LevelOf <- MCLevelOf
  EntryLevel <- MCEntryLevel
  NbLevels = 3
  MaxRuns = 2
INVARIANTS
  TypeOK
  AnswersAreCurrent
PROPERTIES
  NeverResized
  LevelsEnd
