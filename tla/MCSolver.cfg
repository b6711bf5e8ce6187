SPECIFICATION Spec
CONSTANTS
  Systems <- MCSystems
  NbTasks = 3
  MinWork = 1
INVARIANTS
  TypeOK
  TasksCoverLevel
  NoDataRace
  WorkersSuffice
  ErrorChannelOpen
PROPERTIES
  RefinesSolve
  RunReturns
