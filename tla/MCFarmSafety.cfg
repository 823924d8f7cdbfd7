SPECIFICATION FilesSpec
CONSTANTS
  nullptr = nullptr
  d1 = d1
  d2 = d2
  p1 = p1
  p2 = p2
  NumTasks = 2
  Daemons = {d1, d2}
  MaxSessions = 1
  Projects = {p1, p2}
  ProjectOf <- OneProject
  Config <- AllKnow
  AbortOnError = {1}
  FreeCores = {2}
  ExitCodes = {0}
  Unreliable = {d2}
  WaitPasses = 2
  File <- Files
  SourceFile <- OwnSource
  OutputFile <- OwnOutput
  LoadFails = {}
INVARIANTS
  TypeOK
  NoDanglingNode
  TasksConserved
  ResultsCountedOnce
  FinishedMeansCounted
  ExitZeroMeansDone
  SuccessIsOwnOutput
  FilesOfTasks
  IdleClientHasCredit
PROPERTIES
  ImplementsTaskBoard
  ImplementsProcessLife
