SPECIFICATION FilesSpec
CONSTANTS
  nullptr = nullptr
  d1 = d1
  d2 = d2
  p1 = p1
  p2 = p2
  NumTasks = 2
  Daemons = {d1}
  MaxSessions = 2
  Projects = {p1, p2}
  ProjectOf <- TwoProjects
  Config <- AllKnow
  AbortOnError = {1, 2}
  FreeCores = {2}
  ExitCodes = {0, 1}
  Unreliable = {d1}
  WaitPasses = 1
  File <- Files
  SourceFile <- OwnSource
  OutputFile <- OwnOutput
  LoadFails = {}
INVARIANTS
  TasksConserved
  OneSessionPerDaemon
  SuccessMeansOutput
  SuccessIsNoOthersOutput
PROPERTIES
  ResultIsFinal
