SPECIFICATION FairSpec
CONSTANTS
  nullptr = nullptr
  d1 = d1
  d2 = d2
  p1 = p1
  p2 = p2
  NumTasks = 2
  Daemons = {d1, d2}
  MaxSessions = 1
  Projects = {p1, p2}
  ProjectOf <- TwoProjects
  Config <- OneKnowsAll
  AbortOnError = {1}
  FreeCores = {2}
  ExitCodes = {0, 1}
  Unreliable = {d2}
  WaitPasses = 1
PROPERTIES
  AllTasksGetDone
  ConsoleReturns
  DaemonsComeToRest
