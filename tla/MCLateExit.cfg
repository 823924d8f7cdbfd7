SPECIFICATION Spec
CONSTANTS
  nullptr = nullptr
  d1 = d1
  d2 = d2
  p1 = p1
  p2 = p2
  NumTasks = 1
  Daemons = {d1}
  MaxSessions = 1
  Projects = {p1, p2}
  ProjectOf <- OneProject
  Config <- AllKnow
  AbortOnError = {1}
  FreeCores = {2}
  ExitCodes = {0, 1}
  Unreliable = {}
  WaitPasses = 2
INVARIANTS
  ExitOneMeansUnfinished
