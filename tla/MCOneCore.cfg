SPECIFICATION Spec
CONSTANTS
  nullptr = nullptr
  d1 = d1
  d2 = d2
  p1 = p1
  p2 = p2
  NumTasks = 2
  Daemons = {d1}
  MaxSessions = 1
  Projects = {p1, p2}
  ProjectOf <- OneProject
  Config <- AllKnow
  AbortOnError = {}
  FreeCores = {1}
  ExitCodes = {0}
  Unreliable = {}
  WaitPasses = 1
INVARIANTS
  IdleClientHasCredit
