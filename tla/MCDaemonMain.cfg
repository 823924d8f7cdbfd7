SPECIFICATION DmSpec
CONSTANTS
  MaxQueue = 3
  Closes = TRUE
INVARIANTS
  NothingLeftBehind
PROPERTIES
  NoDaemonWithoutWindow
  ExitEndsDaemon
CHECK_DEADLOCK FALSE
