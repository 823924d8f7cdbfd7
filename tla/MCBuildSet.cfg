SPECIFICATION BsSpec
CONSTANTS
  BuildSets <- AllBuildSets
  Options <- ConsoleOptions
  Path <- ConsolePath
  DaemonPath <- PathOfDaemon
  WorkPath <- WorkOfDaemon
  Directory <- Files
INVARIANTS
  IdsAreDense
  CommandNamesItsFiles
  FilesStayApart
  WildcardIsComplete
CHECK_DEADLOCK FALSE
