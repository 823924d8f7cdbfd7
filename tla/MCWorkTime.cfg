SPECIFICATION FairSpec
CONSTANTS
  Absent = Absent
  Empty = Empty
  Garbled = Garbled
  DefaultDir = DefaultDir
  MaxThreads = 8
  DayLength = 6
  ProjectLists <- Lists
  TimeTexts = {0, 1, 2, 4, 5}
  PercentTexts <- Percents
INVARIANTS
  TypeOK
  WindowIsTheWay
  CoresAreNearest
PROPERTIES
  CoresChangeAtEdges
  WindowComes
