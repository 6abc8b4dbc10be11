SPECIFICATION DependenciesSpec
INVARIANTS
  QueueIsReady
  SortIsRight
  TreeIsInOrder
  CyclesAreFound
  NothingIsLacking
  HistoryKeepsItsOrder
CONSTANTS
  N = 4
  Texts <- SomeTexts
  DialectOf <- SomeDialects
  ExpandOf <- Groups
  Configured = {}
CHECK_DEADLOCK FALSE
