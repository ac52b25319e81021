CONSTANTS
  Symbols = {"A", "B", "_E", "t"}
  Kind <- MCKind
  None = None
  Nodes <- MCNodes
  Depth <- MCDepth
  Programs <- MCPrograms
  Filters <- MCFilters
SPECIFICATION Spec
INVARIANT SkippedDeclsKeepTheirNames
CHECK_DEADLOCK FALSE
