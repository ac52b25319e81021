CONSTANTS
  Symbols = {"A", "B", "_E", "t"}
  Kind <- MCKind
  None = None
  Nodes <- SingletonNodes
  Depth <- MCDepth
  Programs <- SingletonPrograms
  Filters <- MCFilters
SPECIFICATION Spec
INVARIANT EverythingInterned
CHECK_DEADLOCK FALSE
