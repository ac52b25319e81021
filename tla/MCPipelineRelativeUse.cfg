CONSTANTS
  Symbols = {"A", "B", "_E", "t"}
  Kind <- MCKind
  None = None
  Nodes <- MCNodes
  Depth <- MCDepth
  Programs <- RelativeUsePrograms
  Filters <- MCFilters
SPECIFICATION Spec
INVARIANT NamesMeanReferents
CHECK_DEADLOCK FALSE
