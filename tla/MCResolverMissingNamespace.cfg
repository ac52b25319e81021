CONSTANTS
  Symbols = {"A", "B", "_E"}
  Kind <- MCKind
  None = None
  Environments <- QualifiedEnvironments
  Queries <- QualifiedQueries
SPECIFICATION Spec
INVARIANT MissingNamespaceMeansUndeclared
CHECK_DEADLOCK FALSE
