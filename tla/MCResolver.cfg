CONSTANTS
  Symbols = {"A", "B", "C", "D", "_E"}
  Kind <- MCKind
  None = None
  Environments <- MCEnvironments
  Queries <- MCQueries
SPECIFICATION Spec
INVARIANTS TypeOK ResolvesToDeclarations VisitedIsPending AnswersAreReferents
PROPERTIES IsLookup IsAnswered
CHECK_DEADLOCK FALSE
