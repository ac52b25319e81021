CONSTANTS
  Symbols = {"A", "B", "_E", "t"}
  Kind <- MCKind
  None = None
  Nodes <- MCNodes
  Depth <- MCDepth
  Programs <- MCPrograms
  Filters <- MCFilters
SPECIFICATION Spec
INVARIANTS TypeOK Lockstep SlicesUsedUp EverythingInterned RawOnlyWhereSkipped DuplicatesAreErrors NamesMeanReferents
CHECK_DEADLOCK FALSE
