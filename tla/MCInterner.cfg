CONSTANTS
  Handles = {"loaded", "resolved"}
  Original = "loaded"
  Strings = {"A", "t"}
  Kind <- MCKind
  IdLimit = 256
  MaxSymbols = 2
  MaxNamespaces = 4
  MaxTypeNames = 2
  MaxPath = 2
  None = None
SPECIFICATION Spec
INVARIANTS TypeOK HashConsed NoDanglingId OneIdPerText SplitRejoins CloneAgrees
PROPERTY IdsStable
CHECK_DEADLOCK FALSE
