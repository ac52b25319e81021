CONSTANTS
  Envs = {"loaded", "second", "third"}
  Loaded = "loaded"
  Sources = 2
  Threads = {"main"}
  Uses <- MCUses
  MayRaise = TRUE
  MaxDepth = 3
  None = None
SPECIFICATION Spec
INVARIANT AccessorsAreComplete
