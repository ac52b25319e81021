CONSTANTS
  Threads = {t1, t2}
  t1 = t1
  t2 = t2
  Dirs = {sig}
  sig = sig
  LibNames = {"csv", "stringio"}
  Versions = {"1"}
  DependsOn <- MCDependsOn
  Adds <- MCAdds
  Known <- MCKnown
  HasCore = TRUE
  StringIO = "stringio"
  MayRaise = TRUE
  MaxCalls = 3
  MaxDepth = 6
  None = None
SPECIFICATION Spec
INVARIANT NobodyBlocks
CHECK_DEADLOCK FALSE
