CONSTANTS
  Files <- MCFiles
  Rank <- MCRank
  Underscored = {"_p", "_p-q.rbs"}
  Dotted = {".git"}
  Rbs = {"_p-q.rbs", "a.rbs", "b.rbs", "c.rbs"}
  SpecLists <- MCSpecLists
  Disks <- MCDisks
  MayBeBad <- MCMayBeBad
  MayBeDenied <- MCMayBeDenied
  MaxChanges = 2
  None = None
SPECIFICATION Spec
INVARIANTS TypeOK LoadedFilesWereRead ErrorsAreReal
PROPERTIES IsSequentialLoad IsAnswered
CHECK_DEADLOCK FALSE
