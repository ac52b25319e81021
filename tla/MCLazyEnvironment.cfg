CONSTANTS
  Envs = {"loaded", "second", "third"}
  Loaded = "loaded"
  Sources = 2
  Threads = {"main", "other"}
  Uses <- MCUses
  MayRaise = TRUE
  MaxDepth = 3
  None = None
SPECIFICATION Spec
INVARIANTS TypeOK EachSourceOnce ReentryIsShallow OriginalStaysUnresolved AnswersAreFinal
PROPERTY CallsReturn
