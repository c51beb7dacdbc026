CONSTANTS
  Starter = main
  Main = main
  Threads = {main}
  MaxRuns = 2
SPECIFICATION FairSpec
PROPERTIES
  DeathIsHandled
  KeyIsDeleted
  StartHasVerdict
