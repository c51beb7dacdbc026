CONSTANTS
  Starter = io
  Main = main
  Threads = {io, main}
  MaxRuns = 2
SPECIFICATION Spec
INVARIANTS
  ErrorIsOfLastRun
