CONSTANTS
  MaxStarts = 2
  MaxTeardowns = 4
  MaxStops = 1
  QuickStart = TRUE
  QuickStop = TRUE
  SlowBind = FALSE
SPECIFICATION Spec
INVARIANTS
  NewSessionIsSafe
CHECK_DEADLOCK FALSE
