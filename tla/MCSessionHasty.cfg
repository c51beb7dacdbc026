CONSTANTS
  MaxStarts = 2
  MaxTeardowns = 2
  MaxStops = 1
  QuickStart = TRUE
  QuickStop = TRUE
  SlowBind = TRUE
SPECIFICATION Spec
INVARIANTS
  OneTun
CHECK_DEADLOCK FALSE
