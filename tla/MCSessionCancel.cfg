CONSTANTS
  MaxStarts = 1
  MaxTeardowns = 4
  MaxStops = 1
  QuickStart = FALSE
  QuickStop = TRUE
  SlowBind = FALSE
SPECIFICATION Spec
INVARIANTS
  CancelledStartIsStopped
CHECK_DEADLOCK FALSE
