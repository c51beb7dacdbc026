CONSTANTS
  MaxStarts = 1
  MaxTeardowns = 4
  MaxStops = 1
  QuickStart = FALSE
  QuickStop = FALSE
  SlowBind = FALSE
SPECIFICATION Spec
INVARIANTS
  TeardownsAreSerial
CHECK_DEADLOCK FALSE
