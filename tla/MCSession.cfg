CONSTANTS
  MaxStarts = 2
  MaxTeardowns = 5
  MaxStops = 2
  QuickStart = FALSE
  QuickStop = FALSE
  SlowBind = FALSE
SPECIFICATION FairSpec
INVARIANTS
  TypeOK
  
  CleanStop
  UiSettles

  
CHECK_DEADLOCK FALSE
