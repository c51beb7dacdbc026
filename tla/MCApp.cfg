CONSTANTS
  Capacity = 2
  Batch = 2
  MaxEvents = 5
  Ids = {1, 2}
  Contents = {1, 2}
  Workers = {w1}
  MaxOps = 4
  Values <- TypedValues
  Tokens <- TypedTokens
  Payloads <- MCPayloads
SPECIFICATION AppFairSpec
INVARIANTS
  ShownInOrder
  ExitIsDelivered
  IdsAreUnique
  
  ParseInvertsBuild
  AppFlagsWin
  FormReachesOpenFlux
  
PROPERTY
  FlushedUnlessBurst
CHECK_DEADLOCK FALSE
